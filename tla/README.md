# Formal verification of skawld-sdk-go

TLA+ modules that model the SDK's durable workflow core, the agent stack around
it and the stores under both; TLC configurations that check them on small
instances; and TLAPS proofs of the properties that matter most for every
instance. Everything is translated from the Go source; `PROJECT.json` maps each
definition to the lines it stands for.

    tlc -workers 2 -config exec_safety.cfg MCWorkflowExecutor   # one run
    tlapm ExecutionLeaseProofs.tla                              # the proofs

## 1. Inventory of the system

| Part | State | Operations | Hard behaviour | What makes it correct |
|---|---|---|---|---|
| **Execution store and leases** (`workflow/execution_store.go`, `execution_lease.go`, `storage/sqlite/execution_lease.go`, `execution_transition.go`) | one document, one revision and one lease (owner, token, until) per execution; a fence | Create, Get, Update, UpdateWithEvents, ClaimExecution, ClaimReadyExecutions, RenewExecution, ReleaseExecution | several processes, late clock readings, expiring leases, stale copies, batches | fencing, no lost update, terminal documents final, exclusive live leases |
| **Workflow executor and coordinator** (`workflow/runtime.go`, `coordinator.go`, `executor_lease.go`, `cancellation.go`, `recovery.go`, `reconciler.go`) | the in-memory `Execution` of each operation in flight, its claim, its context | Execute, Resume, ResumeStored, RunOnce, Cancel, Recover, ReconcileRecovery | crash or lease loss around an external call, two stores that are not atomic, concurrent cancel / decide / recover, retries | no unasked-for repetition of a side effect, step order, approval before call, uncertainty never hidden, everything settles |
| **Contracts of a workflow** (`workflow/validate.go`, `references.go`, `runtime.go`) | a version's steps, schemas and references; the outputs so far | validate, preflight, resolve, compare, validate output | indexes, absent fields, skipped steps, open schemas | what the preflight accepts resolves, and with the declared type |
| **Policy and approvals** (`policy`) | approval records | Request, Decide, Expire, Cancel; the rule engine | a decision is authorized on an earlier read; ids reused | decisions stand, nobody grants their own request where distinct approvers are required |
| **Audit outbox** (`audit`, `storage/sqlite/outbox_lease.go`) | one `Delivery` per event: attempts, lease, schedule, outcome | Enqueue, Claim, Acknowledge, Fail, Requeue, Pending, MarkAttempt, MarkDelivered; Worker.RunOnce, Dispatcher.Append / Flush | batches that outlive their lease, crash between sink and acknowledgement, late reports, dead letters | nothing lost, delivered means accepted by the sink, dead letters earned, everything settles |
| **Agent, session, turn loop** (`agent.go`, `session.go`, `loop.go`, `compaction.go`) | the active run of a session, its two contexts, the view sent to the provider, the stored messages, pending calls | Run, Abort, RunHandle.Close, Agent.Close, tool batches, compaction | abort races completion, parallel calls, a consumer that stops reading, crash, summaries that fail or are cut off by a cancellation | one run and one result, what is stored answers each call as the call did, the view tells what is stored, closing ends |
| **Providers** (`providers`, `loop.go` streamTurn) | the adapter's buffers, the message being assembled | stream, assemble, retry | any order of wire events, truncation, failure after output, early end of the turn | the message is what was streamed, no goroutine or body left |
| **Permissions and the gate** (`permissions`, `loop.go`) | rules of the session, the batch of calls, the audit trail | Evaluate, ask, start | rules added by an answer, inputs rewritten by it, composite commands | nothing runs that was not allowed as it runs |
| **Tools** (`tools`, `tools/mcp`) | background processes, cron jobs, pending JSON-RPC requests | spawn, wait, kill, close; create, fire, delete; connect, request, close | kill against exit, spawn against close, delete against fire, servers that misbehave | every process reaped, every caller let go, jobs fire once per minute of theirs |
| **Raven** (`cmd/raven`) | pending and early answers | CanUseTool, Resolve | the dialog may answer first | whoever waits gets the answer |
| **Session stores and task graph** (`sessions`, `sessions/sqlite`) | sessions, messages, compaction ends, tasks with edges; owners and envelopes | Create, Append, UpdateMeta, tasks | sequences of edge edits, check of the owner before a second call | symmetric, acyclic edges; both stores agree; data stays bound to its owner |
| **Storage protection and tenants** (`storage`, `storage/sqlite`) | schema, marker, keyring, envelopes; rows of ten classes | Open, migrate, protect, rotate, retire; Save, Get, List, PurgeExpired | processes with different keys, interrupted migrations, ids shared between tenants, text order of times | documents stay whole and readable, a tenant sees its own rows, rows are kept for their period |
| **Release life cycle** (`workflow/store.go`, `review.go`, `route_store.go`, `feedback.go`, `resolver.go`, `automation`, `learning`, `evaluation/publisher.go`) | versions, reviews, routes, reports, feedback | learn, review, evaluate, publish, route, execute, feedback, improve | check-then-act over several stores | published on evidence, tasks reach published versions, no learning lost |
| **Evaluation** (`evaluation`) | a suite, its cases, tallies, gates | Run of the workflow, agent and extractor runners | a pool of goroutines, failing cases, rates over nothing | a report is whole, its gates earned, the run ends |
| **Observation** (`observation`) | demonstrations and their traces, secrets, rules | Start, Capture, Complete; signed HTTP and browser intake; redaction | replays, retries, corrections, rotation, completion under a capture | only authentic, ordered, redacted events, each once |
| core, config, skills, subagents, telemetry, harness, internal, exports | none of interest | parsing, types, I/O | - | - |

How they interact: the executor calls the execution store, the approval store
and tools; every checkpoint carries its audit events into the outbox in one
transaction (`UpdateWithEvents`); audit workers drain the outbox; the
coordinator and the hosts start the executor's operations; `automation` composes
the release life cycle with the executor. The agent runs sessions; a run streams
turns from a provider, passes tool calls through the gate, and stores messages
in a session store; tools keep processes, jobs and servers of their own.

## 2. Modules

The workflow stack:

* **LeaseRules** - the lease triple and the rules every store applies to it. No
  state. **ExecutionCheckpoint** - the document of an execution and the rules of
  `ValidateCheckpoint` and `ValidateExecutionUpdate`. No state.
* **ExecutionLease** - the leased store driven by operation contexts: one action
  per store operation, plus `Abandon` (crash, or a release that failed) and
  `Tick`. `SharedFence` selects the memory store (one fence, leases deleted on
  release, clock read up to `ClockLag` ticks before the mutex is taken) or
  SQLite (a token per row that survives release, time read inside the
  transaction).
* **WorkflowExecutor** - one execution driven by concurrent operations. `pc`
  names the next observable call of each process; an action is the local code up
  to and including that call. `ex` is the Go `Execution` value an operation
  mutates *before* a store call and keeps mutated when the call fails. `Save` is
  `checkpointWithEvents`: accepted, refused, or hit by a storage fault; a
  *detached* save is one under `context.WithoutCancel`. A `Deployment` (workflow,
  worker ids, operations in use, deadline, TTL and what the environment may do)
  is chosen once in `Init`, so that one run covers several deployments.
* **WorkflowContracts** - what the same executor does with data: a JSON value is
  a record with its kind, a contract one field per schema keyword, of a finite
  `Height`. The recursive validators are recursive functions over contracts and
  values (`AcceptableSchema`, `AcceptedValue`). `Preflight` is the step that
  accepts or rejects a job (`Validate`, `ValidateReferences`, `ValidateInputs`);
  `ResolveRef` is what a reference finds in a step. `Checked` names the parts of a
  value that are held against a sub-schema.
* **AuditPromise** - what the outbox promises per event, without leases or time.
  **AuditOutbox** - the outbox, leased workers and dispatchers, shown to
  implement it. Expiries are kept as ticks remaining, so that liveness is checked
  without a clock bound. `GuardsSettled` tells SQLite's reports from the memory
  store's.
* **Approvals** - both approval stores behind `AuthorizedApprovalStore`:
  authorization on one read, transition on another.
* **ReleaseLifecycle** - one action per store call of `automation`, `learning`,
  `evaluation/publisher.go`, `workflow/resolver.go` and the recorder; `pc` names
  a caller's next store call. A *script* says which calls race.
* **EvaluationRunner** - the three runners, pool and sequential, their tallies,
  rates, percentile, gates and reports.
* **ObservationIntake** - producers, the network, the HTTP handler and the browser
  adapter, the redactor on trees of nodes, the recorder and its store.
* **StorageProtection** - processes that open, migrate, protect and rotate one
  database; a document is the sequence of keys around it. **TenantRecords** - ten
  classes of records of several tenants in their memory adapter and SQLite table,
  and the purge.

The agent stack:

* **SessionRun** - one session, its runs and turns: a run has a work context
  (`cancelled`) and a stream context (`muted`); `stuck` is a consumer that no
  longer reads. A parallel call goes through `StartCall`, `EndCall` and `Collect`:
  its events wait in a buffer for a forwarder, which gives up on a muted stream, so
  a call may be collected and still count as unfinished (`lost`). `Sweep` then puts
  a `StandIn` in the place of its result, as the code does. A summary is what the
  provider's stream told until it ended of itself, which need not be a complete
  one; what a *cancelled* run had read of it is told apart (`Truncated`).
  **ProviderStream** - the wire events of a turn, the adapter of
  each provider, and `streamTurn` that assembles and retries.
* **PermissionRules** - the verdict of `permissions.Engine`; **ToolGate** - the
  batch of calls between model and execution, with policy, rules, mode, questions
  and audit; **PermissionBroker** - Raven's callback and its dialog.
* **McpClient**, **ProcessManager**, **CronManager** - the resources of the tools;
  **ToolHost** composes the first two, the other programs a registry keeps running.
* **TaskGraph** - what a session store promises of its tasks (abstract);
  **SessionStores** - the memory and the SQLite store driven by the same calls,
  each with its own algorithm for edges and cycles; **ProtectedSessions** - the
  store that checks owners and encrypts, around one of them.

Proofs are in **ExecutionLeaseProofs**, **WorkflowExecutorProofs**,
**AuditOutboxProofs**, **ReleaseProofs** (ReleaseLifecycle, WorkflowContracts),
**TurnProofs** (SessionRun, ProviderStream), **RecordsProofs** (SessionStores, ProtectedSessions,
TenantRecords, StorageProtection, ObservationIntake) and **ToolsProofs** (CronManager,
Approvals, ToolHost, ToolGate, EvaluationRunner); **Induction** holds the lemmas
about minima, folds, recursive functions with a measure, and induction over
numbers, measures and finite sets that they share.
Instances for TLC are the MC modules. Four of them put
components side by side that share no state: the rigid variable `focus` says
which component moves in a behaviour, so that their state spaces add up and do
not multiply. Where components do interact, the interaction is in one module
(executor with store, approvals and outbox rules; lifecycle with all its
stores; run with store, tools and agent).

Definitions under a comment that begins with "Mutant" are deliberately wrong
variants of the definition that follows them; they show that each property can
fail when the code is wrong, and nothing else refers to them.

## 3. Runs

| Run | Question | Bounds |
|---|---|---|
| lease | fencing, exclusion, lost updates and finality over the leased store, with claims in batches | 1 execution, 2 leased workers and a context without WorkerID, lease 2, lag 1, 3 revisions, 3 tokens |
| exec_safety | replay, order, single flight, approvals, immutability, the owner is refused in three named cases only | 10 deployments of 1-3 steps, 2 processes, 3 ticks with leases of 2, 3 tokens, 1 crash, 1 decision, shutdown or fault |
| exec_liveness | every execution ends or waits for a person; an uncertain call is not filed as a failure | 2 deployments, 5 ticks, 9 tokens, 1 crash |
| outbox_safety | the outbox implements AuditPromise; exclusive claims, earned dead letters, late reports | memory store, 2 events, 2 workers, 1 dispatcher, batches of 2, 2 attempts, 1 interruption, requeue, lapse, dispatch; symmetry over workers and events |
| outbox_liveness | every event is delivered or dead-lettered | SQLite store, 2 workers, batches of 1, 2 attempts, backoff 1-2 |
| stores | session stores agree and implement TaskGraph; sessions stay bound to their owner; envelopes stay whole; tenants see their own; intake is sound | 3 tasks; 3 callers of 2 actors; 2 processes, 2 keys, 1 document; 2 tenants, ids and groups, 2.5 seconds; 2 handlers, 5 events, 3 rules; symmetry over tenants, ids and groups |
| turn | runs accounted for, stored answers those of their calls, the view faithful, closing ends; a streamed turn is what was sent, and leaks nothing | 2 runs of 2 turns, 2 parallel calls one at a time, 1 abort, closed handle, stalled reader or crash; 4 kinds of provider, 5 wire events in production and 3 outside, 2 ids, 1 retry |
| tools | hosts, cron, gate, broker, approvals and evaluation | 2 MCP servers, 2 users, 2 processes, 2 jobs over 4 minutes; 2 calls, rule lists of up to 3; 3 questions; 3 people of 2 tenants; suites of 1-3 scenarios, pool of 2 |
| release | publication, routing, learning and feedback raced call by call; small workflows over every contract below a bound | 3 callers, 8 scripts, 2 workflows, 2 demonstrations; 2 steps, 14 contracts, one nested deeper than the limit of 2 (32 in the code), 10 values |
| exec_replay_after_takeover | *violation*: Execute replays a call after a takeover | execute and run_once |
| provider_truncated | *violation*: a truncated body is a complete message | as turn |
| tenant_reports | *violation*: one tenant's report makes the other's list fail | as stores |

Why the bounds are enough: a takeover needs one expiry (lease 2 < clock 3), a
second process and two tokens; the races of interest are between two operations,
and each environment event changes the protocol the first time. A cycle that
closes through a task the edit does not name needs three tasks; a row claimed by
another actor after a deletion needs a third caller; a rotation needs two keys;
text order of times goes wrong within one second, which half seconds show. A
wire message of two begun calls, one argument and two ends has five events. The
workflows are the shortest in which a risky call is preceded and followed by
another step, and the contracts hold every keyword of the supported schemas.

A session that closed its run handle, a suite that is evaluated, a database
that has been rotated or a workflow whose steps are done come to rest, and
bounded counters are used up: deadlock checking is off where a behaviour may
end, and what must not be stuck is stated as a liveness property instead.

**Properties.** Each property of a run joins the facts of one question; their
parts are named definitions with their own comments.

**Fairness.** In every model a goroutine that can run does, and nothing is
promised of people, providers, servers, callers, consumers, crashes or the
network.
`WorkflowExecutor!FairSpec`: the clock, every process's own code, starting
operations (the coordinator polls in a loop) and the renewal goroutine.
`AuditOutbox!FairSpec`: the clock and each worker's `RunOnce`; the sink must
answer but may always refuse, and a lease runs out under a busy worker only
`MaxLapses` times - with a sink that is slower than the lease for ever, two
workers could take the event from each other for ever. `MCTurn`: a run goes on by
itself (`Proceed`) unless it waits for its consumer; what it waits for - the
provider, a permission callback, a tool (`Hear`) - may be silent for ever, until
the run's work is cancelled. Then it returns: the code hands each of them the
context of the run, and docs/USAGE.md:60 asks of permission callbacks that they
"return promptly when `ctx` is canceled". That is an assumption about the host,
not about the code: `CanUseTool` is called synchronously
(`permissions/engine.go:134`), and a callback, a tool or a provider that ignores
its context keeps `Agent.Close` waiting for ever. The agent goes on cancelling and
closing once it has begun; an adapter notices that its context has ended. `MCTools`: senders, readers, managers, job loops, the
broker's goroutines and the evaluation pool; evaluated executors return. That everybody
is let go is stated as `<>[]`, because calls, jobs and questions are finitely
many.

**What the violations show** (details under "findings"):
`exec_replay_after_takeover` - `Execute` (and `ResumeStored`) do not look at the
status of the snapshot they claim, so a call that may have happened is made
again. `provider_truncated` - the adapters close a message themselves when the
body ends, so the check for `message_end` never sees that the server did not. The
same holds of the summary of a compaction (`compaction.go:388`): its beginning is
installed for the whole, and outside production so is one that ran into its
token limit or was refused. `ViewFaithful` therefore does not say that a summary
is complete.
`tenant_reports` - the lists of reports decode the rows of every tenant before
they compare tenants. The passing runs use deployments in which these cannot
happen, or state the property so that this one failure is allowed by name.

**Known disagreements without a run of their own.** Each of these definitions
is in its module and false of the code; adding it to the configuration named
shows a trace.

| Definition | Where | What a document or comment says | What the code does |
|---|---|---|---|
| `StaleWorkerCannotWrite` (ExecutionLease, lease) | `workflow/execution_lease.go:336` | docs/WORKFLOWS.md:235 "A stale worker cannot persist a checkpoint after a newer worker takes ownership." | true while the row is held; between a release and the next claim only the revision is checked |
| `OwnerIsNeverRefused` (WorkflowExecutor, deployment `RetriedThenRecovered`) | `workflow/runtime.go:787` | docs/WORKFLOWS.md:262 "confirmed_not_executed, which permits one explicit retry" | the attempt counter restarts at one and the store refuses it |
| `OwnerIsNeverRefused` (WorkflowExecutor, `FaultBeforeAwait`) | `workflow/runtime.go:1010` | workflow/execution_store.go:247 "workflow execution has a pending approval in status" | when the checkpoint that refers to a new approval fails, `fail` keeps the approval, so the failure cannot be stored either and the execution stays running |
| `OwnerCanClose` (WorkflowExecutor, `DecidedThenClosed`) | `workflow/cancellation.go:58` | docs/WORKFLOWS.md:240-242 Cancel closes a pending approval first, the timeout bounds approval waiting | an approval that was decided meanwhile makes both give up |
| `UncertainCallNotHidden` (WorkflowExecutor, `FaultAfterCall`) | `workflow/runtime.go:930` | docs/WORKFLOWS.md:267 "The runtime never guesses whether a real-world operation occurred." | if the recovery checkpoint fails, the call ends as `failed` |
| `NoLateReference` (WorkflowContracts, release) | `workflow/references.go:242` | docs/WORKFLOWS.md:97-102 "Invalid references fail before the first tool call" | a type left out skips the check of a path; optional fields and skipped steps fail later |
| `ResolvesPublished`, `StaleRouteWriterRefused` (ReleaseLifecycle, release) | `storage/sqlite/store.go:606`, `workflow/route_store.go:166` | docs/WORKFLOWS.md:115, 148-150 | Published is two statements; a route deleted and saved again starts at revision one |
| `OutageIsNotEnforcement` (EvaluationRunner, tools) | `evaluation/extractor.go:267` | docs/EVALUATION.md:116-124 | an executor error counts as a rejected extraction |
| `NoDanglingCalls` (SessionRun, turn) | `loop.go:229` | loop.go:194-196 no tool_use block without its result in the durable history | a run ended between the two stores one |
| `WaitHasCommand` (ProcessManager), `DenialHonoured` (PermissionBroker, tools) | `tools/process.go:300`, `cmd/raven/permission_broker.go:35` | core/tool.go:157-160; cmd/raven/main.go:454 | Kill may clear the command under the waiting goroutine; an early answer is lost to a second one |
| `RecordedVersionIsSchema`, `NothingLocked` (StorageProtection, stores) | `storage/sqlite/store.go:301`, `:715` | docs/WORKFLOWS.md:290, 307-310 | an older binary records its own version; an update may rewrite a document under the previous key that is then retired |
| `ConflictMeansCaptured` (ObservationIntake, stores) | `observation/httpadapter/handler.go:247` | docs/OBSERVATION_ADAPTERS.md:57 | 409 is also the answer to a demonstration that is not recording |

## 4. Proofs

Every theorem rests only on the named ASSUMEs of the modules, which the Go types
and constructors enforce: positive durations and limits, non-empty worker ids, an
authenticated caller has an actor; an event, a rule list, a suite has the form its
type gives it; a contract has a finite height, and the parts of a value are values.
Three theorems of the executor have one hypothesis more, `SnapshotsChecked`, and one
of them a second, `NoFaults`, both below.
`FlightInv`, `DraftInv`, `DoubtInv`, `ReleaseInv`, `TurnInv`, `ViewInv`, `StreamInv`, `RecordsInv`,
`IntakeInv`, `McpInv`, `ProcInv`, `SpawnInv`, `GateInv` and `EvalInv`, the
invariants of the longest inductions, also hold on the instances of the runs.

`ExecutionLeaseProofs`: for all sets of executions, contexts and workers, both
fence disciplines, any lag and any bounds:

1. `TypeCorrect`;
2. `FencingInv` is inductive - the fence is at least as large as every token
   issued (`FenceCoversIssued`), the holder has the newest token, a token names
   one owner - hence `FencingIsSound`. `FenceCoversIssued` is the strengthening:
   without it a grant could reissue a token;
3. `DocumentInv` - no copy is ahead of the row (`CopiesNotAhead`), rows not yet
   created are blank, and equal revisions mean equal documents - gives
   `CurrentRevisionNamesDocument`, that is, no lost update;
4. `TerminalDocumentsAreFinal` and `FenceHolds`, action properties, from 1-3;
5. `ExclusionInv` - a claim that has not expired is the stored grant
   (`BeliefIsGrant`), and belongs to the context's worker id - gives, with the
   bound on leases, `LeasesAreSound`.

Both ways of claiming are summarised by one lemma (`GrantsTo`), so that single
claims and batches share one argument.

`WorkflowExecutorProofs`: for any workflow, deployment, set of processes, lease
duration and bounds, with every crash, takeover, fault, cancellation, approval and
recovery decision of the model:

1. `DocSound` says what a document must satisfy - finished steps before the next
   one, a completed step called and approved or confirmed, recorded approvals
   granted, a pending approval one of the next step - with the approvals, the calls
   and the confirmations as parameters. `ExecInv` claims it of the stored row *and*
   of the copy of every process that is not about to give up. That is why it does
   not matter whose save wins: the row is replaced by a sound document whatever the
   lease and the revisions say;
2. `LocalSound` adds what a label knows: inside a step its condition is true, past
   `requireApproval` the step no longer awaits an approval, after the ToolCalled
   transition the call has been made. `Settled` (awaiting iff an approval is
   pending, from ValidateCheckpoint) holds of what was just read, and makes a resume
   that finds a granted approval credit it to the right step;
3. approvals, calls and confirmations only grow (`Grows`), so other processes' copies
   stay sound (`OneMoves`); `Saved` is the one place where a save makes a call, and
   `FinishedStays` keeps what precedes earlier calls finished;
4. with one lemma per action, `TypesHold` and `EffectsStayInOrder` follow.
   `EffectsInOrder` alone is not inductive: it says nothing of the copies that are
   saved later;
5. `FlightInv` relates each copy to the row by its revision. Without a hypothesis:
   a copy is no newer than the row, and one of the same revision differs from it in
   its next step only (`Descends`), hence `FinishedStaysFinished`. Under
   `SnapshotsChecked`: a copy that is current has made, for its next step, no more
   calls than confirmations have paid for and this run has tried (`Counted`,
   `Ready`, `LabelStatus`), and while one process is in a call no other holds a
   current copy of the same step about to make it (`Alone`), hence `NoReplay` and
   `OneCallAtATime`. Neither property is inductive: a stale copy that could still be
   saved would replay. `SnapshotsChecked` says that a deployment with worker
   ids enters through `RunOnce`, `Cancel` and `Recover`, not through `Execute` or
   `ResumeStored`, which run on from the snapshot they claim without a look at its
   status. It is needed: without it the properties are false, which the run
   exec_replay_after_takeover shows. A deployment without worker ids may use every
   entry, for there the revision stops whoever is late;
6. `OwnerIsNotLockedOut`, for every deployment: the store refuses a checkpoint of the
   process that holds the execution, works from its current revision and has not been
   canceled in the three cases of `Refusable` only. `OwnerIsHeard` compares a row with
   a document edited several steps earlier, so `DraftInv` says of each label what the
   process may have made of its document (`Draft`): it is open, its step is running
   where one is worked on and awaits the approval it has an id for at `await`, nothing
   is pending where the execution is closed - and, as long as no other save came in
   between, it is the row itself but for that edit (`Current`). Any save makes the
   copies of the others older than the row, which is why theirs need no argument
   (`DraftStores`). `StoreTakes` then shows each document allowed by
   ValidateExecutionUpdate and ValidateCheckpoint. The three cases were found by the
   attempt to prove the property without them: two are in the table above, the third
   is the snapshot that `SnapshotsChecked` is about;
7. `UncertaintyIsKept`, where there are neither cancellations nor recovery decisions
   (with them the property says nothing). A call of unknown outcome can be filed as
   failed or canceled only by a process whose copy is current, so `DoubtInv` says what
   such a copy may be closed for: at every label that closes, its next step was not
   called (`Discreet`; by the counts of item 5, and because a tool whose failure is
   uncertain is called in the first attempt only). There is one exception, `fail`
   after a recovery that the store has refused. `RecoveryIsTaken` shows that the store
   refuses it to a current copy only because the lease is another's, and then it
   refuses the failure too - as long as the lease stays another's. A release by the
   new owner would open the row to every writer. So `Guarded` says that while a
   current copy has a call of unknown outcome, another process that owns the execution
   has just claimed it and still has the row before it: it will find the call in
   flight (`SeenInFlight`) and save its recovery, after which the first copy is stale.
   `TokensInv` keeps two owners apart. `NoFaults` excludes the deployments of the
   finding in the table above, in which the recovery is lost for another reason and
   the failure is stored.

`AuditOutboxProofs`: for any events, workers, dispatchers, options and for both
stores:

1. `Pipeline` is inductive: the types, an agent handles only queued events, one it
   is about to report as delivered has been taken by the sink (`InHand`), and an
   event that was never enqueued is not settled;
2. `OutboxImplementsPromise`: given `Pipeline` every step maps to a step of
   AuditPromise or to a stutter. The reports of workers and dispatchers share the
   lemma `ReportKeepsPromise`;
3. `HeldClaims` - a worker with an unexpired claim is the stored owner, under a
   lease of the same length, of an event that is not dead - is inductive, hence
   `ClaimsAreExclusive` and `LateReportsAreRefused`, and with 2 `PromiseIsKept`.
   `ClaimsExclusive` alone is not inductive: it does not say that a claimed event
   cannot be claimed again;
4. `Earned` - while no dispatcher has acted, an owner has seen the stored attempt
   count, every counted attempt is a failed delivery, and an event that is not
   dead has attempts left - gives `DeadLettersAreEarned`.

`ReleaseProofs`: for any callers, workflows, numbers, demonstrations and scripts of
calls:

1. `ReleaseInv` says of each call what it may rely on between its store calls
   (`CallSound`): a document it read is still that of the version but for its status
   (`Candidate`), the reports and reviews it has seen are stored, and from its first
   check on there is a report, from the second a review, that nothing it has seen is
   later than. The stores only grow by records that are later by their clock, and a
   stored version keeps its document (`RowKept`), so what was evidence stays
   evidence: `PublicationsHaveEvidence`. `PublishedOnEvidence` alone says nothing of
   a publication that has read and not yet written;
2. `TasksHaveTarget`: a target was looked up as published before the route or the
   execution is stored, a publication retires the old version only as it publishes
   the new one (`OnePublished`);
3. `WhatWasLearnedIsKept`: a document's traces are those of completed
   demonstrations, which do not change any more (`Frozen`), and traces are ordered
   because each append is checked against the trace it extends (`TraceOrdered`).

WorkflowContracts: `ContractsAreSound` for any versions, inputs, contexts and tool
results over any contracts and values. `RecursionExists` makes an equation of each
recursive function (`AcceptedIs`, `ConformsIs`, `TypedIs`), and an induction on the
height of a contract shows that what validateContractValue accepts conforms to it,
when every part names its type (`AcceptedConforms`). A path is followed by a fold into
the contract at preflight and into the value when a step needs it;
`PathKeepsAcceptance` compares the two stage by stage: what is found in the contract
has accepted what is found in the value. `ContractsInv` keeps what was checked at the
start, and that every recorded output was accepted by the contract of its step, which
the property does not say of an output nobody has referred to.

`TurnProofs`: for any runs, plans, call limits and consumers:

1. `RunSound` says what one run relies on of itself and of the history. At most one
   run is in a phase in which it works, the session's active one (`SessionSound`),
   and only that one writes to the history; so a step of a run has two lemmas about
   the others, `RunMoves` and `RunStores`. `RunsAreAccountedFor`: the agent's count
   is the cardinality of the runs between reserve and release (`AgentSound`), and a
   run has its one result when it has left, unless it is muted;
2. `AnswersMatchCalls`: the last message is the one whose calls the run deals with
   (`LastAsks`), a call that is done has an answer unless its run is muted, one
   that is still to be collected has none but a stand-in, and a stand-in is there
   only when the run is cancelled (`CallSound`). The sweep
   may replace an answer that was collected, but a cancelled run stores nothing, so
   what the history holds is what the calls gave. The limit of calls counts the pairs
   of message and index (`CallsWithin`);
3. `HistoryIsSeenFaithfully`: `ViewInv` says position by position what the view is, a
   summary and a replay or less, and the messages of the history from one on. A
   compaction is in two steps with the provider's answer between them, so the
   invariant adds what the second relies on (`InstallSound`): the summary is what the
   provider's stream told until it ended of itself, or the run is cancelled, and the
   view still is worth compacting, since only the
   active run stores. `StripShape` counts the positions of what is left when the
   replay is dropped.

ProviderStream: `OneAttemptIsTold` for any call ids, limits and orders of events.
`StreamInv` balances an account (`Accounted`): what the server has said of each call
is what the message holds of it plus the event the adapter has still to hand over;
it holds in production, where an event out of order is refused, until the context
ends, for then the adapter drops what it has. A retry begins only when nothing is
committed, hence nothing shown (`ShownSound`). `CallsAreWhole` alone says nothing of
a message that is not yet accepted.

`RecordsProofs`, SessionStores: for any number of tasks and sequence of edits:

1. `SqlImplementsTaskGraph`: `SqlInv` is the shape of the tables and acyclicity
   (every set of tasks that is not empty has one without a successor in it). An
   edit adds edges at one task only; `NoCycleThrough` shows that no new set of
   tasks feeds itself when what the reachability query found does not hold that
   task. Deletion removes the edges of the task (`SqlDeleteStep`), so an edge
   never names an absent one;
2. `MemoryStaysMirrored`: one edit touches the lists of several tasks and deletes
   before it adds; `DetachMirrored` and `ApplyMirrored` show each half keeps the
   two directions equal;
3. `StoresStayEqual`: the stores hold the same session after any calls, so the memory
   store has no cycle either. `AgreeInv` says that both of its lists, of what a task
   blocks and of what blocks it, are the rows of the SQLite table. The stores decide
   about cycles differently, one by a depth-first search after the edit, the other by
   a recursive query for each new edge; that they decide alike (`JudgedAlike`) is the
   theorem's substance. `SearchSound` says what a visit of a task answers: without a
   cycle, what was visited is closed under edges and holds none (`Settled`); with one,
   there is a cycle if every task on the path leads on to the next (`Leads`). It is
   proved by induction on the tasks that are not on the path yet, and says no less
   than that the search finds exactly the cycles (`CycleIsFound`). What the query
   reaches is a cycle by `PathIsCycle`.

ProtectedSessions: `SessionsStayBound` for any callers and actors.
`ProtectedInv` adds to the property that an absent session holds no messages,
without which `Create` could hand another actor's messages to a new owner, and
the types. It is about the calls between authorization and effect: while one is
in flight the owner stays who it was authorized for.

TenantRecords: for any tenants, ids, groups, periods and each of
the ten classes. `RecordsInv` says that both adapters hold the document a tenant
expects, the table until the purge (`Kept`), with the time that `Matches` its
class; `TenantsAreKeptApart` and `RetentionIsKept` follow. That a purge may come up
to a second early is in the comparison of texts, so it is in the property. What the
classes differ in is a table (`Adapters`), of which the proofs use the few facts of
`AdapterFacts`.

StorageProtection: `EnvelopesStayWhole` for any processes, keys and
documents. `StorageInv` adds that what is encoded and not yet written by a process
with a protector is in an envelope (`PendingSound`), that an open store with a
protector has left its marker in the database (`MarkerLeft`), and that after a
migration every open store has a protector: a writer that read before the
migration and writes after it is what the property alone does not exclude.

ObservationIntake: `IntakeIsSound` for any events, handlers, secrets, bounds, rules
and payloads whose trees are closed under parents (`PayloadAssumption`) and whose
rules are valid (`RulesAssumption`, what `validRedactionPath` accepts).
`EventsAreCapturedOnce` is the half about order and identity. `IntakeInv` adds that a handler past its lookup carries an event of the
tenant that differs from the received one in its payload only (`RequestSound`).
Nothing more is needed of a handler, for the store looks at the trace again under
its lock: `AppendSound` shows that what passes `ValidateAppend` keeps a trace
unique, ordered, and corrections behind what they correct. The other half is about
the redactor, which applies rules one after another in an order that Go's map does
not fix: `SanitizedIsRedacted` computes what any order leaves in closed form -
`Redacted`: a node is gone when a rule drops it or an ancestor, replaced when a rule
replaces it, gone when it lies under one that was replaced - by induction over the
number of rules applied (`RedactedByOneMore`). Since the form does not name the order,
a retry compares equal whatever order it meets, and `SanitizedIsClean` reads from it
that nothing sensitive or replayable is left.

`ToolsProofs`, CronManager: `JobsFireOnSchedule` for any jobs and expressions. Counting is
strengthened to what a goroutine has still to fire: while it waits for a minute,
or was woken by it, its fires are at most the matched minutes *before* that one
(`FiresCounted`), so that one more fire stays within those up to now
(`OneMoreMatched`). For deletions, `DeletedIsCancelled`. That a set of minutes has
a first one is the well-foundedness of the naturals.

Approvals: `DecisionsAreKept` for any actors, approvals and interleaving of
reads, requests, decisions and expiries. `NobodyGrantsTheirOwn` is not inductive:
`AuthorizedStands` adds that what somebody has been authorized to grant is not
their own request *still*, which is so because a row of the SQLite store never
changes its requester. For the memory store, which replaces rows,
`RequestsCounted` shows that a decided row is only replaced by a later request.

ToolHost: `HostsAreSound` for any servers, callers, processes and users.

1. `McpInv`: a request that waits was numbered and its channel is empty, and so is
   that of every number to come (`TableSound`) - the strengthening without which a
   second answer to one number could block the reader. `MainInv` says at each point
   of Connect and Close which list names the clients that have a server: those
   connected so far, those to be undone, those to be closed. That is what makes a
   Connect that fails half way leave none behind;
2. `ProcInv`: a process is in the manager's map, in the hands of a caller or of the
   closer, signalled, or its end was seen (`Accounted`). `SpawnInv` adds that numbers
   under way are fresh and of one caller each.

ToolGate: `GateHolds` for any sessions, rules, tools and inputs, and any answers of
people and tools. `CallSound` says of a call at each stage what allowed it:
the policy and the rules, or an approval of the input that was judged; `TrailSound`
says how much of its `Story` the outbox holds. `GateSound` speaks of calls that have
begun, so alone it is not inductive. That a composite command is never judged more
leniently than its parts is a fact about the rules (`CompositeRules`): the first
decisive rule (`FirstDecides`) of the whole decides, or comes after that of a
part.

EvaluationRunner: `EvaluationIsSound` for any suites, pools and replies;
`ReportsAreWhole` is its first half. `EvalInv`: a scenario that was handed out is
judged or held by exactly one goroutine, unless the run has failed; a goroutine leaves
when the channel is closed and drained, so a run that did not fail has judged them
all. The second half is about the gates, which see only totals. `FairInv` adds that
each judged case is what the runner makes of the one answer its scenario got
(`CaseOf`), and that the report has the violations of the final cases. A total that
reaches its bound is one that every case reaches (`TotalSums`), so a rate of one or of
zero says of every answer what `Earned` asks. Other rates, and percentiles, promise
nothing of a single case.

**Model-checked only**, and why:

* `AuditOutbox!TypeOK`, of which `Pipeline` proves what is needed;
* PermissionBroker, which has no theorems;
* what is false and shown by a violation: `UncertainCallNotHidden` with faults, and
  `NoReplayWithoutDecision` without `SnapshotsChecked`;
* all liveness: TLAPS does not prove it under fairness.

## 5. Not modelled

Whole components marked not_modelled in `PROJECT.json` have no state machine worth
checking: types, parsing, files, wording, the terminal interface. Within the
modelled ones:

* **Executor and leases.** Stores without transactional transitions append audit
  events after the checkpoint (`workflow/runtime.go:1115`); the production
  configuration refuses them. Clocks of different hosts agree; SQLite compares
  times with julianday, to about a millisecond, and orders ready executions by the
  text of a time. One failed renewal, or a shutdown, cancels the execution, as
  documented. Templates and metrics are left out.
* **Approvals.** `Decide` does not look at ExpiresAt: a due approval that was not
  swept can be granted, and the model does so. `PurgeExpired` may delete a decided
  approval that a waiting execution still needs. Distinct approvers are an option of
  the policy, off by default (`policy/approval_authorization.go:33`): the proofs
  cover both, the run has it on.
* **Outbox.** SQLite appends events with INSERT OR IGNORE, so an id used by another
  tenant drops an event; event ids are taken as unique. It compares `lease_until`
  and `next_attempt_at` as RFC 3339 texts with trailing zeros trimmed
  (`storage/sqlite/outbox_lease.go:40`, `:82`), whose order may be wrong within one
  second; ticks are whole and longer than that, so claims that are early by a
  fraction of a second do not show. `Enqueue` of an event that does not survive its
  JSON encoding conflicts with itself (`storage/sqlite/store.go:1496`); here the same
  event reads back equal.
* **Release.** One tenant: workflow_versions has no tenant in its key, and a
  publication retires by workflow id alone (`storage/sqlite/store.go`). The audit
  event appended after a stored change may fail (`automation/lifecycle.go:111`).
  Dependencies, ids and timeouts of the validation are abstracted. Nothing is purged:
  `PurgeExpired` deletes completed demonstrations, feedback, reviews and reports
  (`storage/sqlite/retention.go:48-136`; reports by the time they were started, while
  the publisher orders them by completion). `PublishedOnEvidence`,
  `TasksReachPublished` and `LearningKept`, and the theorems about them, hold as long
  as no purge deletes a record that a version or a route still rests on; which rows a
  purge takes is in TenantRecords.
* **Contracts and evaluation.** Number formats and deep equality are equality of
  model values; averages and budgets other than those of the gates, and
  `flattenMap` on empty objects, are left out.
* **Observation.** A rule with a star on a scalar or a list redacts nothing, which
  the tree of nodes does not show. Payloads are decoded JSON: `rejectReplayValue`
  looks into `map[string]interface{}` and `[]interface{}` only
  (`observation/browseradapter/adapter.go:326`), so a replay key inside another Go
  map or slice passed by an application would not be found.
* **Sessions.** Two Session objects on one id are not excluded by the code
  (`session.go:28`) and not modelled; the same holds for the metadata cache
  (`session.go:493`). `UpdateTask` of the protecting store may lose a concurrent
  update (`sessions/protected.go:330`): payloads are owners here, so it does not
  show.
* **Cron.** The wall clock never steps back: the loop computes the next minute from
  it (`tools/cron.go:287`) and would fire again in a minute that is repeated.
* **Tools, MCP, providers.** The HTTP transport of MCP, list, poll and logs of processes, the parser of cron expressions, and the
  translation of provider requests.

## 6. Plan

Done: the durable core and its proofs; the session, turn, gate and provider stack;
the session stores with their refinement; release life cycle, evaluation,
contracts, observation, storage, tenants; processes, cron, MCP, broker. What is
left, in order of importance:

1. an abstract at-most-once-per-decision execution that WorkflowExecutor refines;
   proofs for PermissionBroker;
2. two Session objects on one id, and subagents that share a store with their
   parent;
3. several tenants in ReleaseLifecycle, with the key of workflow_versions as it is;
4. the HTTP transport of MCP with its reconnection.
