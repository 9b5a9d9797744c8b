--------------------------- MODULE WorkflowExecutor ---------------------------
(***************************************************************************)
(* One workflow execution driven by concurrent operations of the executor: *)
(* Execute, ResumeStored, the coordinator's RunOnce, Cancel and Recover    *)
(* (ReconcileRecovery is an Acquire, an external query and that Recover),  *)
(* over a leased ExecutionStore and an ApprovalStore that is not atomic    *)
(* with it.                                                                *)
(*                                                                         *)
(* A process runs one operation at a time.  pc names the store call or the *)
(* external call it makes next, ex is the in-memory Execution it mutates   *)
(* before a call and keeps mutated when the call fails.  One action is the *)
(* local code up to and including one call that others can observe.        *)
(***************************************************************************)
EXTENDS LeaseRules, ExecutionCheckpoint, FiniteSets

CONSTANTS
    Procs,        \* operation contexts
    Deployments,  \* what the processes run, and where: see Deployment
    MaxClock, MaxFence, MaxApprovals   \* bounds of the counters

SideEffects == {"none", "idempotent", "non_idempotent", "unknown"}

(* when: the outcome of the condition; policy: the Decision; attempts:     *)
(* Retry.MaxAttempts; valid: the outcome of a validation step.             *)
Step == [kind : {"tool", "validation", "approval"}, effect : SideEffects,
         policy : {"allow", "deny", "approval"}, attempts : 1 .. 3,
         when : BOOLEAN, valid : BOOLEAN]

Operations == {"execute", "resume_stored", "run_once", "cancel", "recover"}

(* One published Version under one configuration of its executors; budget  *)
(* bounds what the environment may do.                                     *)
Deployment ==
    [worker   : [Procs -> Workers \cup {NoWorker}],  \* ExecutorOptions.WorkerID
     entries  : SUBSET Operations,   \* the operations its hosts perform
     workflow : Seq(Step),
     deadline : Nat,                 \* DeadlineAt, 0 without ExecutionTimeout
     ttl      : Nat,                 \* ExecutorOptions.ApprovalTTL, or 0
     budget   : [crashes : Nat, faults : Nat, decisions : Nat, shutdowns : Nat]]

ASSUME DeploymentsAssumption ==
    /\ Deployments \subseteq Deployment
    /\ \A d \in Deployments : d.workflow # <<>>
ASSUME BoundsAssumption == {MaxClock, MaxFence, MaxApprovals} \subseteq Nat

VARIABLES
    deployment, \* chosen once
    now,        \* the clock
    row,        \* the stored Execution; revision 0 before Create
    lease,      \* its lease
    fence,      \* the last fencing token granted
    approvals,  \* the ApprovalStore: a sequence indexed by approval id
    pc,         \* the next call of each process
    ex,         \* the in-memory Execution of each process
    claim,      \* the ExecutionClaim in its context, or NoLease
    live,       \* FALSE once its context is canceled
    try,        \* the attempt counter of runToolStep
    budget,     \* remaining crashes, storage faults, decisions, shutdowns
    calls,      \* history: tool calls started, per step
    notRun,     \* history: confirmed_not_executed decisions, per step
    confirmed   \* history: steps closed by confirmed_completed

world == <<deployment, now>>
store == <<row, lease, fence>>
locals == <<pc, ex, claim, live, try>>
history == <<calls, notRun, confirmed>>
vars == <<world, store, approvals, locals, budget, history>>

Workflow == deployment.workflow
Entries == deployment.entries
WorkerOf == deployment.worker
Deadline == deployment.deadline

N == Len(Workflow)
Steps == 1 .. N
NoApproval == 0

NoExecution ==
    [rev |-> 0, status |-> "running", next |-> 1, pending |-> NoApproval,
     approved |-> {},
     steps |-> [i \in Steps |-> [status |-> "pending", attempts |-> 0]]]

StepOf(doc) == Workflow[doc.next]
RunOf(doc) == doc.steps[doc.next]

WithStep(doc, status) == [doc EXCEPT !.steps[doc.next].status = status]

SideEffecting(step) == step.effect # "none"

\* deadlineElapsed.
DeadlineElapsed == Deadline # 0 /\ now >= Deadline

-------------------------------------------------------------------------------
(* Calls to the execution store *)

(* Update / UpdateWithEvents accept doc from process p. *)
Accepts(p, doc) ==
    /\ UpdatePermitted(claim[p], lease, now)
    /\ ValidUpdate(row, doc)
    /\ ValidCheckpoint(doc, NoApproval)

(* checkpoint and checkpointWithEvents: attempt to store doc, go to onOk   *)
(* or to onErr.  A detached save uses context.WithoutCancel.  A refused or *)
(* failed save leaves the mutated document in memory.                      *)
Save(p, doc, detached, onOk, onErr) ==
    \/ /\ detached \/ live[p]
       /\ Accepts(p, doc)
       /\ row' = [doc EXCEPT !.rev = @ + 1]
       /\ ex' = [ex EXCEPT ![p] = row']
       /\ pc' = [pc EXCEPT ![p] = onOk]
       /\ UNCHANGED budget
    \/ /\ ~((detached \/ live[p]) /\ Accepts(p, doc))
       /\ ex' = [ex EXCEPT ![p] = doc]
       /\ pc' = [pc EXCEPT ![p] = onErr]
       /\ UNCHANGED <<row, budget>>
    \/ /\ budget.faults > 0
       /\ budget' = [budget EXCEPT !.faults = @ - 1]
       /\ ex' = [ex EXCEPT ![p] = doc]
       /\ pc' = [pc EXCEPT ![p] = onErr]
       /\ UNCHANGED row

(* A step that saves and touches nothing else. *)
Saves(p, doc, detached, onOk, onErr) ==
    /\ Save(p, doc, detached, onOk, onErr)
    /\ UNCHANGED <<world, lease, fence, approvals, claim, live, try, history>>

(* A local step: no store is called. *)
Goto(p, next) ==
    /\ pc' = [pc EXCEPT ![p] = next]
    /\ UNCHANGED <<world, store, approvals, ex, claim, live, try, budget, history>>

-------------------------------------------------------------------------------
(* A deployment without Execute starts from an execution whose Execute was *)
(* cut off after createWithEvents.                                         *)
Init ==
    /\ deployment \in Deployments
    /\ now = 0
    /\ row = [NoExecution EXCEPT !.rev = IF "execute" \in Entries THEN 0 ELSE 1]
    /\ lease = NoLease
    /\ fence = 0
    /\ approvals = <<>>
    /\ pc = [p \in Procs |-> "idle"]
    /\ ex = [p \in Procs |-> NoExecution]
    /\ claim = [p \in Procs |-> NoLease]
    /\ live = [p \in Procs |-> TRUE]
    /\ try = [p \in Procs |-> 0]
    /\ budget = deployment.budget
    /\ calls = [i \in Steps |-> 0]
    /\ notRun = [i \in Steps |-> 0]
    /\ confirmed = {}

(* Entry points.  A label acquire_x remembers what follows                 *)
(* acquireExecution.                                                       *)

(* Execute: createWithEvents stores revision one, then the new execution   *)
(* is acquired like any other.                                             *)
Execute(p) ==
    /\ "execute" \in Entries
    /\ pc[p] = "idle" /\ row.rev = 0
    /\ row' = [NoExecution EXCEPT !.rev = 1]
    /\ ex' = [ex EXCEPT ![p] = row']
    /\ pc' = [pc EXCEPT ![p] = "acquire_run"]
    /\ UNCHANGED <<world, lease, fence, approvals, claim, live, try, budget,
                   history>>

(* ResumeStored called by the host: the status read by Get decides what    *)
(* is done once the execution has been acquired.                           *)
ResumeStored(p) ==
    /\ "resume_stored" \in Entries
    /\ pc[p] = "idle" /\ row.rev > 0 /\ fence < MaxFence
    /\ row.status \in {"awaiting_approval", "running"}
    /\ ex' = [ex EXCEPT ![p] = row]
    /\ pc' = [pc EXCEPT ![p] = IF row.status = "running"
                               THEN "acquire_interrupted" ELSE "acquire_resume"]
    /\ UNCHANGED <<world, store, approvals, claim, live, try, budget, history>>

(* Cancel and Recover get a checkpoint the caller read earlier. *)
CancelCall(p) ==
    /\ "cancel" \in Entries
    /\ pc[p] = "idle" /\ row.rev > 0 /\ fence < MaxFence
    /\ row.status \notin TerminalStatus
    /\ ex' = [ex EXCEPT ![p] = row]
    /\ pc' = [pc EXCEPT ![p] = "acquire_cancel"]
    /\ UNCHANGED <<world, store, approvals, claim, live, try, budget, history>>

RecoverCall(p) ==
    /\ "recover" \in Entries
    /\ pc[p] = "idle" /\ row.rev > 0 /\ fence < MaxFence
    /\ budget.decisions > 0
    /\ row.status \in {"running", "recovery_required"}
    /\ ex' = [ex EXCEPT ![p] = row]
    /\ pc' = [pc EXCEPT ![p] = "acquire_recover"]
    /\ budget' = [budget EXCEPT !.decisions = @ - 1]
    /\ UNCHANGED <<world, store, approvals, claim, live, try, history>>

(* What each entry point does once it has acquired the execution. *)
AcquireTargets ==
    [acquire_run |-> "run", acquire_interrupted |-> "interrupted",
     acquire_resume |-> "resume", acquire_cancel |-> "cancel",
     acquire_recover |-> "recover_op"]

(* acquireExecution without a WorkerID keeps the caller's checkpoint; with *)
(* one it claims, and from then on works from the snapshot in the claim.   *)
Acquire(p) ==
    /\ pc[p] \in DOMAIN AcquireTargets
    /\ IF WorkerOf[p] = NoWorker
       THEN Goto(p, AcquireTargets[pc[p]])
       ELSE IF row.status \notin TerminalStatus
               /\ Claimable(lease, WorkerOf[p], now)
       THEN LET granted == Grant(lease, WorkerOf[p], now, fence) IN
              /\ lease' = granted
              /\ fence' = IF granted.token > fence THEN granted.token ELSE fence
              /\ claim' = [claim EXCEPT ![p] = granted]
              /\ ex' = [ex EXCEPT ![p] = row]
              /\ pc' = [pc EXCEPT ![p] = AcquireTargets[pc[p]]]
              /\ UNCHANGED <<world, row, approvals, live, try, budget, history>>
       ELSE Goto(p, "release")

(* RunOnce: ClaimReadyExecutions takes the row if it is ready and no lease *)
(* is live, a lease of the same worker included.                           *)
RunOnce(p) ==
    /\ "run_once" \in Entries
    /\ pc[p] = "idle" /\ row.rev > 0 /\ fence < MaxFence
    /\ WorkerOf[p] # NoWorker
    /\ row.status \in {"running", "awaiting_approval"}
    /\ ~Live(lease, now)
    /\ lease' = [owner |-> WorkerOf[p], token |-> fence + 1,
                 until |-> now + LeaseDuration]
    /\ fence' = fence + 1
    /\ claim' = [claim EXCEPT ![p] = lease']
    /\ ex' = [ex EXCEPT ![p] = row]
    /\ pc' = [pc EXCEPT ![p] = "claimed"]
    /\ UNCHANGED <<world, row, approvals, live, try, budget, history>>

(* ResumeStored below RunOnce: Get reads the row again, but the context    *)
(* already carries a claim, so the snapshot taken with the claim is what   *)
(* is resumed.  A row that needs recovery is returned without a release.   *)
ResumeClaimed(p) ==
    /\ pc[p] = "claimed"
    /\ CASE row.status = "running" -> Goto(p, "interrupted")
         [] row.status = "awaiting_approval" -> Goto(p, "resume")
         [] row.status = "recovery_required" ->
              /\ pc' = [pc EXCEPT ![p] = "idle"]
              /\ claim' = [claim EXCEPT ![p] = NoLease]
              /\ live' = [live EXCEPT ![p] = TRUE]
              /\ UNCHANGED <<world, store, approvals, ex, try, budget, history>>
         [] OTHER -> Goto(p, "release")

(* RunOnce cannot resolve the version, or a resume fails its tool-catalog  *)
(* or reference preflight: the claim is given back without a checkpoint.   *)
PreflightFault(p) ==
    /\ pc[p] \in {"claimed", "interrupted", "resume"} /\ budget.faults > 0
    /\ budget' = [budget EXCEPT !.faults = @ - 1]
    /\ pc' = [pc EXCEPT ![p] = "release"]
    /\ UNCHANGED <<world, store, approvals, ex, claim, live, try, history>>

-------------------------------------------------------------------------------
(* Resuming *)

\* Mutant: no interrupted call is ever treated as uncertain.
InterruptedInFlightNever(doc) == FALSE

(* The checkpoint says a side-effecting tool call may be in flight. *)
InterruptedInFlight(doc) ==
    /\ doc.next <= N
    /\ StepOf(doc).kind = "tool" /\ RunOf(doc).status = "running"
    /\ SideEffecting(StepOf(doc))

RecoveryRequired(doc) ==
    [WithStep(doc, "recovery_required") EXCEPT !.status = "recovery_required"]

(* resumeInterrupted: its own look at the checkpoint is at the step only,  *)
(* the status of the execution is not tested again after the claim.        *)
ResumeInterrupted(p) ==
    /\ pc[p] = "interrupted"
    /\ IF InterruptedInFlight(ex[p])
       THEN Saves(p, RecoveryRequired(ex[p]), TRUE, "release", "release")
       ELSE Goto(p, "run")

Due(approval) == approval.expires # 0 /\ now >= approval.expires

Granted(doc) ==
    [doc EXCEPT !.approved = @ \cup {doc.next}, !.pending = NoApproval,
                !.status = "running"]

(* Resume after Approvals.Get: the outcome of a decided approval is saved, *)
(* a pending one is left alone until it is due.                            *)
Resume(p) ==
    /\ pc[p] = "resume"
    /\ IF ex[p].status # "awaiting_approval" THEN Goto(p, "release")
       ELSE IF DeadlineElapsed THEN Goto(p, "expire")
       ELSE LET approval == approvals[ex[p].pending] IN
            \/ /\ approval.status = "pending"
               /\ Goto(p, IF Due(approval) THEN "expire_pending" ELSE "release")
            \/ /\ approval.status = "granted"
               /\ Saves(p, Granted(ex[p]), FALSE, "run", "release")
            \/ /\ approval.status \in {"rejected", "expired", "canceled"}
               /\ Goto(p, "reject")

(* transitionLocked / transition of the approval store: only a pending     *)
(* approval changes, and only a due one expires.                           *)
Decidable(id, status) ==
    /\ approvals[id].status = "pending"
    /\ status = "expired" => Due(approvals[id])

SetApproval(id, status) == approvals' = [approvals EXCEPT ![id].status = status]

(* Resume's own Expire of a due approval: the lifecycle store may find it  *)
(* decided in the meantime, and may or may not look at a canceled context. *)
ExpirePending(p) ==
    /\ pc[p] = "expire_pending"
    /\ \/ /\ Decidable(ex[p].pending, "expired")
          /\ SetApproval(ex[p].pending, "expired")
          /\ pc' = [pc EXCEPT ![p] = "reject"]
          /\ UNCHANGED <<world, store, ex, claim, live, try, budget, history>>
       \/ /\ live[p] => ~Decidable(ex[p].pending, "expired")
          /\ Goto(p, "release")

Failed(doc) ==
    [WithStep(doc, "failed") EXCEPT !.status = "failed"]

(* The step of a rejected, expired or canceled approval fails the          *)
(* execution.                                                              *)
Reject(p) ==
    /\ pc[p] = "reject"
    /\ Saves(p, [Failed(ex[p]) EXCEPT !.pending = NoApproval], FALSE,
             "release", "release")

-------------------------------------------------------------------------------
(* Cancellation and deadlines *)

Canceled(doc) ==
    [doc EXCEPT !.status = "canceled",
       !.steps = [i \in Steps |->
          IF i = doc.next
             /\ doc.steps[i].status \in {"pending", "running",
                                         "awaiting_approval",
                                         "recovery_required"}
          THEN [doc.steps[i] EXCEPT !.status = "canceled"] ELSE doc.steps[i]]]

(* Cancel and expireExecution close a pending approval before the          *)
(* execution, in two stores; when the approval is no longer pending they   *)
(* give up.                                                                *)
CloseApproval(p, status, detached, next) ==
    \/ ex[p].pending = NoApproval /\ Goto(p, next)
    \/ /\ ex[p].pending # NoApproval /\ Decidable(ex[p].pending, status)
       /\ SetApproval(ex[p].pending, status)
       /\ ex' = [ex EXCEPT ![p].pending = NoApproval]
       /\ pc' = [pc EXCEPT ![p] = next]
       /\ UNCHANGED <<world, store, claim, live, try, budget, history>>
    \/ /\ ex[p].pending # NoApproval
       /\ detached \/ live[p] => ~Decidable(ex[p].pending, status)
       /\ Goto(p, "release")

Cancel(p) ==
    /\ pc[p] = "cancel"
    /\ CloseApproval(p, "canceled", FALSE, "cancel_save")

(* expireExecution below Resume, and below run where the context is        *)
(* detached.                                                               *)
ExpireExecution(p) ==
    \/ pc[p] = "expire" /\ CloseApproval(p, "expired", FALSE, "cancel_save")
    \/ pc[p] = "run_expire"
       /\ CloseApproval(p, "expired", TRUE, "run_cancel_save")

CancelCheckpoint(p) ==
    /\ pc[p] \in {"cancel_save", "run_cancel_save"}
    /\ Saves(p, Canceled(ex[p]), pc[p] = "run_cancel_save",
             "release", "release")

-------------------------------------------------------------------------------
(* The run loop *)

AtLoopTop(p) == pc[p] = "run" /\ ex[p].next <= N

RunExpired(p) == AtLoopTop(p) /\ DeadlineElapsed /\ Goto(p, "run_expire")

RunAborted(p) ==
    AtLoopTop(p) /\ ~DeadlineElapsed /\ ~live[p] /\ Goto(p, "run_cancel_save")

Continues(p) == AtLoopTop(p) /\ ~DeadlineElapsed /\ live[p]

Passed(doc, status) == [WithStep(doc, status) EXCEPT !.next = @ + 1]

RunSkip(p) ==
    /\ Continues(p) /\ ~StepOf(ex[p]).when
    /\ Saves(p, Passed(ex[p], "skipped"), FALSE, "run", "release")

RunStart(p) ==
    /\ Continues(p) /\ StepOf(ex[p]).when
    /\ Saves(p, WithStep(ex[p], "running"), FALSE, "step", "release")

RunFinish(p) ==
    /\ pc[p] = "run" /\ ex[p].next > N
    /\ Saves(p, [ex[p] EXCEPT !.status = "completed"], FALSE,
             "release", "release")

-------------------------------------------------------------------------------
(* Steps *)

NeedsApproval(step) ==
    step.kind = "approval" \/ (step.kind = "tool" /\ step.policy = "approval")

\* Mutant: an approval that was merely requested counts as one.
ApprovedOnRequest(doc) == \E id \in DOMAIN approvals : approvals[id].step = doc.next

(* requireApproval is satisfied by an approval recorded in the checkpoint. *)
Approved(doc) == doc.next \in doc.approved

AwaitsApproval(doc) == NeedsApproval(StepOf(doc)) /\ ~Approved(doc)

RetryForbidden(step) ==
    step.attempts > 1 /\ step.effect \notin {"none", "idempotent"}

(* What runToolStep and runValidationStep refuse before anything is asked  *)
(* of the outside: a policy denial, a false validation and, once an        *)
(* approval that is needed has been given, automatic retry of an unsafe    *)
(* tool.                                                                   *)
Refused(doc) ==
    LET step == StepOf(doc) IN
    \/ step.kind = "tool" /\ step.policy = "deny"
    \/ step.kind = "tool" /\ RetryForbidden(step) /\ ~AwaitsApproval(doc)
    \/ step.kind = "validation" /\ ~step.valid

Refuse(p) ==
    /\ pc[p] = "step" /\ Refused(ex[p])
    /\ Goto(p, "fail")

(* An unresolvable condition, tool, argument or idempotency key, a failing *)
(* policy engine or approval store.                                        *)
PreCallFault(p) ==
    /\ \/ Continues(p)
       \/ pc[p] = "step" /\ StepOf(ex[p]).kind = "tool"
       \/ pc[p] = "request"
    /\ budget.faults > 0
    /\ budget' = [budget EXCEPT !.faults = @ - 1]
    /\ pc' = [pc EXCEPT ![p] = "fail"]
    /\ UNCHANGED <<world, store, approvals, ex, claim, live, try, history>>

(* Once refusals are out of the way: an unapproved step asks for approval, *)
(* a tool is attempted, anything else is complete.                         *)
Proceed(p) ==
    /\ pc[p] = "step" /\ ~Refused(ex[p])
    /\ LET next == IF AwaitsApproval(ex[p]) THEN "request"
                   ELSE IF StepOf(ex[p]).kind = "tool" THEN "attempt"
                   ELSE "complete"
       IN  /\ pc' = [pc EXCEPT ![p] = next]
           /\ try' = [try EXCEPT ![p] = IF next = "attempt" THEN 1 ELSE @]
           /\ UNCHANGED <<world, store, approvals, ex, claim, live, budget, history>>

(* The approval expires with its TTL or the execution deadline, whichever  *)
(* comes first.                                                            *)
ExpiresAt ==
    LET due == now + deployment.ttl IN
    IF deployment.ttl # 0 /\ (Deadline = 0 \/ due < Deadline) THEN due
    ELSE Deadline

(* requireApproval: Approvals.Request commits on its own, unless the       *)
(* context is canceled or the approval would be due at once; the           *)
(* checkpoint that refers to the new approval is a later call.             *)
RequestApproval(p) ==
    /\ pc[p] = "request"
    /\ Len(approvals) < MaxApprovals
    /\ IF ~live[p] \/ (ExpiresAt # 0 /\ ExpiresAt <= now) THEN Goto(p, "fail")
       ELSE /\ approvals' = Append(approvals,
                 [status |-> "pending", step |-> ex[p].next,
                  expires |-> ExpiresAt])
            /\ ex' = [ex EXCEPT ![p] =
                 [WithStep(@, "awaiting_approval") EXCEPT
                    !.pending = Len(approvals) + 1,
                    !.status = "awaiting_approval"]]
            /\ pc' = [pc EXCEPT ![p] = "await"]
            /\ UNCHANGED <<world, store, claim, live, try, budget, history>>

(* The checkpoint of requireApproval; run saves the same document once     *)
(* more when the step did not complete.                                    *)
AwaitApproval(p) ==
    /\ pc[p] = "await"
    /\ Saves(p, ex[p], FALSE, "save_incomplete", "fail")

SaveIncomplete(p) ==
    /\ pc[p] = "save_incomplete"
    /\ Saves(p, ex[p], FALSE, "release", "release")

(* The attempt number is saved twice: on its own and with ToolCalled. *)
Attempt(p) ==
    /\ pc[p] = "attempt"
    /\ Saves(p, [ex[p] EXCEPT !.steps[ex[p].next].attempts = try[p]], FALSE,
             "called", "fail")

(* tools.Execute starts when the ToolCalled transition is stored. *)
CallTool(p) ==
    /\ pc[p] = "called"
    /\ Save(p, ex[p], FALSE, "tool", "fail")
    /\ calls' = IF pc'[p] = "tool"
                THEN [calls EXCEPT ![ex[p].next] = @ + 1] ELSE calls
    /\ UNCHANGED <<world, lease, fence, approvals, claim, live, try, notRun,
                   confirmed>>

\* Mutant: a failed call of an unknown tool counts as not executed.
UncertainAfterFailureNarrow(step) == step.effect = "non_idempotent"
UncertainAfterFailure(step) == step.effect \in {"non_idempotent", "unknown"}

ToolSucceeds(p) == pc[p] = "tool" /\ Goto(p, "record")

(* Oversized output, output that fails the schema, a checkpoint that would *)
(* exceed its limit: the call happened.                                    *)
ToolOutputRejected(p) ==
    /\ pc[p] = "tool"
    /\ Goto(p, IF SideEffecting(StepOf(ex[p])) THEN "recovery" ELSE "fail")

ToolFails(p) ==
    /\ pc[p] = "tool"
    /\ Goto(p, IF UncertainAfterFailure(StepOf(ex[p])) THEN "recovery"
               ELSE "fail")

MayRetry(p) == try[p] < StepOf(ex[p]).attempts

(* A retryable failure; waitContext gives up when the context is canceled. *)
ToolRetries(p) ==
    /\ pc[p] = "tool" /\ MayRetry(p)
    /\ IF live[p]
       THEN /\ pc' = [pc EXCEPT ![p] = "attempt"]
            /\ try' = [try EXCEPT ![p] = @ + 1]
            /\ UNCHANGED <<world, store, approvals, ex, claim, live, budget,
                           history>>
       ELSE Goto(p, "fail")

(* The ToolCompleted transition, saved while the step is still running. *)
RecordResult(p) ==
    /\ pc[p] = "record"
    /\ Saves(p, ex[p], TRUE, "complete",
             IF SideEffecting(StepOf(ex[p])) THEN "recovery" ELSE "fail")

RequireRecovery(p) ==
    /\ pc[p] = "recovery"
    /\ Saves(p, RecoveryRequired(ex[p]), TRUE, "save_incomplete", "fail")

CompleteStep(p) ==
    /\ pc[p] = "complete"
    /\ Saves(p, Passed(ex[p], "completed"), FALSE, "run", "release")

Fail(p) ==
    /\ pc[p] = "fail"
    /\ Saves(p, Failed(ex[p]), TRUE, "release", "release")

-------------------------------------------------------------------------------
(* Recovery: Recover once the execution is acquired.  ReconcileRecovery    *)
(* makes the same decisions on the answer of a ToolReconciler.             *)

Recoverable(doc) ==
    /\ doc.status \in {"running", "recovery_required"}
    /\ doc.next <= N
    /\ StepOf(doc).kind = "tool"
    /\ RunOf(doc).status \in {"running", "recovery_required"}

\* Also the reconciler's "unknown" and every rejected request.
RecoverRefused(p) == pc[p] = "recover_op" /\ Goto(p, "release")

RecoverCompleted(p) ==
    /\ pc[p] = "recover_op" /\ Recoverable(ex[p])
    /\ Save(p, [Passed(ex[p], "completed") EXCEPT !.status = "running"], FALSE,
            "run", "release")
    /\ confirmed' = IF pc'[p] = "run" THEN confirmed \cup {ex[p].next}
                    ELSE confirmed
    /\ UNCHANGED <<world, lease, fence, approvals, claim, live, try, calls, notRun>>

RecoverNotRun(p) ==
    /\ pc[p] = "recover_op" /\ Recoverable(ex[p])
    /\ Save(p, [WithStep(ex[p], "running") EXCEPT !.status = "running"], FALSE,
            "run", "release")
    /\ notRun' = IF pc'[p] = "run"
                 THEN [notRun EXCEPT ![ex[p].next] = @ + 1] ELSE notRun
    /\ UNCHANGED <<world, lease, fence, approvals, claim, live, try, calls,
                   confirmed>>

\* compensated and canceled.
RecoverClosed(p) ==
    /\ pc[p] = "recover_op" /\ Recoverable(ex[p])
    /\ \E status \in {"failed", "canceled"} :
         Saves(p, [WithStep(ex[p], "failed") EXCEPT !.status = status], FALSE,
               "release", "release")

-------------------------------------------------------------------------------
(* Leases and the environment *)

(* The deferred release, and the end of the operation. *)
Release(p) ==
    /\ pc[p] = "release"
    /\ lease' = IF Held(claim[p]) /\ StillGranted(claim[p], lease, now)
                THEN Freed(lease) ELSE lease
    /\ pc' = [pc EXCEPT ![p] = "idle"]
    /\ ex' = [ex EXCEPT ![p] = NoExecution]
    /\ claim' = [claim EXCEPT ![p] = NoLease]
    /\ live' = [live EXCEPT ![p] = TRUE]
    /\ try' = [try EXCEPT ![p] = 0]
    /\ UNCHANGED <<world, row, fence, approvals, budget, history>>

(* The renewal goroutine works from acquireExecution to release. *)
Maintained(p) ==
    /\ Held(claim[p])
    /\ pc[p] \notin {"idle", "claimed", "release"}

Renew(p) ==
    /\ Maintained(p) /\ live[p]
    /\ StillGranted(claim[p], lease, now)
    /\ lease.until # now + LeaseDuration
    /\ lease' = Renewed(lease, now)
    /\ UNCHANGED <<world, row, fence, approvals, locals, budget, history>>

(* A renewal that finds the lease lost cancels the context. *)
LeaseLost(p) ==
    /\ Maintained(p) /\ live[p]
    /\ ~StillGranted(claim[p], lease, now)
    /\ live' = [live EXCEPT ![p] = FALSE]
    /\ UNCHANGED <<world, store, approvals, pc, ex, claim, try, budget, history>>

(* The host cancels the operation's context, or one renewal call fails. *)
Shutdown(p) ==
    /\ budget.shutdowns > 0 /\ live[p] /\ pc[p] # "idle"
    /\ budget' = [budget EXCEPT !.shutdowns = @ - 1]
    /\ live' = [live EXCEPT ![p] = FALSE]
    /\ UNCHANGED <<world, store, approvals, pc, ex, claim, try, history>>

(* The process dies: memory is lost, the row and its lease stay. *)
Crash(p) ==
    /\ budget.crashes > 0 /\ pc[p] # "idle"
    /\ now + LeaseDuration <= MaxClock
    /\ budget' = [budget EXCEPT !.crashes = @ - 1]
    /\ pc' = [pc EXCEPT ![p] = "idle"]
    /\ ex' = [ex EXCEPT ![p] = NoExecution]
    /\ claim' = [claim EXCEPT ![p] = NoLease]
    /\ live' = [live EXCEPT ![p] = TRUE]
    /\ try' = [try EXCEPT ![p] = 0]
    /\ UNCHANGED <<world, store, approvals, history>>

(* ApprovalStore.Decide and ApprovalLifecycleStore.Cancel, by an approver. *)
Decide(id) ==
    \E status \in {"granted", "rejected", "canceled"} :
        /\ Decidable(id, status)
        /\ SetApproval(id, status)
        /\ UNCHANGED <<world, store, locals, budget, history>>

Tick ==
    /\ now < MaxClock
    /\ now' = now + 1
    /\ UNCHANGED <<deployment, store, approvals, locals, budget, history>>

Enter(p) ==
    \/ Execute(p) \/ ResumeStored(p) \/ RunOnce(p)
    \/ CancelCall(p) \/ RecoverCall(p)

\* The code of an operation after its entry.
Continue(p) ==
    \/ Acquire(p) \/ ResumeClaimed(p) \/ PreflightFault(p)
    \/ ResumeInterrupted(p) \/ Resume(p)
    \/ ExpirePending(p) \/ Reject(p)
    \/ Cancel(p) \/ ExpireExecution(p) \/ CancelCheckpoint(p)
    \/ RunExpired(p) \/ RunAborted(p) \/ RunSkip(p) \/ RunStart(p)
    \/ RunFinish(p)
    \/ Refuse(p) \/ PreCallFault(p) \/ Proceed(p) \/ RequestApproval(p)
    \/ AwaitApproval(p) \/ SaveIncomplete(p)
    \/ Attempt(p) \/ CallTool(p)
    \/ ToolSucceeds(p) \/ ToolOutputRejected(p) \/ ToolFails(p)
    \/ ToolRetries(p)
    \/ RecordResult(p) \/ RequireRecovery(p) \/ CompleteStep(p) \/ Fail(p)
    \/ RecoverRefused(p) \/ RecoverCompleted(p) \/ RecoverNotRun(p)
    \/ RecoverClosed(p)
    \/ Release(p)

Environment(p) == Renew(p) \/ LeaseLost(p) \/ Shutdown(p) \/ Crash(p)

Next ==
    \/ Tick
    \/ \E id \in DOMAIN approvals : Decide(id)
    \/ \E p \in Procs : Enter(p) \/ Continue(p) \/ Environment(p)

Spec == Init /\ [][Next]_vars

-------------------------------------------------------------------------------
(* Properties *)

Labels == DOMAIN AcquireTargets \cup
    {"idle", "claimed", "interrupted", "resume", "expire_pending", "reject",
     "cancel", "cancel_save", "expire", "run_expire", "run_cancel_save", "run",
     "step", "request", "await", "save_incomplete", "attempt", "called", "tool",
     "record", "recovery", "complete", "fail", "recover_op", "release"}

Document ==
    [rev : Nat, status : ExecutionStatus, next : 1 .. N + 1,
     pending : Nat, approved : SUBSET Steps,
     steps : [Steps -> [status : StepStatus, attempts : Nat]]]

(* The shape of the stored and the in-memory documents, leases and labels; *)
(* what is stored always passes ValidateCheckpoint.                        *)
TypeOK ==
    /\ row \in Document /\ ValidCheckpoint(row, NoApproval)
    /\ lease \in Lease /\ fence \in Nat
    /\ pc \in [Procs -> Labels]
    /\ ex \in [Procs -> Document]
    /\ claim \in [Procs -> Lease]
    /\ live \in [Procs -> BOOLEAN]
    /\ try \in [Procs -> Nat]

(* A side-effecting tool is never called again on the runtime's own        *)
(* initiative: beyond the attempts one run may make, every further call is *)
(* paid for by an explicit confirmed_not_executed decision, whatever       *)
(* crashes, lease losses and takeovers happened in between.                *)
NoReplayWithoutDecision ==
    \A i \in Steps :
        SideEffecting(Workflow[i]) =>
            calls[i] <= Workflow[i].attempts * (1 + notRun[i])

(* An external call is made only when every earlier step is durably        *)
(* finished, and a tool step is durably completed only if it was called or *)
(* someone confirmed that it had been.                                     *)
EffectsFollowStepOrder ==
    \A i \in Steps :
        /\ calls[i] > 0 =>
             \A j \in 1 .. i - 1 :
                 row.steps[j].status \in {"completed", "skipped"}
        /\ row.steps[i].status = "completed" /\ Workflow[i].kind = "tool" =>
             calls[i] > 0 \/ i \in confirmed

(* No step that needs approval is called or completed before an approver   *)
(* granted an approval of that very step, unless someone confirmed that it *)
(* was completed, and the approvals a checkpoint refers to are those of    *)
(* its steps: with two stores, crashes in between and repeated requests, a *)
(* decision is never credited to another step.                             *)
ApprovedBeforeCall ==
    LET GrantedFor(i) == \E id \in DOMAIN approvals :
            approvals[id].step = i /\ approvals[id].status = "granted"
        Done(i) == row.steps[i].status = "completed" /\ i \notin confirmed
    IN  /\ \A i \in Steps :
             ((calls[i] > 0 \/ Done(i)) /\ NeedsApproval(Workflow[i]))
             \/ i \in row.approved
                => GrantedFor(i)
        /\ row.pending # NoApproval => approvals[row.pending].step = row.next

(* Both: effects come in the order of the steps and of their approvals.    *)
EffectsInOrder == EffectsFollowStepOrder /\ ApprovedBeforeCall

(* Two processes are never inside a side-effecting call of the same step,  *)
(* unless someone declared the first call not executed.                    *)
SingleFlight ==
    \A p, q \in Procs :
        /\ pc[p] = "tool" /\ pc[q] = "tool"
        /\ ex[p].next = ex[q].next
        /\ SideEffecting(StepOf(ex[p]))
        /\ notRun[ex[p].next] = 0
        => p = q

(* Together with the types: one call at a time, over documents in shape.   *)
ExecutorSound == TypeOK /\ SingleFlight

(* A call whose outcome cannot be known is never filed as an ordinary      *)
(* failure or cancellation: without a cancel or a recovery decision, a     *)
(* non-idempotent step that was called stays running, completed or in      *)
(* recovery ("The runtime never guesses whether a real-world operation     *)
(* occurred").                                                             *)
UncertainCallNotHidden ==
    Entries \cap {"cancel", "recover"} = {} =>
        \A i \in Steps :
            calls[i] > 0 /\ Workflow[i].effect \in {"non_idempotent", "unknown"} =>
                row.steps[i].status \notin {"failed", "canceled"}

(* Finished steps and terminal executions are immutable. *)
FinishedIsImmutable ==
    [][/\ row.status \in TerminalStatus => row' = row
       /\ \A i \in Steps : row.steps[i].status \in {"completed", "skipped"} =>
              row'.steps[i] = row.steps[i]]_vars

Owns(p) ==
    /\ Held(claim[p]) /\ StillGranted(claim[p], lease, now)
    /\ ex[p].rev = row.rev /\ live[p]

SavingLabels == {"reject", "cancel_save", "run_cancel_save", "await",
                 "save_incomplete", "attempt", "called", "record", "recovery",
                 "complete", "fail"}

(* The transitions the executor attempts are those the store allows: a     *)
(* process that holds the execution and works from its current revision is *)
(* never refused a checkpoint, so it cannot be locked out of its own work. *)
(* Not so in three cases, which Refusable names.                           *)
OwnerIsNeverRefused ==
    [][\A p \in Procs :
          /\ pc[p] \in SavingLabels /\ Owns(p)
          /\ pc'[p] # pc[p] /\ budget' = budget
          => row'.rev = row.rev + 1]_vars

(* A retry after a recovery counts its attempts from one, fewer than the   *)
(* row has, and so does the failure that follows; fail keeps the approval  *)
(* whose checkpoint could not be stored; and a snapshot in recovery that   *)
(* was not looked at after the claim cannot ask for an approval.           *)
Refusable(p) ==
    \/ pc[p] = "attempt" /\ try[p] < RunOf(row).attempts
    \/ /\ pc[p] = "fail"
       /\ ex[p].pending # NoApproval \/ RunOf(ex[p]).attempts < RunOf(row).attempts
    \/ pc[p] = "await" /\ row.status = "recovery_required"

(* The owner of the execution is refused a checkpoint for no other reason, *)
(* whichever of its operations it is in and whatever happened before.      *)
OwnerIsHeard ==
    [][\A p \in Procs :
          /\ pc[p] \in SavingLabels /\ Owns(p)
          /\ pc'[p] # pc[p] /\ budget' = budget
          => row'.rev = row.rev + 1 \/ Refusable(p)]_vars

(* Both: what is finished stays, what is not is its owner's to change.     *)
OwnerStands == FinishedIsImmutable /\ OwnerIsHeard

(* A process that holds an open execution in order to cancel it, or because*)
(* its deadline has passed, does close it; a decided approval is no reason *)
(* to give up.                                                             *)
OwnerCanClose ==
    [][\A p \in Procs :
          /\ pc[p] \in {"cancel", "expire", "run_expire"} /\ Owns(p)
          /\ budget' = budget
          => pc'[p] # "release"]_vars

(* Under fair scheduling the execution ends, waits for an approver, or     *)
(* waits for a recovery decision.                                          *)
Settles ==
    <>(row.status \in TerminalStatus \cup
                      {"awaiting_approval", "recovery_required"})

(* Every process keeps executing its own code and polling; the clock keeps *)
(* moving; renewal goroutines run.  Nothing is assumed of the environment. *)
FairSpec ==
    /\ Spec
    /\ WF_vars(Tick)
    /\ \A p \in Procs :
         /\ WF_vars(Enter(p))
         /\ WF_vars(Continue(p) \/ LeaseLost(p))
         /\ WF_vars(Renew(p))

===============================================================================
