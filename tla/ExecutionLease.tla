---------------------------- MODULE ExecutionLease ----------------------------
(***************************************************************************)
(* The leased execution store: MemoryExecutionStore and the SQLite         *)
(* executionStore, driven by the operation contexts of several worker      *)
(* processes.  A context is one Execute, Resume, Cancel, Recover or        *)
(* RunOnce call in flight; it works under the WorkerID of its executor, or *)
(* under none (the optimistic-revision mode).  The document of an          *)
(* execution is reduced to what concurrency control looks at: revision,    *)
(* status and time of the last update.                                     *)
(***************************************************************************)
EXTENDS LeaseRules, FiniteSets, Functions, ExecutionCheckpoint

CONSTANTS
    Executions,   \* execution ids
    Contexts,     \* operation contexts
    WorkerOf,     \* the WorkerID each context runs under, or NoWorker
    BatchLimit,   \* ReadyExecutionClaimRequest.Limit
    SharedFence,  \* TRUE: one fence for the store and released leases are
                  \*   deleted (memory); FALSE: one fence per row (SQLite)
    ClockLag,     \* how many ticks may pass between reading the clock and
                  \*   entering the critical section (0 inside a transaction)
    MaxClock, MaxRevision, MaxFence   \* bounds of the three counters

ASSUME WorkerOfAssumption == WorkerOf \in [Contexts -> Workers \cup {NoWorker}]
ASSUME ExecutionsAssumption == IsFiniteSet(Executions)
ASSUME BoundsAssumption ==
    /\ BatchLimit \in Nat \ {0}
    /\ SharedFence \in BOOLEAN
    /\ {ClockLag, MaxClock, MaxRevision, MaxFence} \subseteq Nat

VARIABLES
    now,        \* the wall clock shared by the workers
    rows,       \* the stored document of each execution
    leases,     \* the stored lease of each execution
    nextFence,  \* MemoryExecutionStore.nextFence
    claims,     \* the ExecutionClaim each context carries, NoLease if none
    copies,     \* the document each context works from
    issued      \* history: every fencing token ever granted, to whom

vars == <<now, rows, leases, nextFence, claims, copies, issued>>

Row == [rev : Nat, status : ExecutionStatus, updated : Nat]

NoRow == [rev |-> 0, status |-> "running", updated |-> 0]

Exists(e) == rows[e].rev > 0

(* s.now() is read before the store's mutex is taken, so the value a claim *)
(* or a renewal compares may be late by ClockLag ticks.                    *)
ClockReadings == {t \in 0 .. now : now - t <= ClockLag}

Fence(e) == IF SharedFence THEN nextFence ELSE leases[e].token

Newest(e, token) ==
    \A g \in issued : g.execution = e => g.token <= token

Terminal(e) == rows[e].status \in TerminalStatus

-------------------------------------------------------------------------------
Init ==
    /\ now = 0
    /\ rows = [e \in Executions |-> NoRow]
    /\ leases = [e \in Executions |-> NoLease]
    /\ nextFence = 0
    /\ claims = [c \in Contexts |-> [e \in Executions |-> NoLease]]
    /\ copies = [c \in Contexts |-> [e \in Executions |-> NoRow]]
    /\ issued = {}

(* Create stores revision one and hands the document to its caller. *)
Create(c, e) ==
    /\ ~Exists(e)
    /\ LET row == [rev |-> 1, status |-> "running", updated |-> now] IN
         /\ rows' = [rows EXCEPT ![e] = row]
         /\ copies' = [copies EXCEPT ![c][e] = row]
    /\ UNCHANGED <<now, leases, nextFence, claims, issued>>

(* Get: a checkpoint read without a claim. *)
Get(c, e) ==
    /\ Exists(e)
    /\ claims[c][e] = NoLease
    /\ copies' = [copies EXCEPT ![c][e] = rows[e]]
    /\ UNCHANGED <<now, rows, leases, nextFence, claims, issued>>

(* What every successful claim leaves behind: the granted leases, the      *)
(* claims that carry them, and the snapshots taken in the same critical    *)
(* section.                                                                *)
TakeLeases(c, granted) ==
    LET S == DOMAIN granted IN
    /\ leases' = [e \in Executions |->
                    IF e \in S THEN granted[e] ELSE leases[e]]
    /\ claims' = [claims EXCEPT ![c] = [e \in Executions |->
                    IF e \in S THEN granted[e] ELSE @[e]]]
    /\ copies' = [copies EXCEPT ![c] = [e \in Executions |->
                    IF e \in S THEN rows[e] ELSE @[e]]]
    /\ issued' = issued \cup
         {[execution |-> e, owner |-> WorkerOf[c], token |-> granted[e].token]
            : e \in S}
    /\ UNCHANGED <<now, rows>>

ClaimExecution(c, e, t) ==
    /\ WorkerOf[c] # NoWorker
    /\ Exists(e) /\ ~Terminal(e)
    /\ Fence(e) < MaxFence
    /\ Claimable(leases[e], WorkerOf[c], t)
    /\ LET granted == Grant(leases[e], WorkerOf[c], t, Fence(e)) IN
         /\ TakeLeases(c, [x \in {e} |-> granted])
         /\ nextFence' = IF SharedFence /\ granted.token > nextFence
                         THEN granted.token ELSE nextFence

(* The rows ClaimReadyExecutions selects from: the statuses RunOnce asks   *)
(* for, without any live lease, not even one of the same worker.           *)
Ready(e, t) ==
    /\ Exists(e)
    /\ rows[e].status \in {"running", "awaiting_approval"}
    /\ ~Live(leases[e], t)

(* The oldest ready rows up to the limit; equally old rows are taken in an *)
(* arbitrary order (the code breaks the tie by id).                        *)
Batches(t) ==
    LET ready == {e \in Executions : Ready(e, t)} IN
    {S \in SUBSET ready :
        /\ S # {}
        /\ IF Cardinality(ready) <= BatchLimit
           THEN S = ready ELSE Cardinality(S) = BatchLimit
        /\ \A e \in S, f \in ready \ S : rows[e].updated <= rows[f].updated}

(* Each row of the batch gets a fence of its own, in some order. *)
ClaimReadyExecutions(c, t) ==
    /\ WorkerOf[c] # NoWorker
    /\ \E S \in Batches(t) :
         \E rank \in Bijection(S, 1 .. Cardinality(S)) :
           /\ \A e \in S : Fence(e) + Cardinality(S) <= MaxFence
           /\ TakeLeases(c, [e \in S |->
                [owner |-> WorkerOf[c],
                 token |-> IF SharedFence THEN nextFence + rank[e]
                           ELSE leases[e].token + 1,
                 until |-> t + LeaseDuration]])
           /\ nextFence' = IF SharedFence
                           THEN nextFence + Cardinality(S) ELSE nextFence

(* RenewExecution, called by the goroutine maintainExecutionClaim starts.  *)
RenewExecution(c, e, t) ==
    /\ claims[c][e] # NoLease
    /\ StillGranted(claims[c][e], leases[e], t)
    /\ leases' = [leases EXCEPT ![e] = Renewed(@, t)]
    /\ claims' = [claims EXCEPT ![c][e] = Renewed(leases[e], t)]
    /\ UNCHANGED <<now, rows, nextFence, copies, issued>>

(* ReleaseExecution ends the use of the claim whether or not it was still  *)
(* granted; the SQLite row keeps its token, the memory store drops it.     *)
ReleaseExecution(c, e) ==
    /\ claims[c][e] # NoLease
    /\ leases' = IF StillGranted(claims[c][e], leases[e], now)
                 THEN [leases EXCEPT ![e] =
                         IF SharedFence THEN NoLease ELSE Freed(@)]
                 ELSE leases
    /\ claims' = [claims EXCEPT ![c][e] = NoLease]
    /\ copies' = [copies EXCEPT ![c][e] = NoRow]
    /\ UNCHANGED <<now, rows, nextFence, issued>>

\* Mutant: the terminal test is dropped.
AcceptsTerminal(before, copy, status) ==
    /\ before.rev = copy.rev
    /\ AllowedExecutionTransition(before.status, status)

(* The part of ValidateExecutionUpdate that concerns a reduced document. *)
AcceptsUpdate(before, copy, status) ==
    /\ before.rev = copy.rev
    /\ before.status \notin TerminalStatus
    /\ AllowedExecutionTransition(before.status, status)

\* Mutant: the stored document keeps its revision.
NextRowSameRevision(copy, status) ==
    [rev |-> copy.rev, status |-> status, updated |-> now]

NextRow(copy, status) ==
    [rev |-> copy.rev + 1, status |-> status, updated |-> now]

(* Update and UpdateWithEvents: a checkpoint that is accepted.  A context  *)
(* that runs under a WorkerID writes only under a claim; a refused         *)
(* checkpoint leaves the store as it was.                                  *)
Checkpoint(c, e, status) ==
    /\ copies[c][e].rev \in 1 .. MaxRevision - 1
    /\ WorkerOf[c] # NoWorker => claims[c][e] # NoLease
    /\ UpdatePermitted(claims[c][e], leases[e], now)
    /\ AcceptsUpdate(rows[e], copies[c][e], status)
    /\ rows' = [rows EXCEPT ![e] = NextRow(copies[c][e], status)]
    /\ copies' = [copies EXCEPT ![c][e] = NextRow(copies[c][e], status)]
    /\ UNCHANGED <<now, leases, nextFence, claims, issued>>

(* The context is gone and nothing was released: its process crashed, or   *)
(* ReleaseExecution itself failed.                                         *)
Abandon(c) ==
    /\ claims' = [claims EXCEPT ![c] = [e \in Executions |-> NoLease]]
    /\ copies' = [copies EXCEPT ![c] = [e \in Executions |-> NoRow]]
    /\ UNCHANGED <<now, rows, leases, nextFence, issued>>

Tick ==
    /\ now < MaxClock
    /\ now' = now + 1
    /\ UNCHANGED <<rows, leases, nextFence, claims, copies, issued>>

Next ==
    \/ Tick
    \/ \E c \in Contexts :
         \/ Abandon(c)
         \/ \E t \in ClockReadings : ClaimReadyExecutions(c, t)
         \/ \E e \in Executions :
              \/ Create(c, e)
              \/ Get(c, e)
              \/ ReleaseExecution(c, e)
              \/ \E status \in ExecutionStatus : Checkpoint(c, e, status)
              \/ \E t \in ClockReadings :
                   ClaimExecution(c, e, t) \/ RenewExecution(c, e, t)

Spec == Init /\ [][Next]_vars


-------------------------------------------------------------------------------
(* Properties *)

(* The shape of the store and of the contexts, with every counter inside   *)
(* its bound; no lease outlives the last clock reading by more than a      *)
(* LeaseDuration.                                                          *)
TypeOK ==
    /\ now \in 0 .. MaxClock
    /\ rows \in [Executions -> Row]
    /\ leases \in [Executions -> Lease]
    /\ nextFence \in 0 .. MaxFence
    /\ claims \in [Contexts -> [Executions -> Lease]]
    /\ copies \in [Contexts -> [Executions -> Row]]
    /\ issued \subseteq [execution : Executions, owner : Workers, token : Nat]
    /\ \A e \in Executions :
         leases[e].token <= MaxFence /\ leases[e].until <= MaxClock + LeaseDuration

(* A worker that stops renewing delays takeover by at most one             *)
(* LeaseDuration: ClaimExecution and RenewExecution never push lease_until *)
(* further than that from the present.                                     *)
LeaseBounded == \A e \in Executions : leases[e].until <= now + LeaseDuration

(* A fencing token of an execution names one owner for ever, although      *)
(* tokens are reused by re-claims and leases are deleted or expire         *)
(* (ExecutionClaim: "Token is monotonically increased each time ownership  *)
(* changes").                                                              *)
TokenNamesOneOwner ==
    \A g, h \in issued :
        g.execution = h.execution /\ g.token = h.token => g.owner = h.owner

(* Whoever holds the row holds the newest token ever granted for it, so an *)
(* older grant can never be mistaken for the current one.                  *)
HolderHasNewestToken ==
    \A e \in Executions :
        Held(leases[e]) =>
            /\ Newest(e, leases[e].token)
            /\ [execution |-> e, owner |-> leases[e].owner,
                token |-> leases[e].token] \in issued

(* Both: a token stands for its grant, whatever was granted before.        *)
FencingSound == TokenNamesOneOwner /\ HolderHasNewestToken

(* A context whose revision number is current works from the very document *)
(* that is stored: the revision check alone rules out lost updates, even   *)
(* between contexts that share a worker id or run without leases.          *)
CurrentRevisionIsCurrentDocument ==
    \A c \in Contexts, e \in Executions :
        copies[c][e].rev = rows[e].rev /\ Exists(e) =>
            copies[c][e] = rows[e]

(* "A stable process-specific WorkerID" (docs/WORKFLOWS.md): no two         *)
(* contexts run under the same one.                                        *)
ProcessSpecific ==
    \A c, d \in Contexts :
        WorkerOf[c] = WorkerOf[d] /\ WorkerOf[c] # NoWorker => c = d

Believes(c, e) == claims[c][e] # NoLease /\ Unexpired(claims[c][e], now)

(* With process-specific worker ids, a context that was last told of an    *)
(* expiry still ahead really is the only one that can believe so, through  *)
(* renewals with late clock readings, crashes, batches and releases.       *)
LiveClaimExclusive ==
    ProcessSpecific =>
        \A c, d \in Contexts, e \in Executions :
            Believes(c, e) /\ Believes(d, e) => c = d

(* Together with the types: a lease is bounded, and its holder alone.      *)
LeasesSound == TypeOK /\ LeaseBounded /\ LiveClaimExclusive

(* The fence proper: while a row is held, a checkpoint is accepted from    *)
(* nobody but a context carrying the newest token ever granted for it.     *)
HeldRowWrittenByNewestGrant ==
    [][\A e \in Executions :
          rows'[e] # rows[e] /\ Held(leases[e]) =>
              \E c \in Contexts :
                  /\ copies'[c][e] = rows'[e]
                  /\ claims[c][e] # NoLease
                  /\ Newest(e, claims[c][e].token)]_vars

(* Completed, failed and canceled executions never change again, whatever  *)
(* claims and copies of them are still about.                              *)
TerminalIsFinal ==
    [][\A e \in Executions : Terminal(e) => rows'[e] = rows[e]]_vars

(* What docs/WORKFLOWS.md promises without the condition that the row is   *)
(* held: "A stale worker cannot persist a checkpoint after a newer worker  *)
(* takes ownership."  Contexts without a worker id are not workers.        *)
StaleWorkerCannotWrite ==
    [][\A e \in Executions, c \in Contexts :
          /\ rows'[e] # rows[e]
          /\ copies'[c][e] = rows'[e]
          /\ claims[c][e] # NoLease
          => Newest(e, claims[c][e].token)]_vars

===============================================================================
