------------------------------ MODULE LeaseRules ------------------------------
(***************************************************************************)
(* The arithmetic of execution leases, shared by every module whose state  *)
(* holds a leased row.  A lease is the triple kept beside an execution by  *)
(* MemoryExecutionStore (memoryExecutionLease) and by the SQLite columns   *)
(* lease_owner, lease_token and lease_until; an ExecutionClaim carries the *)
(* same triple to the worker that was granted it.                          *)
(***************************************************************************)
EXTENDS Naturals

CONSTANTS
    Workers,        \* ExecutorOptions.WorkerID values
    NoWorker,       \* the empty owner string
    LeaseDuration   \* ExecutorOptions.ExecutionLeaseDuration, in clock ticks

ASSUME LeaseDurationAssumption == LeaseDuration \in Nat \ {0}
ASSUME NoWorkerAssumption == NoWorker \notin Workers

Lease == [owner : Workers \cup {NoWorker}, token : Nat, until : Nat]

(* The zero memoryExecutionLease, also the claim of a context that carries *)
(* none: no lease that is held ever matches it.                            *)
NoLease == [owner |-> NoWorker, token |-> 0, until |-> 0]

Held(lease) == lease.owner # NoWorker

Unexpired(lease, t) == t < lease.until

Live(lease, t) == Held(lease) /\ Unexpired(lease, t)

SameGrant(claim, lease) ==
    /\ claim.owner = lease.owner
    /\ claim.token = lease.token

\* Mutant: an expiry test off by one.
ClaimableAtLastTick(lease, worker, t) ==
    lease.owner = worker \/ ~(Held(lease) /\ t + 1 < lease.until)

(* ClaimExecution refuses only a live lease of another owner. *)
Claimable(lease, worker, t) == lease.owner = worker \/ ~Live(lease, t)

\* Mutant: the fence is not advanced when ownership changes.
GrantWithoutFence(lease, worker, t, fence) ==
    [owner |-> worker, token |-> lease.token, until |-> t + LeaseDuration]

(* The lease after ClaimExecution: a live lease of the same worker keeps   *)
(* its token and is extended, any other one gets the next fencing token.   *)
Grant(lease, worker, t, fence) ==
    [owner |-> worker,
     token |-> IF lease.owner = worker /\ Unexpired(lease, t)
               THEN lease.token ELSE fence + 1,
     until |-> t + LeaseDuration]

(* RenewExecution and ReleaseExecution accept only the current grant while *)
(* it is unexpired.                                                        *)
StillGranted(claim, lease, t) == SameGrant(claim, lease) /\ Unexpired(lease, t)

Renewed(lease, t) == [lease EXCEPT !.until = t + LeaseDuration]

(* A released row keeps its token, so that the fence survives the lease.   *)
Freed(lease) == [owner |-> NoWorker, token |-> lease.token, until |-> 0]

\* Mutant: a writer that carries no claim is left to the revision check.
UpdatePermittedWithoutClaim(claim, lease, t) ==
    Held(lease) /\ Held(claim) => StillGranted(claim, lease, t)

(* requireExecutionClaim, and the same test inside UpdateWithEvents: a row *)
(* nobody holds is open to every writer, a held row only to the current    *)
(* unexpired grant.                                                        *)
UpdatePermitted(claim, lease, t) ==
    Held(lease) => StillGranted(claim, lease, t)

===============================================================================
