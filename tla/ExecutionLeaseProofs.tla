-------------------------- MODULE ExecutionLeaseProofs --------------------------
(***************************************************************************)
(* Proofs about ExecutionLease, for any sets of workers, contexts and      *)
(* executions, any assignment of worker ids, both kinds of fence and every *)
(* bound.  Type correctness comes first.  Both ways of claiming are then   *)
(* summarised by GrantsTo, so that each invariant is proved once for all   *)
(* grants.                                                                 *)
(***************************************************************************)
EXTENDS ExecutionLease, FiniteSetTheorems, TLAPS

USE LeaseDurationAssumption, NoWorkerAssumption, WorkerOfAssumption,
    ExecutionsAssumption, BoundsAssumption

(* What the leases handed to context c by one claim look like: each row    *)
(* exists and was free for c at clock reading t, and its token is either   *)
(* the one c's worker already holds or beyond the fence.                   *)
GrantsTo(c, t, granted) ==
    /\ WorkerOf[c] \in Workers
    /\ t \in ClockReadings
    /\ DOMAIN granted \subseteq Executions
    /\ granted \in [DOMAIN granted -> Lease]
    /\ \A e \in DOMAIN granted :
         /\ Exists(e)
         /\ granted[e].owner = WorkerOf[c]
         /\ granted[e].until = t + LeaseDuration
         /\ \/ /\ leases[e].owner = WorkerOf[c]
               /\ granted[e].token = leases[e].token
            \/ /\ granted[e].token > Fence(e)
               /\ Claimable(leases[e], WorkerOf[c], t)
         /\ granted[e].token <= MaxFence
         /\ SharedFence => granted[e].token <= nextFence'
    /\ nextFence' \in 0 .. MaxFence
    /\ nextFence' >= nextFence

(* The fence of a row stays inside its bound, in both kinds of store.      *)
LEMMA FenceType == ASSUME TypeOK, NEW e \in Executions PROVE Fence(e) \in 0 .. MaxFence
BY DEF TypeOK, Fence, Lease

(* A clock reading is a time in the past or the present.                   *)
LEMMA ClockReadingType == ASSUME TypeOK, NEW t \in ClockReadings PROVE t \in 0 .. MaxClock /\ t <= now
BY DEF TypeOK, ClockReadings

(* ClaimExecution, one row, is an instance of GrantsTo.                    *)
LEMMA ClaimExecutionGrants ==
    ASSUME TypeOK, NEW c \in Contexts, NEW e \in Executions,
           NEW t \in ClockReadings, ClaimExecution(c, e, t)
    PROVE  \E granted : GrantsTo(c, t, granted) /\ TakeLeases(c, granted)
<1> DEFINE lease == Grant(leases[e], WorkerOf[c], t, Fence(e))
           granted == [x \in {e} |-> lease]
<1>1. WorkerOf[c] \in Workers
  BY DEF ClaimExecution
<1>2. Fence(e) \in Nat /\ Fence(e) < MaxFence /\ leases[e] \in Lease
      /\ leases[e].token <= MaxFence /\ t \in Nat
  BY FenceType, ClockReadingType DEF TypeOK, ClaimExecution
<1>3. lease \in Lease /\ lease.owner = WorkerOf[c] /\ lease.until = t + LeaseDuration
      /\ lease.token <= MaxFence
  BY <1>1, <1>2 DEF Grant, Lease
<1>4. \/ leases[e].owner = WorkerOf[c] /\ lease.token = leases[e].token
      \/ lease.token > Fence(e) /\ Claimable(leases[e], WorkerOf[c], t)
  BY <1>1, <1>2 DEF Grant, Lease, ClaimExecution
<1>5. /\ nextFence' \in 0 .. MaxFence /\ nextFence' >= nextFence
      /\ SharedFence => lease.token <= nextFence'
  BY <1>2, <1>3 DEF ClaimExecution, Lease, TypeOK
<1>6. GrantsTo(c, t, granted)
  <2> HIDE DEF lease
  <2> QED BY <1>1, <1>3, <1>4, <1>5 DEF GrantsTo, ClaimExecution
<1> QED
  BY <1>6 DEF ClaimExecution

(* ClaimReadyExecutions, a batch of rows, is an instance of GrantsTo.      *)
LEMMA ClaimReadyGrants ==
    ASSUME TypeOK, NEW c \in Contexts, NEW t \in ClockReadings,
           ClaimReadyExecutions(c, t)
    PROVE  \E granted : GrantsTo(c, t, granted) /\ TakeLeases(c, granted)
<1>0. PICK S \in Batches(t) : ClaimReadyExecutions(c, t)!2!(S)
  BY DEF ClaimReadyExecutions
<1>1. PICK rank \in Bijection(S, 1 .. Cardinality(S)) :
        ClaimReadyExecutions(c, t)!2!(S)!(rank)
  BY <1>0
<1> DEFINE n == Cardinality(S)
           granted == [e \in S |-> [owner |-> WorkerOf[c],
                         token |-> IF SharedFence THEN nextFence + rank[e]
                                   ELSE leases[e].token + 1,
                         until |-> t + LeaseDuration]]
<1>2. S \subseteq Executions /\ S # {} /\ \A e \in S : Ready(e, t)
  BY DEF Batches
<1>3. n \in Nat
  BY <1>2, FS_Subset, FS_CardinalityType
<1>4. \A e \in S : rank[e] \in 1 .. n
  BY DEF Bijection, Injection
<1>5. \A e \in S : Fence(e) + n <= MaxFence
  BY <1>1
<1>6. n > 0
  BY <1>2, <1>3, <1>4
<1>7. WorkerOf[c] \in Workers /\ t \in Nat /\ nextFence \in Nat
      /\ \A e \in S : leases[e] \in Lease
  BY <1>2, ClockReadingType DEF ClaimReadyExecutions, TypeOK
<1>8. ASSUME NEW e \in S
      PROVE  /\ granted[e] \in Lease
             /\ granted[e].owner = WorkerOf[c]
             /\ granted[e].until = t + LeaseDuration
             /\ granted[e].token > Fence(e)
             /\ granted[e].token <= MaxFence
             /\ SharedFence => granted[e].token <= nextFence + n
             /\ Claimable(leases[e], WorkerOf[c], t)
  <2> HIDE DEF n
  <2>1. rank[e] \in 1 .. n /\ Fence(e) + n <= MaxFence
    BY <1>4, <1>5
  <2>2. Claimable(leases[e], WorkerOf[c], t)
    BY <1>2 DEF Ready, Claimable
  <2> QED
    <3>1. CASE SharedFence
      BY <1>3, <1>6, <1>7, <2>1, <2>2, <3>1 DEF Lease, Fence
    <3>2. CASE ~SharedFence
      BY <1>3, <1>6, <1>7, <2>1, <2>2, <3>2 DEF Lease, Fence
    <3> QED
      BY <3>1, <3>2
<1>9. /\ nextFence' \in 0 .. MaxFence /\ nextFence' >= nextFence
      /\ SharedFence => nextFence' = nextFence + n
  BY <1>1, <1>2, <1>3, <1>5 DEF Fence, TypeOK
<1>10. GrantsTo(c, t, granted)
  <2> HIDE DEF n
  <2>1. granted \in [S -> Lease] /\ DOMAIN granted = S
    BY <1>8
  <2> HIDE DEF granted
  <2> QED
    BY <1>2, <1>7, <1>8, <1>9, <2>1 DEF GrantsTo, Ready
<1> QED
  BY <1>1, <1>10

(* Every step either hands out leases or is one of the remaining actions,  *)
(* which none of the proofs below has to look for inside Next.             *)
LEMMA StepCases ==
    ASSUME TypeOK, [Next]_vars
    PROVE  \/ UNCHANGED vars
           \/ Tick
           \/ \E c \in Contexts : Abandon(c)
           \/ \E c \in Contexts, t \in ClockReadings : \E granted :
                GrantsTo(c, t, granted) /\ TakeLeases(c, granted)
           \/ \E c \in Contexts, e \in Executions :
                \/ Create(c, e) \/ Get(c, e) \/ ReleaseExecution(c, e)
                \/ \E status \in ExecutionStatus : Checkpoint(c, e, status)
                \/ \E t \in ClockReadings : RenewExecution(c, e, t)
BY ClaimExecutionGrants, ClaimReadyGrants DEF Next

(* The shape of the state is preserved by every step of the store and of   *)
(* its contexts.                                                           *)
THEOREM TypeCorrect == Spec => []TypeOK
<1>1. Init => TypeOK
  BY DEF Init, TypeOK, Lease, NoLease, Row, NoRow, ExecutionStatus
<1>2. TypeOK /\ [Next]_vars => TypeOK'
  <2> SUFFICES ASSUME TypeOK, [Next]_vars PROVE TypeOK'
    OBVIOUS
  <2>1. CASE UNCHANGED vars
    BY <2>1 DEF TypeOK, vars
  <2>2. CASE Tick
    BY <2>2 DEF TypeOK, Tick
  <2>3. ASSUME NEW c \in Contexts, Abandon(c) PROVE TypeOK'
    BY <2>3 DEF TypeOK, Abandon, Lease, NoLease, Row, NoRow, ExecutionStatus
  <2>4. ASSUME NEW c \in Contexts, NEW t \in ClockReadings, NEW granted,
               GrantsTo(c, t, granted), TakeLeases(c, granted)
        PROVE  TypeOK'
    <3>1. t \in 0 .. MaxClock
      BY ClockReadingType
    <3>2. leases' \in [Executions -> Lease]
      BY <2>4 DEF TypeOK, GrantsTo, TakeLeases
    <3>3. claims' \in [Contexts -> [Executions -> Lease]]
      BY <2>4 DEF TypeOK, GrantsTo, TakeLeases
    <3>4. copies' \in [Contexts -> [Executions -> Row]]
      BY <2>4 DEF TypeOK, GrantsTo, TakeLeases
    <3>5. issued' \subseteq [execution : Executions, owner : Workers, token : Nat]
      BY <2>4 DEF TypeOK, GrantsTo, TakeLeases, Lease
    <3>6. \A e \in Executions :
            leases'[e].token <= MaxFence /\ leases'[e].until <= MaxClock + LeaseDuration
      BY <2>4, <3>1 DEF TypeOK, GrantsTo, TakeLeases
    <3> QED
      BY <2>4, <3>2, <3>3, <3>4, <3>5, <3>6 DEF TypeOK, GrantsTo, TakeLeases
  <2>5. ASSUME NEW c \in Contexts, NEW e \in Executions, Create(c, e)
        PROVE  TypeOK'
    BY <2>5 DEF TypeOK, Create, Row, ExecutionStatus
  <2>6. ASSUME NEW c \in Contexts, NEW e \in Executions, Get(c, e)
        PROVE  TypeOK'
    BY <2>6 DEF TypeOK, Get
  <2>7. ASSUME NEW c \in Contexts, NEW e \in Executions,
               ReleaseExecution(c, e)
        PROVE  TypeOK'
    <3> DEFINE freed == IF SharedFence THEN NoLease ELSE Freed(leases[e])
    <3>1. leases[e] \in Lease /\ leases[e].token <= MaxFence
      BY DEF TypeOK
    <3>2. freed \in Lease /\ freed.token <= MaxFence /\ freed.until = 0
      BY <3>1 DEF Lease, NoLease, Freed
    <3>3. leases' = leases \/ leases' = [leases EXCEPT ![e] = freed]
      BY <2>7 DEF ReleaseExecution, TypeOK
    <3> HIDE DEF freed
    <3>4. /\ leases' \in [Executions -> Lease]
          /\ \A x \in Executions :
               leases'[x].token <= MaxFence /\ leases'[x].until <= MaxClock + LeaseDuration
      <4>1. freed.until <= MaxClock + LeaseDuration
        BY <3>2
      <4> QED
        BY <3>2, <3>3, <4>1 DEF TypeOK
    <3>5. NoLease \in Lease /\ NoRow \in Row
      BY DEF Lease, NoLease, Row, NoRow, ExecutionStatus
    <3> QED
      BY <2>7, <3>4, <3>5 DEF TypeOK, ReleaseExecution
  <2>8. ASSUME NEW c \in Contexts, NEW e \in Executions,
               NEW status \in ExecutionStatus, Checkpoint(c, e, status)
        PROVE  TypeOK'
    BY <2>8 DEF TypeOK, Checkpoint, NextRow, Row
  <2>9. ASSUME NEW c \in Contexts, NEW e \in Executions,
               NEW t \in ClockReadings, RenewExecution(c, e, t)
        PROVE  TypeOK'
    <3> DEFINE renewed == Renewed(leases[e], t)
    <3>1. leases[e] \in Lease /\ leases[e].token <= MaxFence /\ t \in 0 .. MaxClock
      BY ClockReadingType DEF TypeOK
    <3>2. renewed \in Lease /\ renewed.token <= MaxFence
          /\ renewed.until <= MaxClock + LeaseDuration
      BY <3>1 DEF Renewed, Lease
    <3>3. /\ leases' = [leases EXCEPT ![e] = renewed]
          /\ claims' = [claims EXCEPT ![c][e] = renewed]
          /\ UNCHANGED <<now, rows, nextFence, copies, issued>>
      BY <2>9 DEF RenewExecution
    <3> HIDE DEF renewed
    <3> QED
      BY <3>2, <3>3 DEF TypeOK
  <2> QED
    BY StepCases, <2>1, <2>2, <2>3, <2>4, <2>5, <2>6, <2>7, <2>8, <2>9
<1> QED
  BY <1>1, <1>2, PTL DEF Spec

-------------------------------------------------------------------------------
(* Fencing *)

(* No token is ever granted beyond the fence its execution is issued from. *)
FenceCoversIssued == \A g \in issued : g.token <= Fence(g.execution)

FencingInv == TypeOK /\ FenceCoversIssued /\ HolderHasNewestToken /\ TokenNamesOneOwner

(* A grant keeps the fence ahead of every token issued, and gives its row  *)
(* the newest one: a reused token was the newest already, any other is     *)
(* beyond the fence.                                                       *)
LEMMA GrantKeepsFencing ==
    ASSUME FencingInv, NEW c \in Contexts, NEW t \in ClockReadings, NEW granted,
           GrantsTo(c, t, granted), TakeLeases(c, granted)
    PROVE  FenceCoversIssued' /\ HolderHasNewestToken' /\ TokenNamesOneOwner'
<1> DEFINE S == DOMAIN granted
           record(e) == [execution |-> e, owner |-> WorkerOf[c],
                         token |-> granted[e].token]
<1>1. /\ issued' = issued \cup {record(e) : e \in S}
      /\ S \subseteq Executions
      /\ WorkerOf[c] \in Workers
  BY DEF GrantsTo, TakeLeases
<1>2. \A g \in issued : g.execution \in Executions /\ g.token \in Nat
  BY DEF FencingInv, TypeOK
<1>3. \A e \in S : /\ granted[e] \in Lease
                   /\ leases[e] \in Lease
                   /\ Fence(e) \in Nat
                   /\ leases'[e] = granted[e]
                   /\ granted[e].owner = WorkerOf[c]
  BY <1>1, FenceType DEF GrantsTo, TakeLeases, FencingInv, TypeOK
\* Within S: every earlier token is at most the granted one.
<1>4. ASSUME NEW e \in S
      PROVE  /\ \A g \in issued : g.execution = e => g.token <= granted[e].token
             /\ \/ record(e) \in issued
                \/ \A g \in issued : g.execution = e => g.token < granted[e].token
  <2>1. CASE leases[e].owner = WorkerOf[c] /\ granted[e].token = leases[e].token
    <3>1. Held(leases[e])
      BY <1>1, <2>1 DEF Held
    <3> QED
      BY <1>1, <2>1, <3>1 DEF FencingInv, HolderHasNewestToken, Newest
  <2>2. CASE granted[e].token > Fence(e)
    BY <1>2, <1>3, <2>2 DEF FencingInv, FenceCoversIssued, Lease
  <2> QED
    BY <2>1, <2>2 DEF GrantsTo
<1>5. FenceCoversIssued'
  <2> SUFFICES ASSUME NEW g \in issued' PROVE g.token <= Fence(g.execution)'
    BY DEF FenceCoversIssued
  <2>1. CASE SharedFence
    <3>1. Fence(g.execution)' = nextFence' /\ nextFence' >= nextFence
          /\ nextFence' \in Nat /\ nextFence \in Nat
      BY <2>1 DEF Fence, GrantsTo, FencingInv, TypeOK
    <3>2. CASE g \in issued
      BY <2>1, <3>1, <3>2, <1>2 DEF FencingInv, FenceCoversIssued, Fence
    <3>3. CASE \E e \in S : g = record(e)
      BY <2>1, <3>1, <3>3 DEF GrantsTo
    <3> QED
      BY <1>1, <3>2, <3>3
  <2>2. CASE ~SharedFence
    <3>1. CASE g \in issued /\ g.execution \in S
      BY <1>3, <1>4, <2>2, <3>1 DEF Fence
    <3>2. CASE g \in issued /\ g.execution \notin S
      <4>1. leases'[g.execution] = leases[g.execution]
        BY <1>2, <3>2 DEF TakeLeases
      <4> QED
        BY <2>2, <3>2, <4>1 DEF FencingInv, FenceCoversIssued, Fence
    <3>3. CASE \E e \in S : g = record(e)
      BY <1>3, <2>2, <3>3 DEF Fence, Lease
    <3> QED
      BY <1>1, <3>1, <3>2, <3>3
  <2> QED
    BY <2>1, <2>2
<1>6. HolderHasNewestToken'
  <2> SUFFICES ASSUME NEW e \in Executions, Held(leases'[e])
               PROVE  /\ \A g \in issued' : g.execution = e => g.token <= leases'[e].token
                      /\ [execution |-> e, owner |-> leases'[e].owner,
                          token |-> leases'[e].token] \in issued'
    BY DEF HolderHasNewestToken, Newest
  <2>1. CASE e \in S
    <3>1. granted[e].token \in Nat
      BY <1>3, <2>1 DEF Lease
    <3> QED
      BY <1>1, <1>3, <1>4, <2>1, <3>1
  <2>2. CASE e \notin S
    <3>1. leases'[e] = leases[e]
      BY <2>2 DEF TakeLeases
    <3>2. \A g \in issued' : g.execution = e => g \in issued
      BY <1>1, <2>2
    <3> QED
      BY <1>1, <3>1, <3>2 DEF FencingInv, HolderHasNewestToken, Newest
  <2> QED
    BY <2>1, <2>2
<1>7. TokenNamesOneOwner'
  <2> SUFFICES ASSUME NEW g \in issued', NEW h \in issued',
                      g.execution = h.execution, g.token = h.token
               PROVE  g.owner = h.owner
    BY DEF TokenNamesOneOwner
  <2>1. \A e \in S, x \in issued :
          x.execution = e /\ x.token = granted[e].token => x.owner = WorkerOf[c]
    <3> SUFFICES ASSUME NEW e \in S, NEW x \in issued,
                        x.execution = e, x.token = granted[e].token
                 PROVE  x.owner = WorkerOf[c]
      OBVIOUS
    <3>1. CASE record(e) \in issued
      BY <3>1 DEF FencingInv, TokenNamesOneOwner
    <3>2. CASE \A y \in issued : y.execution = e => y.token < granted[e].token
      BY <1>2, <3>2
    <3> QED
      BY <1>4, <3>1, <3>2
  <2>2. CASE g \in issued /\ h \in issued
    BY <2>2 DEF FencingInv, TokenNamesOneOwner
  <2> QED
    BY <1>1, <2>1, <2>2
<1> QED
  BY <1>5, <1>6, <1>7

(* A released or renewed lease keeps its token or frees the row.           *)
LEMMA OtherStepsKeepFencing ==
    ASSUME FencingInv, issued' = issued, nextFence' = nextFence,
           \A e \in Executions :
             /\ leases'[e].token = leases[e].token \/ SharedFence
             /\ Held(leases'[e]) =>
                   /\ leases'[e].owner = leases[e].owner
                   /\ leases'[e].token = leases[e].token
    PROVE  FenceCoversIssued' /\ HolderHasNewestToken' /\ TokenNamesOneOwner'
<1>1. \A g \in issued : g.execution \in Executions
  BY DEF FencingInv, TypeOK
<1>2. FenceCoversIssued'
  BY <1>1 DEF FencingInv, FenceCoversIssued, Fence
<1>3. HolderHasNewestToken'
  BY DEF FencingInv, HolderHasNewestToken, Newest, Held
<1>4. TokenNamesOneOwner'
  BY DEF FencingInv, TokenNamesOneOwner
<1> QED
  BY <1>2, <1>3, <1>4

(* The conjunction that is inductive: the fence covers every token issued. *)
LEMMA FencingInvariant == Spec => []FencingInv
<1>1. Init => FencingInv
  <2> SUFFICES ASSUME Init PROVE FencingInv
    OBVIOUS
  <2>1. TypeOK
    BY DEF Init, TypeOK, Lease, NoLease, Row, NoRow, ExecutionStatus
  <2> QED
    BY <2>1 DEF Init, FencingInv, FenceCoversIssued, HolderHasNewestToken,
                TokenNamesOneOwner, Held, NoLease
<1>2. TypeOK' /\ FencingInv /\ [Next]_vars => FencingInv'
  <2> SUFFICES ASSUME TypeOK', FencingInv, [Next]_vars
               PROVE  FenceCoversIssued' /\ HolderHasNewestToken' /\ TokenNamesOneOwner'
    BY DEF FencingInv
  <2>1. ASSUME UNCHANGED <<leases, nextFence, issued>>
        PROVE  FenceCoversIssued' /\ HolderHasNewestToken' /\ TokenNamesOneOwner'
    BY <2>1, OtherStepsKeepFencing
  <2>2. ASSUME NEW c \in Contexts, NEW e \in Executions, ReleaseExecution(c, e)
        PROVE  FenceCoversIssued' /\ HolderHasNewestToken' /\ TokenNamesOneOwner'
    <3>1. \A x \in Executions :
             /\ leases'[x].token = leases[x].token \/ SharedFence
             /\ Held(leases'[x]) =>
                   /\ leases'[x].owner = leases[x].owner
                   /\ leases'[x].token = leases[x].token
      BY <2>2 DEF ReleaseExecution, FencingInv, TypeOK, Held, Freed, NoLease
    <3> QED
      BY <2>2, <3>1, OtherStepsKeepFencing DEF ReleaseExecution
  <2>3. ASSUME NEW c \in Contexts, NEW e \in Executions, NEW t \in ClockReadings,
               RenewExecution(c, e, t)
        PROVE  FenceCoversIssued' /\ HolderHasNewestToken' /\ TokenNamesOneOwner'
    <3>1. /\ Renewed(leases[e], t).token = leases[e].token
          /\ Renewed(leases[e], t).owner = leases[e].owner
      BY DEF Renewed, FencingInv, TypeOK, Lease
    <3>2. \A x \in Executions :
             /\ leases'[x].token = leases[x].token
             /\ leases'[x].owner = leases[x].owner
      BY <2>3, <3>1 DEF RenewExecution, FencingInv, TypeOK
    <3> QED
      BY <2>3, <3>2, OtherStepsKeepFencing DEF RenewExecution
  <2> QED
    BY StepCases, GrantKeepsFencing, <2>1, <2>2, <2>3
       DEF FencingInv, vars, Tick, Abandon, Create, Get, Checkpoint
<1> QED
  BY <1>1, <1>2, TypeCorrect, PTL DEF Spec

(* A fencing token of an execution never names two owners.                 *)
THEOREM TokensNameOneOwner == Spec => []TokenNamesOneOwner
BY FencingInvariant, PTL DEF FencingInv

(* The holder of a row holds the newest token granted for it.              *)
THEOREM HoldersHaveNewestToken == Spec => []HolderHasNewestToken
BY FencingInvariant, PTL DEF FencingInv

-------------------------------------------------------------------------------
(* Documents *)

(* No context is ahead of the store, and a row that was never created has  *)
(* no status but the initial one.                                          *)
CopiesNotAhead ==
    \A c \in Contexts, e \in Executions : copies[c][e].rev <= rows[e].rev

AbsentRowsAreBlank == \A e \in Executions : ~Exists(e) => rows[e] = NoRow

DocumentInv ==
    /\ CopiesNotAhead
    /\ AbsentRowsAreBlank
    /\ CurrentRevisionIsCurrentDocument

(* No context has seen a revision the store has not, and equal revisions   *)
(* are equal documents: the induction behind optimistic concurrency.       *)
LEMMA DocumentInvariant == Spec => []DocumentInv
<1> USE DEF DocumentInv, CopiesNotAhead, AbsentRowsAreBlank,
            CurrentRevisionIsCurrentDocument, Exists
<1>1. Init => DocumentInv
  BY DEF Init, NoRow
<1>2. TypeOK /\ TypeOK' /\ DocumentInv /\ [Next]_vars => DocumentInv'
  <2> SUFFICES ASSUME TypeOK, TypeOK', DocumentInv, [Next]_vars PROVE DocumentInv'
    OBVIOUS
  <2>1. CASE UNCHANGED <<rows, copies>>
    BY <2>1
  <2>2. ASSUME NEW c \in Contexts, Abandon(c) PROVE DocumentInv'
    BY <2>2 DEF TypeOK, Abandon, NoRow, Row
  <2>3. ASSUME NEW c \in Contexts, NEW t \in ClockReadings, NEW granted,
               GrantsTo(c, t, granted), TakeLeases(c, granted)
        PROVE  DocumentInv'
    BY <2>3 DEF TypeOK, TakeLeases, Row
  <2>4. ASSUME NEW c \in Contexts, NEW e \in Executions, Create(c, e)
        PROVE  DocumentInv'
    BY <2>4 DEF TypeOK, Create, Row, NoRow
  <2>5. ASSUME NEW c \in Contexts, NEW e \in Executions, Get(c, e)
        PROVE  DocumentInv'
    BY <2>5 DEF TypeOK, Get, Row
  <2>6. ASSUME NEW c \in Contexts, NEW e \in Executions, ReleaseExecution(c, e)
        PROVE  DocumentInv'
    BY <2>6 DEF TypeOK, ReleaseExecution, NoRow, Row
  <2>7. ASSUME NEW c \in Contexts, NEW e \in Executions,
               NEW status \in ExecutionStatus, Checkpoint(c, e, status)
        PROVE  DocumentInv'
    <3> DEFINE saved == NextRow(copies[c][e], status)
    <3>1. saved.rev = rows[e].rev + 1 /\ rows[e].rev \in Nat
      BY <2>7 DEF Checkpoint, AcceptsUpdate, NextRow, TypeOK, Row
    <3>2. /\ rows' = [rows EXCEPT ![e] = saved]
          /\ copies' = [copies EXCEPT ![c][e] = saved]
      BY <2>7 DEF Checkpoint
    <3> HIDE DEF saved
    <3> QED
      BY <3>1, <3>2 DEF TypeOK, Row
  <2>8. ASSUME NEW c \in Contexts, NEW e \in Executions, NEW t \in ClockReadings,
               RenewExecution(c, e, t)
        PROVE  DocumentInv'
    BY <2>8 DEF RenewExecution
  <2> QED
    BY StepCases, <2>1, <2>2, <2>3, <2>4, <2>5, <2>6, <2>7, <2>8 DEF vars, Tick
<1> QED
  BY <1>1, <1>2, TypeCorrect, PTL DEF Spec

(* Revisions alone rule out lost updates: a context at the current         *)
(* revision works from the stored document, whoever else is writing.       *)
THEOREM CurrentRevisionNamesDocument == Spec => []CurrentRevisionIsCurrentDocument
BY DocumentInvariant, PTL DEF DocumentInv

(* A document in a terminal status is never replaced.                      *)
THEOREM TerminalDocumentsAreFinal == Spec => TerminalIsFinal
<1>1. TypeOK /\ DocumentInv /\ [Next]_vars =>
        [\A e \in Executions : Terminal(e) => rows'[e] = rows[e]]_vars
  <2> SUFFICES ASSUME TypeOK, DocumentInv, [Next]_vars, NEW e \in Executions,
                      Terminal(e)
               PROVE  rows'[e] = rows[e]
    OBVIOUS
  <2>1. ASSUME NEW c \in Contexts, NEW x \in Executions, Create(c, x)
        PROVE  rows'[e] = rows[e]
    BY <2>1 DEF Create, DocumentInv, AbsentRowsAreBlank, NoRow, Terminal,
                TerminalStatus, TypeOK
  <2>2. ASSUME NEW c \in Contexts, NEW x \in Executions,
               NEW status \in ExecutionStatus, Checkpoint(c, x, status)
        PROVE  rows'[e] = rows[e]
    BY <2>2 DEF Checkpoint, AcceptsUpdate, Terminal, TypeOK
  <2> QED
    BY StepCases, <2>1, <2>2
       DEF vars, Tick, Abandon, TakeLeases, Get, ReleaseExecution, RenewExecution
<1> QED
  BY <1>1, TypeCorrect, DocumentInvariant, PTL DEF Spec, TerminalIsFinal

(* While a row is held, only a carrier of the newest token replaces its    *)
(* document.                                                               *)
HeldRowsExist == \A e \in Executions : Held(leases[e]) => Exists(e)

(* Only rows that were created are ever leased.                            *)
LEMMA HeldRowsExistInvariant == Spec => []HeldRowsExist
<1>1. Init => HeldRowsExist
  BY DEF Init, HeldRowsExist, Held, NoLease
<1>2. TypeOK /\ HeldRowsExist /\ [Next]_vars => HeldRowsExist'
  <2> SUFFICES ASSUME TypeOK, HeldRowsExist, [Next]_vars, NEW e \in Executions,
                      Held(leases'[e])
               PROVE  rows'[e].rev > 0
    BY DEF HeldRowsExist, Exists
  <2>1. rows[e].rev > 0 => rows'[e].rev > 0
    <3>1. ASSUME NEW c \in Contexts, NEW x \in Executions,
                 NEW status \in ExecutionStatus, Checkpoint(c, x, status)
          PROVE  rows[e].rev > 0 => rows'[e].rev > 0
      <4>1. NextRow(copies[c][x], status).rev > 0
        BY <3>1 DEF NextRow, Checkpoint, TypeOK, Row
      <4> QED
        BY <3>1, <4>1 DEF Checkpoint, TypeOK
    <3> QED
      BY StepCases, <3>1 DEF vars, Tick, Abandon, TakeLeases, Get, ReleaseExecution,
         RenewExecution, Create, TypeOK
  <2>2. rows[e].rev > 0 \/ ~Held(leases[e])
    BY DEF HeldRowsExist, Exists
  <2>3. ~Held(leases[e]) => rows[e].rev > 0
    <3>1. ASSUME NEW c \in Contexts, NEW x \in Executions, ReleaseExecution(c, x),
                 ~Held(leases[e])
          PROVE  ~Held(leases'[e])
      BY <3>1 DEF ReleaseExecution, Held, Freed, NoLease, TypeOK
    <3>2. ASSUME NEW c \in Contexts, NEW x \in Executions, NEW t \in ClockReadings,
                 RenewExecution(c, x, t), ~Held(leases[e])
          PROVE  ~Held(leases'[e])
      <4>1. Renewed(leases[x], t).owner = leases[x].owner
        BY DEF Renewed, TypeOK, Lease
      <4> QED
        BY <3>2, <4>1 DEF RenewExecution, Held, TypeOK
    <3>3. ASSUME NEW c \in Contexts, NEW t \in ClockReadings, NEW granted,
                 GrantsTo(c, t, granted), TakeLeases(c, granted), ~Held(leases[e])
          PROVE  rows[e].rev > 0
      BY <3>3 DEF GrantsTo, TakeLeases, Exists
    <3> QED
      BY StepCases, <3>1, <3>2, <3>3
         DEF vars, Tick, Abandon, Get, Create, Checkpoint
  <2> QED
    BY <2>1, <2>2, <2>3
<1> QED
  BY <1>1, <1>2, TypeCorrect, PTL DEF Spec

(* While a row is held, only a context with the newest grant changes it:   *)
(* requireExecutionClaim compares owner and token, and the holder's token  *)
(* is the newest by FencingInv.                                            *)
THEOREM FenceHolds == Spec => HeldRowWrittenByNewestGrant
<1> DEFINE Fenced(e) == rows'[e] # rows[e] /\ Held(leases[e]) =>
              \E c \in Contexts :
                  /\ copies'[c][e] = rows'[e]
                  /\ claims[c][e] # NoLease
                  /\ Newest(e, claims[c][e].token)
<1>1. FencingInv /\ HeldRowsExist /\ [Next]_vars =>
        [\A e \in Executions : Fenced(e)]_vars
  <2> SUFFICES ASSUME FencingInv, HeldRowsExist, [Next]_vars, NEW e \in Executions,
                      rows'[e] # rows[e], Held(leases[e])
               PROVE  \E c \in Contexts :
                        /\ copies'[c][e] = rows'[e]
                        /\ claims[c][e] # NoLease
                        /\ Newest(e, claims[c][e].token)
    OBVIOUS
  <2> USE DEF FencingInv
  <2>1. ASSUME NEW c \in Contexts, NEW x \in Executions, Create(c, x)
        PROVE  FALSE
    BY <2>1 DEF Create, HeldRowsExist, Exists, TypeOK
  <2>2. ASSUME NEW c \in Contexts, NEW x \in Executions,
               NEW status \in ExecutionStatus, Checkpoint(c, x, status)
        PROVE  /\ copies'[c][e] = rows'[e]
               /\ claims[c][e] # NoLease
               /\ Newest(e, claims[c][e].token)
    <3>1. x = e
      BY <2>2 DEF Checkpoint, TypeOK
    <3>2. copies'[c][e] = rows'[e]
      BY <2>2, <3>1 DEF Checkpoint, TypeOK
    <3>3. SameGrant(claims[c][e], leases[e])
      BY <2>2, <3>1 DEF Checkpoint, UpdatePermitted, StillGranted
    <3>4. claims[c][e] # NoLease
      BY <3>3 DEF SameGrant, Held, NoLease
    <3>5. Newest(e, claims[c][e].token)
      BY <3>3 DEF SameGrant, HolderHasNewestToken, Newest
    <3> QED
      BY <3>2, <3>4, <3>5
  <2> QED
    BY StepCases, <2>1, <2>2
       DEF vars, Tick, Abandon, TakeLeases, Get, ReleaseExecution, RenewExecution
<1> QED
  BY <1>1, FencingInvariant, HeldRowsExistInvariant, PTL
     DEF Spec, HeldRowWrittenByNewestGrant

-------------------------------------------------------------------------------
(* Exclusion *)

(* Every claim was issued to the worker of its context, and as long as it  *)
(* is believed and worker ids are process-specific it is, to the tick, the *)
(* lease of the store.                                                     *)
ClaimsAreOwned ==
    \A c \in Contexts, e \in Executions :
        claims[c][e] # NoLease =>
            WorkerOf[c] \in Workers /\ claims[c][e].owner = WorkerOf[c]

BeliefIsGrant ==
    ProcessSpecific =>
        \A c \in Contexts, e \in Executions :
            Believes(c, e) => claims[c][e] = leases[e]

ExclusionInv == ClaimsAreOwned /\ BeliefIsGrant

(* A claim is in the name of its context's worker, and a context that      *)
(* believes in its claim is the holder of the row.                         *)
LEMMA ExclusionInvariant == Spec => []ExclusionInv
<1> USE DEF ExclusionInv
<1>1. Init => ExclusionInv
  BY DEF Init, ClaimsAreOwned, BeliefIsGrant, Believes
<1>2. TypeOK /\ TypeOK' /\ ExclusionInv /\ [Next]_vars => ExclusionInv'
  <2> SUFFICES ASSUME TypeOK, TypeOK', ExclusionInv, [Next]_vars PROVE ExclusionInv'
    OBVIOUS
  <2>0. now' \in Nat /\ now \in Nat
    BY DEF TypeOK
  <2>1. ASSUME UNCHANGED <<claims, leases>>, now' >= now PROVE ExclusionInv'
    <3>1. \A c \in Contexts, e \in Executions : Believes(c, e)' => Believes(c, e)
      BY <2>0, <2>1 DEF Believes, Unexpired, TypeOK, Lease
    <3> QED
      BY <2>1, <3>1 DEF ClaimsAreOwned, BeliefIsGrant
  <2>2. ASSUME NEW c \in Contexts, Abandon(c) PROVE ExclusionInv'
    BY <2>2 DEF Abandon, ClaimsAreOwned, BeliefIsGrant, Believes, Unexpired, TypeOK
  <2>3. ASSUME NEW c \in Contexts, NEW t \in ClockReadings, NEW granted,
               GrantsTo(c, t, granted), TakeLeases(c, granted)
        PROVE  ExclusionInv'
    <3>1. t \in Nat /\ t <= now
      BY ClockReadingType
    <3>2. ClaimsAreOwned'
      BY <2>3 DEF GrantsTo, TakeLeases, ClaimsAreOwned, TypeOK
    <3>3. ASSUME ProcessSpecific, NEW d \in Contexts, NEW e \in Executions,
                 Believes(d, e)'
          PROVE  claims'[d][e] = leases'[e]
      <4>1. CASE d = c /\ e \in DOMAIN granted
        BY <2>3, <4>1 DEF TakeLeases, TypeOK
      <4>2. CASE e \notin DOMAIN granted
        BY <2>3, <3>3, <4>2 DEF TakeLeases, TypeOK, BeliefIsGrant, Believes, Unexpired
      <4>3. CASE d # c /\ e \in DOMAIN granted
        <5>1. claims'[d][e] = claims[d][e] /\ now' = now
          BY <2>3, <4>3 DEF TakeLeases, TypeOK
        <5>2. Believes(d, e)
          BY <3>3, <5>1 DEF Believes, Unexpired
        <5>3. claims[d][e] = leases[e] /\ leases[e].owner = WorkerOf[d]
              /\ WorkerOf[d] \in Workers /\ leases[e] \in Lease /\ now < leases[e].until
          BY <3>3, <5>2 DEF BeliefIsGrant, ClaimsAreOwned, Believes, Unexpired, TypeOK
        <5>4. leases[e].owner # WorkerOf[c]
          BY <3>3, <4>3, <5>3 DEF ProcessSpecific
        <5>5. Live(leases[e], t)
          BY <2>0, <3>1, <5>3 DEF Live, Held, Unexpired, Lease
        <5> QED
          BY <2>3, <4>3, <5>4, <5>5 DEF GrantsTo, Claimable
      <4> QED
        BY <4>1, <4>2, <4>3
    <3> QED
      BY <3>2, <3>3 DEF BeliefIsGrant, ProcessSpecific
  <2>4. ASSUME NEW c \in Contexts, NEW e \in Executions, ReleaseExecution(c, e)
        PROVE  ExclusionInv'
    <3>1. ClaimsAreOwned'
      BY <2>4 DEF ReleaseExecution, ClaimsAreOwned, TypeOK
    <3>2. ASSUME ProcessSpecific, NEW d \in Contexts, NEW x \in Executions,
                 Believes(d, x)'
          PROVE  claims'[d][x] = leases'[x]
      <4>1. ~(d = c /\ x = e)
        BY <2>4, <3>2 DEF ReleaseExecution, Believes, TypeOK
      <4>2. claims'[d][x] = claims[d][x] /\ now' = now
        BY <2>4, <4>1 DEF ReleaseExecution, TypeOK
      <4>3. Believes(d, x) /\ claims[d][x] = leases[x] /\ claims[d][x].owner = WorkerOf[d]
            /\ WorkerOf[d] \in Workers
        BY <3>2, <4>2 DEF Believes, Unexpired, BeliefIsGrant, ClaimsAreOwned
      <4>4. CASE x # e
        BY <2>4, <4>2, <4>3, <4>4 DEF ReleaseExecution, TypeOK
      <4>5. CASE x = e
        <5>1. d # c /\ WorkerOf[c] # WorkerOf[d]
          BY <3>2, <4>1, <4>3, <4>5 DEF ProcessSpecific
        <5>2. claims[c][e].owner = WorkerOf[c]
          BY <2>4 DEF ReleaseExecution, ClaimsAreOwned
        <5>3. ~StillGranted(claims[c][e], leases[e], now)
          BY <4>3, <4>5, <5>1, <5>2 DEF StillGranted, SameGrant
        <5> QED
          BY <2>4, <4>2, <4>3, <4>5, <5>3 DEF ReleaseExecution
      <4> QED
        BY <4>4, <4>5
    <3> QED
      BY <3>1, <3>2 DEF BeliefIsGrant, ProcessSpecific
  <2>5. ASSUME NEW c \in Contexts, NEW e \in Executions, NEW t \in ClockReadings,
               RenewExecution(c, e, t)
        PROVE  ExclusionInv'
    <3> DEFINE renewed == Renewed(leases[e], t)
    <3>1. /\ renewed.owner = leases[e].owner
          /\ claims[c][e].owner = leases[e].owner
      BY <2>5 DEF RenewExecution, Renewed, StillGranted, SameGrant, TypeOK, Lease
    <3>2. /\ claims' = [claims EXCEPT ![c][e] = renewed]
          /\ leases' = [leases EXCEPT ![e] = renewed]
          /\ claims[c][e] # NoLease
          /\ now' = now
      BY <2>5 DEF RenewExecution
    <3> HIDE DEF renewed
    <3>3. WorkerOf[c] \in Workers /\ claims[c][e].owner = WorkerOf[c]
      BY <3>2 DEF ClaimsAreOwned
    <3>4. ClaimsAreOwned'
      BY <3>1, <3>2, <3>3 DEF ClaimsAreOwned, TypeOK
    <3>5. ASSUME ProcessSpecific, NEW d \in Contexts, NEW x \in Executions,
                 Believes(d, x)'
          PROVE  claims'[d][x] = leases'[x]
      <4>1. CASE d = c /\ x = e
        BY <3>2, <4>1 DEF TypeOK
      <4>2. CASE x # e
        BY <3>2, <3>5, <4>2 DEF TypeOK, BeliefIsGrant, Believes, Unexpired
      <4>3. CASE d # c /\ x = e
        <5>1. claims'[d][x] = claims[d][x]
          BY <3>2, <4>3 DEF TypeOK
        <5>2. Believes(d, x)
          BY <3>2, <3>5, <5>1 DEF Believes, Unexpired
        <5>3. leases[e].owner = WorkerOf[d]
          BY <3>5, <4>3, <5>2 DEF BeliefIsGrant, ClaimsAreOwned, Believes
        <5> QED
          BY <3>1, <3>3, <3>5, <4>3, <5>3 DEF ProcessSpecific
      <4> QED
        BY <4>1, <4>2, <4>3
    <3> QED
      BY <3>4, <3>5 DEF BeliefIsGrant, ProcessSpecific
  <2> QED
    BY StepCases, <2>0, <2>1, <2>2, <2>3, <2>4, <2>5
       DEF vars, Tick, Create, Get, Checkpoint
<1> QED
  BY <1>1, <1>2, TypeCorrect, PTL DEF Spec

(* With process-specific worker ids, two contexts never both believe that  *)
(* they hold the same execution.                                           *)
THEOREM LiveClaimsAreExclusive == Spec => []LiveClaimExclusive
<1>1. ExclusionInv => LiveClaimExclusive
  BY DEF ExclusionInv, ClaimsAreOwned, BeliefIsGrant, LiveClaimExclusive, Believes,
         ProcessSpecific
<1> QED
  BY <1>1, ExclusionInvariant, PTL

-------------------------------------------------------------------------------
(* Expiry *)

(* No lease reaches further than one LeaseDuration into the future.        *)
THEOREM LeasesAreBounded == Spec => []LeaseBounded
<1>1. Init => LeaseBounded
  BY DEF Init, LeaseBounded, NoLease
<1>2. TypeOK /\ TypeOK' /\ LeaseBounded /\ [Next]_vars => LeaseBounded'
  <2> SUFFICES ASSUME TypeOK, TypeOK', LeaseBounded, [Next]_vars, NEW e \in Executions
               PROVE  leases'[e].until <= now' + LeaseDuration
    BY DEF LeaseBounded
  <2>0. /\ now \in Nat /\ now' \in Nat
        /\ leases[e].until \in Nat /\ leases[e].until <= now + LeaseDuration
    BY DEF LeaseBounded, TypeOK, Lease
  <2>1. ASSUME UNCHANGED leases, now' >= now
        PROVE  leases'[e].until <= now' + LeaseDuration
    BY <2>0, <2>1
  <2>2. ASSUME NEW c \in Contexts, NEW t \in ClockReadings, NEW granted,
               GrantsTo(c, t, granted), TakeLeases(c, granted)
        PROVE  leases'[e].until <= now' + LeaseDuration
    BY <2>0, <2>2, ClockReadingType DEF GrantsTo, TakeLeases
  <2>3. ASSUME NEW c \in Contexts, NEW x \in Executions, ReleaseExecution(c, x)
        PROVE  leases'[e].until <= now' + LeaseDuration
    BY <2>0, <2>3 DEF ReleaseExecution, TypeOK, Freed, NoLease
  <2>4. ASSUME NEW c \in Contexts, NEW x \in Executions, NEW t \in ClockReadings,
               RenewExecution(c, x, t)
        PROVE  leases'[e].until <= now' + LeaseDuration
    <3>1. Renewed(leases[x], t).until = t + LeaseDuration
      BY DEF Renewed, TypeOK, Lease
    <3> QED
      BY <2>0, <2>4, <3>1, ClockReadingType DEF RenewExecution, TypeOK
  <2> QED
    BY StepCases, <2>0, <2>1, <2>2, <2>3, <2>4
       DEF vars, Tick, Abandon, Create, Get, Checkpoint
<1> QED
  BY <1>1, <1>2, TypeCorrect, PTL DEF Spec

(* Leases are bounded and live claims exclusive.                           *)
THEOREM LeasesAreSound == Spec => []LeasesSound
BY TypeCorrect, LeasesAreBounded, LiveClaimsAreExclusive, PTL DEF LeasesSound

(* Tokens name one owner, and the holder has the newest.                   *)
THEOREM FencingIsSound == Spec => []FencingSound
BY TokensNameOneOwner, HoldersHaveNewestToken, PTL DEF FencingSound
===============================================================================
