----------------------------- MODULE Approvals -----------------------------
(* The approval stores (memory and SQLite) behind AuthorizedApprovalStore,  *)
(* which reads an approval, lets ApprovalRolePolicy judge the transition on *)
(* what it read, and only then asks the store for it. A user of another     *)
(* tenant, the clock, and requests under an id that is taken are there.     *)
EXTENDS Integers, FiniteSets

CONSTANTS
    ApprovalIds,
    People,             \* actors
    Tenant(_),          \* the tenant of an actor
    MayDecide,          \* the actors whose roles give the approval capabilities
    RequireDistinctApprover,   \* the option of the role policy, off by default
    Nobody,
    MaxTime,            \* bound: the clock
    MaxRequests         \* bound: requests made

Statuses == {"pending", "granted", "rejected", "expired", "canceled"}
Operations == {"granted", "rejected", "canceled"}

ASSUME ApprovalsAssumption ==
    /\ Nobody \notin People /\ MayDecide \subseteq People
    /\ RequireDistinctApprover \in BOOLEAN
    /\ MaxTime \in Nat /\ MaxRequests \in Nat

VARIABLES
    durable,            \* whether the store is the SQLite one
    approvals,          \* the rows
    requests,           \* how many requests were made
    clock,
    decision            \* actor -> the authorized transition it is in the middle of
approvalVars == <<durable, approvals, requests, clock, decision>>

NoApproval == [status |-> "none", by |-> Nobody, tenant |-> "none", due |-> 0,
               decider |-> Nobody, at |-> 0, request |-> 0]
Idle == [operation |-> "none", id |-> "none"]

ApprovalsStart ==
    /\ approvals = [a \in ApprovalIds |-> NoApproval]
    /\ requests = 0 /\ clock = 0
    /\ decision = [p \in People |-> Idle]

ApprovalsInit == durable \in BOOLEAN /\ ApprovalsStart

Visible(a, p) == approvals[a].status # "none" /\ approvals[a].tenant = Tenant(p)

RequestedBy(p, due) ==
    [status |-> "pending", by |-> p, tenant |-> Tenant(p), due |-> due,
     decider |-> Nobody, at |-> 0, request |-> requests + 1]

(* Request: pending, and in the actor's name whatever the document says.    *)
(* SQLite inserts a row, the memory store replaces what has the id. An      *)
(* approval may be due at some later time, or never (due 0).                *)
Request(p, a) ==
    /\ requests < MaxRequests
    /\ durable => approvals[a].status = "none"
    /\ \E due \in {0} \cup (clock + 1 .. MaxTime) :
          approvals' = [approvals EXCEPT ![a] = RequestedBy(p, due)]
    /\ requests' = requests + 1
    /\ UNCHANGED <<durable, clock, decision>>

(* AuthorizeApproval: capabilities, and for a grant, where the policy asks  *)
(* for it, another actor than the one who made the request.                 *)
Authorized(p, a, operation) ==
    /\ p \in MayDecide
    /\ operation = "granted" /\ RequireDistinctApprover => approvals[a].by # p

(* AuthorizedApprovalStore.Decide and Cancel, up to the authorization.      *)
Authorize(p, a, operation) ==
    /\ decision[p] = Idle
    /\ Visible(a, p) /\ Authorized(p, a, operation)
    /\ decision' = [decision EXCEPT ![p] = [operation |-> operation, id |-> a]]
    /\ UNCHANGED <<durable, approvals, requests, clock>>

(* transitionLocked, and the transaction of the SQLite store.               *)
(* Mutant: the status the row has is not looked at again.                   *)
TransitionAnyway(p, a, status) ==
    /\ Visible(a, p)
    /\ approvals' = [approvals EXCEPT ![a].status = status, ![a].decider = p, ![a].at = clock]

Transition(p, a, status) ==
    /\ Visible(a, p)
    /\ approvals[a].status = "pending"
    /\ approvals' = [approvals EXCEPT ![a].status = status, ![a].decider = p, ![a].at = clock]

(* The store transitions the row, or refuses what is no longer pending.     *)
Decide(p) ==
    LET d == decision[p]
    IN /\ d # Idle
       /\ decision' = [decision EXCEPT ![p] = Idle]
       /\ \/ Transition(p, d.id, d.operation)
          \/ UNCHANGED approvals
       /\ UNCHANGED <<durable, requests, clock>>

(* Expiration needs no capability, only that the approval is due.           *)
Expire(p, a) ==
    /\ approvals[a].due # 0 /\ clock >= approvals[a].due
    /\ Transition(p, a, "expired")
    /\ UNCHANGED <<durable, requests, clock, decision>>

Tick ==
    /\ clock < MaxTime /\ clock' = clock + 1
    /\ UNCHANGED <<durable, approvals, requests, decision>>

ApprovalsNext ==
    \/ \E p \in People, a \in ApprovalIds :
          \/ Request(p, a) \/ Expire(p, a)
          \/ \E operation \in Operations : Authorize(p, a, operation)
    \/ \E p \in People : Decide(p)
    \/ Tick

ApprovalsSpec == ApprovalsInit /\ [][ApprovalsNext]_approvalVars

-----------------------------------------------------------------------------
(* A decision stands: whatever was granted, rejected, expired or cancelled  *)
(* keeps its status, its decider and its time, against late decisions that  *)
(* were authorized while it was pending and against requests that reuse its *)
(* id, in the SQLite store; in the memory store until such a request        *)
(* replaces it (policy/policy.go transitionLocked, sqlite approvalStore).   *)
DecisionsStand ==
    [][\A a \in ApprovalIds :
          approvals[a].status \notin {"none", "pending"} =>
             \/ approvals'[a] = approvals[a]
             \/ ~durable /\ approvals'[a].request > approvals[a].request]_approvalVars

(* Separation of duties: in the SQLite store what is granted was granted by *)
(* an actor of its tenant who may, and where distinct approvers are         *)
(* required nobody has granted a request of their own, although what was    *)
(* authorized is the row read before the transaction that grants            *)
(* (AuthorizedApprovalStore.Decide).                                        *)
NobodyGrantsTheirOwn ==
    durable => \A a \in ApprovalIds :
       approvals[a].status = "granted" =>
          /\ approvals[a].decider \in MayDecide
          /\ RequireDistinctApprover => approvals[a].decider # approvals[a].by
          /\ Tenant(approvals[a].decider) = approvals[a].tenant

(* Decisions on approvals are somebody else's, and stand.                   *)
ApprovalsStand == []NobodyGrantsTheirOwn /\ DecisionsStand
=============================================================================
