------------------------------ MODULE MCStores ------------------------------
(***************************************************************************)
(* TLC instance of what keeps data: the session stores, the store that     *)
(* protects sessions, the protection of the database, the records of the   *)
(* tenants and the intake of observations. They share no state: the rigid  *)
(* variable focus says which of them moves, so that their state spaces add *)
(* up and do not multiply.                                                 *)
(*                                                                         *)
(* Three tasks let a cycle close through a task the edit does not name;    *)
(* patches that name two ends may add and remove the same edge. Three      *)
(* callers of two actors let two callers share a session and a third one   *)
(* claim it after a deletion. Two processes over one database share two    *)
(* keys and a document, whose versions are what the others would hold. Two *)
(* tenants have two ids, two groups and two seconds and a half, with       *)
(* periods of a second and of one and a half. Two handlers take a business *)
(* event and its correction, an event of another tenant and two browser    *)
(* events, under rules that overlap, drop and mask.                        *)
(***************************************************************************)
EXTENDS SessionStores, ProtectedSessions, StorageProtection, TenantRecords,
        ObservationIntake

CONSTANTS
    Parts,              \* the parts that may move
    a1, a2, a3,         \* the callers of sessions
    p1, p2, k1, k2, d1,
    t1, t2, i1, i2, g1, g2

VARIABLE focus

-----------------------------------------------------------------------------
(* Values of the constants *)

MCActorOf == [c \in {a1, a2, a3} |-> IF c = a3 THEN "bob" ELSE "alice"]

Node(path, kind) == [path |-> path, kind |-> kind]
Card == {Node(<<"input", "payment">>, "object"), Node(<<"input", "payment", "card">>, "raw"),
         Node(<<"input", "payment", "sum">>, "raw"), Node(<<"input", "note">>, "raw")}
Listed == {Node(<<"input", "payment">>, "list"), Node(<<"input", "payment", "item">>, "object"),
           Node(<<"input", "payment", "item", "card">>, "raw")}
Plain == {Node(<<"context", "token">>, "object"), Node(<<"context", "token", "value">>, "raw")}
Hidden == {Node(<<"input", "where">>, "list"), Node(<<"input", "where", "item">>, "object"),
           Node(<<"input", "where", "item", "x">>, "raw")}

Event(id, tenant, time, corrects, tree, via) ==
    [id |-> id, tenant |-> tenant, time |-> time, corrects |-> corrects, tree |-> tree,
     via |-> via, whole |-> TRUE]
SomeEvents ==
    {Event("pay", "t1", 0, {}, Card, "http"), Event("fix", "t1", 1, {"pay"}, Listed, "http"),
     Event("other", "t2", 0, {}, {}, "browser"),
     Event("click", "t1", 0, {}, Plain, "browser"), Event("drag", "t1", 1, {}, Hidden, "browser")}
SomeRules ==
    {[path |-> <<"input", "payment">>, star |-> TRUE, action |-> "drop"],
     [path |-> <<"input", "payment", "card">>, star |-> FALSE, action |-> "mask"],
     [path |-> <<"context", "token">>, star |-> FALSE, action |-> "mask"]}

(* What differs in nothing but its name; the records have most to gain.     *)
Symmetric == Permutations({t1, t2}) \cup Permutations({i1, i2}) \cup Permutations({g1, g2})

-----------------------------------------------------------------------------

(* A part at rest has one initial state.                                    *)
MCInit ==
    /\ focus \in Parts
    /\ Init /\ PInit /\ StorageInit /\ RecordsInit /\ IntakeInit
    /\ focus # "protected sessions" => durable
    /\ focus # "protection" => keyring = [p \in Processes |-> FirstKey(k1)]
    /\ focus # "records" => class = "execution" /\ sealed

MCNext ==
    /\ UNCHANGED focus
    /\ \/ focus = "sessions" /\ Next
          /\ UNCHANGED <<pvars, storageVars, recordVars, intakeVars>>
       \/ focus = "protected sessions" /\ PNext
          /\ UNCHANGED <<vars, storageVars, recordVars, intakeVars>>
       \/ focus = "protection" /\ StorageNext
          /\ UNCHANGED <<vars, pvars, recordVars, intakeVars>>
       \/ focus = "records" /\ RecordsNext
          /\ UNCHANGED <<vars, pvars, storageVars, intakeVars>>
       \/ focus = "intake" /\ IntakeNext
          /\ UNCHANGED <<vars, pvars, storageVars, recordVars>>

MCSpec == MCInit /\ [][MCNext]_<<vars, pvars, storageVars, recordVars, intakeVars, focus>>
=============================================================================
