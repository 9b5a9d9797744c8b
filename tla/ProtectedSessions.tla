------------------------- MODULE ProtectedSessions -------------------------
(***************************************************************************)
(* sessions.ProtectedStore: an authenticated, encrypting store around one  *)
(* session of a plain store.  Each operation first loads the session and   *)
(* checks its owner (authorizeSession), and only then calls the inner      *)
(* store: two calls, between which other clients may run.  UpdateTask      *)
(* reads the task between them and writes the whole payload back.          *)
(*                                                                         *)
(* A payload is the actor it was encrypted for; ciphertexts, prefixes and  *)
(* JSON are left out.  A tenant and an actor are one value, the actor.     *)
(***************************************************************************)
EXTENDS Naturals, Sequences

CONSTANTS
    Clients,        \* the concurrent callers
    ActorOf,        \* the authenticated actor of each caller
    NoActor,        \* the owner of a row nobody claimed, and no payload
    MaxStored       \* bound on the messages stored

\* An authenticated caller has an actor.
ASSUME ActorsAssumption == \A c \in Clients : ActorOf[c] # NoActor

VARIABLES
    durable,        \* the inner store is the SQLite one (it never changes)
    inner,          \* the session in the inner store
    client,         \* what each caller is doing
    raced           \* a deletion overlapped another call (history variable)

pvars == <<durable, inner, client, raced>>

\* Operations that authorize with one inner call and act with another.
Ops == {"loadMessages", "append", "updateMeta", "setSkills", "delete",
        "createTask", "getTask", "updateTask", "deleteTask"}

NoRow == [exists |-> FALSE, owner |-> NoActor, meta |-> NoActor, skills |-> NoActor,
          task |-> NoActor, messages |-> <<>>]

Idle == [phase |-> "idle", op |-> "none"]

PInit ==
    /\ durable \in BOOLEAN
    /\ inner = NoRow
    /\ client = [c \in Clients |-> Idle]
    /\ raced = FALSE

\* unprotectValue: the envelope names the caller.  NoActor stands for a payload
\* that is not there.
Decodes(c, payload) == payload = ActorOf[c]

\* Mutant: only the skills are decoded, neither owner nor metadata.
DecodesSkills(c) == inner.skills = NoActor \/ Decodes(c, inner.skills)

\* decodeRecord: the visible owner is the caller, and metadata and skills decode.
DecodesRecord(c) ==
    /\ inner.owner = ActorOf[c]
    /\ Decodes(c, inner.meta)
    /\ inner.skills = NoActor \/ Decodes(c, inner.skills)

\* protectMeta and protectValue encrypt for the caller.
Protected(c) == ActorOf[c]

\* The inner store writes to a session whose row is gone: the SQLite store
\* inserts a row with empty metadata, the memory store only keeps the data.
Ensured(row) == IF durable THEN [row EXCEPT !.exists = TRUE] ELSE row

\* Create: one inner call; an existing row is returned unless it does not decode.
PCreate(c) ==
    /\ client[c] = Idle
    /\ inner' = IF inner.exists THEN inner
                ELSE [inner EXCEPT !.exists = TRUE, !.owner = ActorOf[c], !.meta = Protected(c)]
    /\ UNCHANGED <<durable, client, raced>>

\* authorizeSession: a missing row, another owner or an undecodable record end
\* the call with an error.
Authorize(c, op) ==
    /\ client[c] = Idle
    /\ inner.exists
    /\ DecodesRecord(c)
    /\ client' = [client EXCEPT ![c] = [phase |-> "authorized", op |-> op]]
    /\ UNCHANGED <<durable, inner, raced>>

\* GetTask inside UpdateTask: the current payload is decoded before the write.
ReadTask(c) ==
    /\ client[c] = [phase |-> "authorized", op |-> "updateTask"]
    /\ client' = [client EXCEPT ![c] = IF Decodes(c, inner.task)
                                       THEN [phase |-> "read", op |-> "updateTask"]
                                       ELSE Idle]
    /\ UNCHANGED <<durable, inner, raced>>

\* The second inner call of an operation: the row it finds may no longer be the
\* one that was authorized.
AppendMessagesEffect(c) == [Ensured(inner) EXCEPT !.messages = Append(@, Protected(c))]

UpdateMetaEffect(c) ==
    IF inner.exists THEN [inner EXCEPT !.owner = ActorOf[c], !.meta = Protected(c)] ELSE inner

SetInvokedSkillsEffect(c) == [Ensured(inner) EXCEPT !.skills = Protected(c)]

CreateTaskEffect(c) == [Ensured(inner) EXCEPT !.task = Protected(c)]

UpdateTaskEffect(c) ==
    IF inner.task = NoActor THEN inner ELSE [inner EXCEPT !.task = Protected(c)]

Effect(c, op) ==
    CASE op \in {"loadMessages", "getTask"} -> inner
      [] op = "append" -> AppendMessagesEffect(c)
      [] op = "updateMeta" -> UpdateMetaEffect(c)
      [] op = "setSkills" -> SetInvokedSkillsEffect(c)
      [] op = "delete" -> NoRow
      [] op = "createTask" -> CreateTaskEffect(c)
      [] op = "updateTask" -> UpdateTaskEffect(c)
      [] op = "deleteTask" -> [inner EXCEPT !.task = NoActor]

Act(c) ==
    LET op == client[c].op
    IN  /\ client[c].phase = IF op = "updateTask" THEN "read" ELSE "authorized"
        /\ op = "append" => Len(inner.messages) < MaxStored
        /\ inner' = Effect(c, op)
        /\ client' = [client EXCEPT ![c] = Idle]
        /\ raced' = (raced \/ (op = "delete" /\ \E d \in Clients \ {c} : client[d] # Idle))
        /\ UNCHANGED durable

PNext ==
    \E c \in Clients :
        PCreate(c) \/ ReadTask(c) \/ Act(c) \/ \E op \in Ops : Authorize(c, op)

PSpec == PInit /\ [][PNext]_pvars

-----------------------------------------------------------------------------
\* Properties

\* The owner was checked on an earlier load than the write.  Unless a deletion
\* overlapped another call, everything stored in the session is still bound to
\* its owner, so that every read of the owner decodes; and a session that does
\* not exist holds nothing.
BoundToOwner ==
    ~raced =>
        /\ {inner.meta, inner.skills, inner.task} \subseteq {inner.owner, NoActor}
        /\ \A i \in DOMAIN inner.messages : inner.messages[i] = inner.owner
        /\ inner.exists = (inner.owner # NoActor)
        /\ \A c \in Clients : client[c] # Idle => inner.owner = ActorOf[c]
=============================================================================
