------------------------- MODULE ObservationIntake -------------------------
(* How observed events reach the trace of a demonstration: signed business  *)
(* events over HTTP (observation/httpadapter), browser events from the      *)
(* application itself (observation/browseradapter), the redactor at the     *)
(* boundary (data_policy.go) and the recorder with its store (recorder.go,  *)
(* model.go). Producers sign, retry and sign again; the network loses,      *)
(* delays, repeats and reorders what they send; several handlers work at    *)
(* once, and the demonstration is completed under them.                     *)
(*                                                                          *)
(* A payload is a tree: a set of nodes [path, kind] with kind object, list, *)
(* raw or masked; the first element of a path is its scope (input, output,  *)
(* ...), and an item of a list has the path element Item. Rules are [path,  *)
(* star, action], where star stands for a trailing ".*".                    *)
EXTENDS Integers, Sequences, FiniteSets, SequencesExt, FiniteSetsExt

CONSTANTS
    Events,             \* [id, tenant, time, corrects, tree, via, whole]
    Handlers,           \* requests served at once
    Rules,              \* the rules of the redactor
    InitialContext,     \* payload given to Start
    FinalResult,        \* payload given to Complete
    Tenant,             \* the tenant of the demonstration
    MaxClockSkew,       \* the option
    MaxTime, MaxKey, MaxSent,   \* bounds: clock, secrets of a tenant, requests under way
    Item, ReplayKeys

ASSUME IntakeAssumption ==
    \A e \in Events : /\ DOMAIN e = {"id", "tenant", "time", "corrects", "tree", "via", "whole"}
                      /\ e.time \in Nat

(* A payload: paths of two or more elements, the first of them a scope, of  *)
(* nodes in objects and lists.                                              *)
IsPath(path) == path \in Seq(Range(path))
IsPayload(tree) ==
    \A n \in tree :
        /\ n = [path |-> n.path, kind |-> n.kind]
        /\ IsPath(n.path) /\ Len(n.path) > 1 /\ Head(n.path) \notin ReplayKeys
        /\ \A k \in 2..Len(n.path) - 1 :
              \E m \in tree : /\ m.path = SubSeq(n.path, 1, k)
                              /\ n.path[k + 1] # Item => m.kind = "object"

ASSUME PayloadAssumption ==
    IsPayload(InitialContext) /\ IsPayload(FinalResult) /\ \A e \in Events : IsPayload(e.tree)

(* validRedactionPath: a scope and a field, or a scope and a star.          *)
ASSUME RulesAssumption ==
    /\ IsFiniteSet(Rules)
    /\ \A r \in Rules : /\ IsPath(r.path) /\ Len(r.path) > IF r.star THEN 0 ELSE 1
                        /\ r.action \in {"drop", "mask"}

VARIABLES
    now,                \* the clock of the server
    secret,             \* tenant |-> the number of its current secret
    sent,               \* signed requests on the network
    serving,            \* handler |-> {} or {[at, event, stored]}
    demonstration,      \* [status, events, initial, final]
    replies             \* history: <<event id, response>>
intakeVars == <<now, secret, sent, serving, demonstration, replies>>

SecretTenants == {e.tenant : e \in {f \in Events : f.via = "http"}}

-----------------------------------------------------------------------------
(* Redaction *)

(* The nodes a rule hits: the exact path, or every child of an object.      *)
Hits(rule, tree) ==
    LET paths == {n.path : n \in tree}
    IN  IF rule.star
        THEN IF Len(rule.path) = 1 \/ [path |-> rule.path, kind |-> "object"] \in tree
             THEN {p \in paths : Len(p) = Len(rule.path) + 1 /\ IsPrefix(rule.path, p)} ELSE {}
        ELSE {rule.path} \cap paths

(* applyRedaction: what was under a hit is gone, a masked node is a string. *)
ApplyRedaction(tree, rule) ==
    LET hits == Hits(rule, tree)
        below == {n \in tree : \E p \in hits : IsPrefix(p, n.path)}
    IN  (tree \ below) \cup IF rule.action = "drop" THEN {}
                            ELSE {[path |-> p, kind |-> "masked"] : p \in hits}

(* SanitizeMap, SanitizeEvent: the rules of a scope, in the order the map   *)
(* of rules is walked, which is a new one each time.                        *)
Orders == SetToSeqs(Rules)
SanitizeMap(tree, order) == FoldLeft(ApplyRedaction, tree, order)

(* rejectReplayData, rejectReplayValue: the browser adapter refuses a       *)
(* replay key at any depth, also inside lists. Payloads are made of         *)
(* map[string]interface{} and []interface{}, as decoded JSON is: it does    *)
(* not look into any other Go map or slice an application may pass.         *)
RejectReplayData(tree) ==
    \E n \in tree : \E k \in 2..Len(n.path) : n.path[k] \in ReplayKeys

-----------------------------------------------------------------------------
(* Traces *)

EventIds(events) == {e.id : e \in Range(events)}

(* ValidateAppend: "" or the kind of the refusal.                           *)
ValidateAppend(events, e) ==
    IF e.id \in EventIds(events) THEN "conflict"
    ELSE IF \/ ~(e.corrects \subseteq EventIds(events))
            \/ events # <<>> /\ e.time < Last(events).time
         THEN "validation" ELSE ""

(* writeCaptureError *)
Response(refusal) ==
    CASE refusal = "conflict" -> 409 [] refusal = "validation" -> 400
      [] refusal = "permission" -> 403 [] refusal = "notfound" -> 404

IntakeInit ==
    /\ now = 0 /\ sent = {} /\ replies = {}
    /\ secret = [t \in SecretTenants |-> 1]
    /\ serving = [h \in Handlers |-> {}]
    /\ demonstration = [status |-> "none", events |-> <<>>, initial |-> {}, final |-> {}]

(* Recorder.Start *)
StartRecording ==
    /\ demonstration.status = "none"
    /\ \E order \in Orders :
          demonstration' = [demonstration EXCEPT !.status = "recording",
                               !.initial = SanitizeMap(InitialContext, order)]
    /\ UNCHANGED <<now, secret, sent, serving, replies>>

(* Recorder.Complete, MemoryStore.Complete. Nothing it could find wrong     *)
(* with the trace can be in it, see CapturedOnce.                           *)
Complete ==
    /\ demonstration.status = "recording"
    /\ \E order \in Orders :
          demonstration' = [demonstration EXCEPT !.status = "completed",
                               !.final = SanitizeMap(FinalResult, order)]
    /\ UNCHANGED <<now, secret, sent, serving, replies>>

-----------------------------------------------------------------------------
(* Producers, time and the secret manager *)

(* A producer signs an event that has happened, or signs it again.          *)
Sign(e) ==
    /\ e.via = "http" /\ e.time <= now
    /\ Cardinality(sent) < MaxSent
    /\ sent' = sent \cup {[event |-> e, at |-> now, key |-> secret[e.tenant]]}
    /\ UNCHANGED <<now, secret, serving, demonstration, replies>>

Lose(request) ==
    /\ sent' = sent \ {request}
    /\ UNCHANGED <<now, secret, serving, demonstration, replies>>

Tick ==
    /\ now < MaxTime
    /\ now' = now + 1
    /\ UNCHANGED <<secret, sent, serving, demonstration, replies>>

RotateSecret(t) ==
    /\ secret[t] < MaxKey
    /\ secret' = [secret EXCEPT ![t] = @ + 1]
    /\ UNCHANGED <<now, sent, serving, demonstration, replies>>

-----------------------------------------------------------------------------
(* A request *)

(* Only the answers that end a producer's retries are remembered.           *)
Respond(h, e, code) ==
    /\ serving' = [serving EXCEPT ![h] = {}]
    /\ replies' = IF code \in {201, 409} THEN replies \cup {<<e.id, code>>} ELSE replies

(* Authenticate: a fresh timestamp signed with the secret of the identity.  *)
Authenticates(request) ==
    /\ now - request.at <= MaxClockSkew
    /\ request.key = secret[request.event.tenant]

(* ServeHTTP up to the sink: method, size and form of the body are "whole". *)
(* The request stays on the network, and may arrive again.                  *)
Arrive(h, request) ==
    /\ serving[h] = {}
    /\ IF ~Authenticates(request) THEN Respond(h, request.event, 401)
       ELSE IF ~request.event.whole THEN Respond(h, request.event, 400)
       ELSE /\ serving' = [serving EXCEPT ![h] = {[at |-> "lookup", event |-> request.event]}]
            /\ UNCHANGED replies
    /\ UNCHANGED <<now, secret, sent, demonstration>>

(* browseradapter.Capture: the principal is the caller's, and there is      *)
(* nothing to retry but the call.                                           *)
BrowserCapture(h, e) ==
    /\ serving[h] = {} /\ e.via = "browser" /\ e.time <= now
    /\ IF ~e.whole \/ RejectReplayData(e.tree) THEN Respond(h, e, 400)
       ELSE serving' = [serving EXCEPT ![h] = {[at |-> "lookup", event |-> e]}] /\ UNCHANGED replies
    /\ UNCHANGED <<now, secret, sent, demonstration>>

(* Recorder.Capture: the demonstration as it is now, the tenant, the        *)
(* redactor, and the first look at the trace.                               *)
LookupRefusal(e) ==
    IF demonstration.status = "none" THEN "notfound"
    ELSE IF e.tenant # Tenant THEN "permission"
    ELSE IF demonstration.status # "recording" THEN "conflict"
    ELSE ValidateAppend(demonstration.events, e)

Lookup(h) ==
    \E s \in serving[h] :
        /\ s.at = "lookup"
        /\ IF LookupRefusal(s.event) # ""
           THEN Respond(h, s.event, Response(LookupRefusal(s.event)))
           ELSE \E order \in Orders :
                   /\ serving' = [serving EXCEPT ![h] =
                        {[at |-> "append", event |-> s.event,
                          stored |-> [s.event EXCEPT !.tree = SanitizeMap(@, order)]]}]
                   /\ UNCHANGED replies
        /\ UNCHANGED <<now, secret, sent, demonstration>>

(* Store.Append: everything is looked at again under the lock.              *)
(* Mutant: the store trusts the recorder's look at the trace.               *)
AppendTrusting(h) ==
    \E s \in serving[h] :
        /\ s.at = "append"
        /\ IF demonstration.status # "recording" THEN Respond(h, s.event, 409) /\ UNCHANGED demonstration
           ELSE /\ demonstration' = [demonstration EXCEPT !.events = Append(@, s.stored)]
                /\ Respond(h, s.event, 201)
        /\ UNCHANGED <<now, secret, sent>>

AppendRefusal(e) ==
    IF demonstration.status # "recording" THEN "conflict" ELSE ValidateAppend(demonstration.events, e)

AppendEvent(h) ==
    \E s \in serving[h] :
        /\ s.at = "append"
        /\ IF AppendRefusal(s.stored) # ""
           THEN Respond(h, s.event, Response(AppendRefusal(s.stored))) /\ UNCHANGED demonstration
           ELSE /\ demonstration' = [demonstration EXCEPT !.events = Append(@, s.stored)]
                /\ Respond(h, s.event, 201)
        /\ UNCHANGED <<now, secret, sent>>

(* The context of the request ends: every store call refuses.               *)
RequestCanceled(h) ==
    \E s \in serving[h] : Respond(h, s.event, 408) /\ UNCHANGED <<now, secret, sent, demonstration>>

IntakeNext ==
    \/ StartRecording \/ Complete \/ Tick
    \/ \E e \in Events : Sign(e)
    \/ \E request \in sent : Lose(request)
    \/ \E t \in SecretTenants : RotateSecret(t)
    \/ \E h \in Handlers :
          \/ \E request \in sent : Arrive(h, request)
          \/ \E e \in Events : BrowserCapture(h, e)
          \/ Lookup(h) \/ AppendEvent(h) \/ RequestCanceled(h)

IntakeSpec == IntakeInit /\ [][IntakeNext]_intakeVars

-----------------------------------------------------------------------------
(* Properties *)

(* Whatever is retried, repeated or served twice at once: an event is in    *)
(* the trace at most once, events are in the order in which they happened,  *)
(* a correction follows what it corrects, all are of the tenant of the      *)
(* demonstration, and an event answered with 201 is there.                  *)
CapturedOnce ==
    LET events == demonstration.events
    IN  /\ IsInjective([k \in DOMAIN events |-> events[k].id])
        /\ \A k \in DOMAIN events :
              /\ events[k].tenant = Tenant
              /\ \A j \in 1..k - 1 : events[j].time <= events[k].time
              /\ events[k].corrects \subseteq {events[j].id : j \in 1..k - 1}
        /\ \A r \in replies : r[2] = 201 => r[1] \in EventIds(events)

(* A node a rule covers: its path, or a value under an object with a star.  *)
Covered(path) ==
    \E rule \in Rules : IsPrefix(rule.path, path) /\ (rule.star => Len(path) > Len(rule.path))

(* Nothing a rule covers is in a trace in the clear, nor a replay key of a  *)
(* browser event, and what is stored does not depend on the order in which  *)
(* Go walked the map of rules. A list is not an object: a star on it and a  *)
(* rule through it reach nothing.                                           *)
Clean(tree) ==
    \A n \in tree : n.kind = "raw" /\ Item \notin Range(n.path) => ~Covered(n.path)

TracesClean ==
    /\ \A k \in DOMAIN demonstration.events :
          LET e == demonstration.events[k]
          IN  /\ Clean(e.tree)
              /\ e.via = "browser" => \A n \in e.tree : Range(n.path) \cap ReplayKeys = {}
              /\ \E original \in Events :
                    /\ e = [original EXCEPT !.tree = e.tree]
                    /\ \A order \in Orders : e.tree = SanitizeMap(original.tree, order)
    /\ Clean(demonstration.initial) /\ Clean(demonstration.final)

(* What is captured is captured once, in order, and without what it must    *)
(* not hold.                                                                *)
IntakeSound == CapturedOnce /\ TracesClean

(* docs/OBSERVATION_ADAPTERS.md: "Retrying the same signed event then       *)
(* produces one capture and subsequent 409 event_conflict responses."       *)
ConflictMeansCaptured ==
    \A r \in replies : r[2] = 409 => r[1] \in EventIds(demonstration.events)
=============================================================================
