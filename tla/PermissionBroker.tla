-------------------------- MODULE PermissionBroker --------------------------
(* Raven's permissionBroker between two goroutines: the run, whose callback *)
(* CanUseTool blocks until there is an answer, and the terminal loop, which *)
(* shows a dialog for every request it reads from the event stream and      *)
(* resolves it. Either may come first. Raven's run context ends only with   *)
(* the program, so that the callback's own cancellation is left out.        *)
EXTENDS Integers, FiniteSets

CONSTANT MaxAsks        \* the requests of the conversation
Asks == 1 .. MaxAsks

ASSUME BrokerAssumption == MaxAsks \in Nat

VARIABLES
    ask,                \* request -> [edit, batch]: its tool, its event
    emitted,            \* the number of events emitted
    callback,           \* request -> where its CanUseTool is
    broker,             \* allowEdits, waiters, early, and the waiters' channels
    dialog,             \* the request shown, or 0; whether edits are being enabled
    chosen              \* request -> what the user chose
brokerVars == <<ask, emitted, callback, broker, dialog, chosen>>

(* Write and Edit are the tools of medium risk that are idempotent; they    *)
(* are not parallel-safe, so that each is asked about in an event of its own.*)
Conversations ==
    {a \in [Asks -> [edit : BOOLEAN, batch : Asks]] :
        \A r, q \in Asks : r < q =>
           /\ a[r].batch <= a[q].batch
           /\ a[r].edit \/ a[q].edit => a[r].batch # a[q].batch}

BrokerStarts ==
    /\ emitted = 0
    /\ callback = [r \in Asks |-> "before"]
    /\ broker = [allowEdits |-> FALSE, waiters |-> {},
                 early |-> [r \in Asks |-> "none"], sent |-> [r \in Asks |-> "none"]]
    /\ dialog = [shown |-> 0, enabling |-> FALSE]
    /\ chosen = [r \in Asks |-> "none"]

BrokerInit == ask \in Conversations /\ BrokerStarts

Over(r) == callback[r] \in {"allow", "deny"}

EmitEvent ==
    /\ \A r \in Asks : ask[r].batch <= emitted => Over(r)
    /\ emitted < MaxAsks /\ emitted' = emitted + 1
    /\ UNCHANGED <<ask, callback, broker, dialog, chosen>>

(* Mutant: a response that came early is not looked for.                    *)
CanUseToolMissingEarly(r) ==
    /\ callback[r] = "before" /\ ask[r].batch <= emitted
    /\ \A q \in Asks : q < r => Over(q)
    /\ IF broker.allowEdits /\ ask[r].edit
       THEN callback' = [callback EXCEPT ![r] = "allow"] /\ UNCHANGED broker
       ELSE /\ callback' = [callback EXCEPT ![r] = "waiting"]
            /\ broker' = [broker EXCEPT !.waiters = @ \cup {r}]
    /\ UNCHANGED <<ask, emitted, dialog, chosen>>

(* CanUseTool, up to the select.                                            *)
CanUseTool(r) ==
    /\ callback[r] = "before" /\ ask[r].batch <= emitted
    /\ \A q \in Asks : q < r => Over(q)
    /\ CASE broker.allowEdits /\ ask[r].edit ->
              callback' = [callback EXCEPT ![r] = "allow"] /\ UNCHANGED broker
         [] ~(broker.allowEdits /\ ask[r].edit) /\ broker.early[r] # "none" ->
              /\ callback' = [callback EXCEPT ![r] = broker.early[r]]
              /\ broker' = [broker EXCEPT !.early[r] = "none"]
         [] OTHER ->
              /\ callback' = [callback EXCEPT ![r] = "waiting"]
              /\ broker' = [broker EXCEPT !.waiters = @ \cup {r}]
    /\ UNCHANGED <<ask, emitted, dialog, chosen>>

Answered(r) ==
    /\ callback[r] = "waiting" /\ broker.sent[r] # "none"
    /\ callback' = [callback EXCEPT ![r] = broker.sent[r]]
    /\ UNCHANGED <<ask, emitted, broker, dialog, chosen>>

-----------------------------------------------------------------------------
(* runPromptInteractive *)

Resolved(b, r, answer) ==
    IF r \in b.waiters
    THEN [b EXCEPT !.waiters = @ \ {r}, !.sent[r] = answer]
    ELSE [b EXCEPT !.early[r] = answer]

Show(r) ==
    /\ dialog.shown = 0
    /\ ask[r].batch <= emitted /\ chosen[r] = "none"
    /\ \A q \in Asks : q < r => chosen[q] # "none"
    /\ dialog' = [dialog EXCEPT !.shown = r]
    /\ UNCHANGED <<ask, emitted, callback, broker, chosen>>

(* Y and N, and a terminal whose input has ended, which denies.             *)
Choose(r) ==
    /\ dialog = [shown |-> r, enabling |-> FALSE]
    /\ \E answer \in {"allow", "deny"} :
          /\ chosen' = [chosen EXCEPT ![r] = answer]
          /\ broker' = Resolved(broker, r, answer)
    /\ dialog' = [dialog EXCEPT !.shown = 0]
    /\ UNCHANGED <<ask, emitted, callback>>

(* A: edits are enabled first, and then this request is resolved.           *)
ChooseAll(r) ==
    /\ dialog = [shown |-> r, enabling |-> FALSE]
    /\ chosen' = [chosen EXCEPT ![r] = "all"]
    /\ broker' = [broker EXCEPT !.allowEdits = TRUE]
    /\ dialog' = [dialog EXCEPT !.enabling = TRUE]
    /\ UNCHANGED <<ask, emitted, callback>>

AllResolves(r) ==
    /\ dialog = [shown |-> r, enabling |-> TRUE]
    /\ broker' = Resolved(broker, r, "allow")
    /\ dialog' = [shown |-> 0, enabling |-> FALSE]
    /\ UNCHANGED <<ask, emitted, callback, chosen>>

BrokerNext ==
    \/ EmitEvent
    \/ \E r \in Asks : \/ CanUseTool(r) \/ Answered(r)
                       \/ Show(r) \/ Choose(r) \/ ChooseAll(r) \/ AllResolves(r)

-----------------------------------------------------------------------------
(* What the user answers reaches, in the end, the callback that waits for   *)
(* it, whichever of the two came first (cmd/raven/permission_broker.go).    *)
AnswersArrived == \A r \in Asks : chosen[r] # "none" => Over(r)

(* The dialog pauses the call: what the user denies is not allowed.         *)
DenialHonoured ==
    \A r \in Asks : chosen[r] = "deny" => callback[r] # "allow"
=============================================================================
