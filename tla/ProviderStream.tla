--------------------------- MODULE ProviderStream ---------------------------
(* One model turn: the provider's server, the adapter that translates its   *)
(* wire events (Anthropic messages, OpenAI chat, OpenAI responses, or a     *)
(* provider of the application; it stands for the goroutine that reads the  *)
(* body too), and streamTurn, which assembles the        *)
(* message, shows partial output to the consumer and retries. Each stage    *)
(* hands over on an unbuffered channel, so that the adapter reads the next  *)
(* wire event when the session has taken what came of the last one. Of a    *)
(* tool call the number of its argument fragments is kept; the server may   *)
(* send anything in any order.                                              *)
EXTENDS Integers, Sequences, FiniteSets, SequencesExt

CONSTANTS
    CallIds,            \* the tool call ids a server may use
    MaxAttempts,           \* provider attempts of a turn, MaxRetries + 1
    EventLimit,         \* production: MaxProviderEvents
    MaxWire(_)          \* bound: the wire events of a turn, in production or not

Adapters == {"anthropic", "chat", "responses", "custom"}
Indexes == 0 .. 1
NoId == ""
Unset == "unset"        \* a slot the chat adapter has not seen yet

ASSUME StreamAssumption ==
    /\ {NoId, Unset} \cap CallIds = {} /\ CallIds \subseteq STRING
    /\ MaxAttempts \in Nat \ {0} /\ EventLimit \in Nat /\ \A p \in BOOLEAN : MaxWire(p) \in Nat

VARIABLES
    turn,               \* [kind, production, attempt, at, outcome]
    server,             \* the server; all but sent is for the properties
    adapter,            \* the adapter's goroutine
    msg,                \* what the session has assembled in this attempt
    stopped,            \* the run's context
    shown               \* the attempts whose partial output the consumer saw
streamVars == <<turn, server, adapter, msg, stopped, shown>>

Silent == [sent |-> 0, finished |-> FALSE, owner |-> [i \in Indexes |-> NoId],
           said |-> [id \in CallIds |-> 0], started |-> {}, odd |-> FALSE]
FreshStream(kind) ==
    [at |-> "running", pending |-> IF kind = "custom" THEN <<>> ELSE <<[type |-> "message_start"]>>,
     slots |-> [i \in Indexes |-> Unset], stop |-> "end_turn", over |-> FALSE]
Empty == [content |-> <<>>, started |-> {}, ended |-> {}, input |-> [id \in CallIds \cup {NoId} |-> 0],
          open |-> FALSE, closed |-> FALSE, committed |-> FALSE, stop |-> "end_turn", events |-> 0]

StreamStarts(kind, production) ==
    /\ turn = [kind |-> kind, production |-> production, attempt |-> 1,
               at |-> "streaming", outcome |-> "none"]
    /\ server = Silent /\ adapter = FreshStream(kind) /\ msg = Empty
    /\ stopped = FALSE /\ shown = {}

StreamInit == \E kind \in Adapters, production \in BOOLEAN : StreamStarts(kind, production)

-----------------------------------------------------------------------------
(* The wire: what a server sends, and what the adapter makes of it.         *)

ToolEvents(type, id) == <<[type |-> type, id |-> id]>>

(* The chat adapter ends the calls 0 .. len(slots)-1 when the server gives  *)
(* its reason to finish: a call at a later index is not ended.              *)
ChatEnds(slots) ==
    LET seen == Cardinality({i \in Indexes : slots[i] # Unset})
        EndAt(i) == IF i < seen /\ slots[i] \notin {NoId, Unset}
                    THEN ToolEvents("tool_use_end", slots[i]) ELSE <<>>
    IN EndAt(0) \o EndAt(1)

IdAt(i) == IF adapter.slots[i] = Unset THEN NoId ELSE adapter.slots[i]

Translate(events, slots, stop) ==
    adapter' = [adapter EXCEPT !.pending = events, !.slots = slots, !.stop = stop]

Says(s) ==
    /\ adapter.at = "running" /\ adapter.pending = <<>> /\ ~adapter.over
    /\ server.sent < MaxWire(turn.production)
    /\ server' = [s EXCEPT !.sent = @ + 1]
    /\ UNCHANGED <<turn, msg, stopped, shown>>

(* A tool call begins, with its id and name.                                *)
SendStart(i, id) ==
    /\ Says([server EXCEPT !.owner[i] = id, !.started = @ \cup {id},
                           !.odd = @ \/ server.owner[i] # NoId])
    /\ Translate(IF turn.kind = "chat" /\ adapter.slots[i] # Unset
                 THEN <<>> ELSE ToolEvents("tool_use_start", id),
                 [adapter.slots EXCEPT ![i] = id], adapter.stop)

(* A fragment of the arguments. Chat remembers an index it has no id for,   *)
(* and will not announce its call any more.                                 *)
SendDelta(i) ==
    LET id == server.owner[i]
    IN /\ Says(IF id = NoId THEN [server EXCEPT !.odd = TRUE] ELSE [server EXCEPT !.said[id] = @ + 1])
       /\ Translate(IF turn.kind = "chat" /\ IdAt(i) = NoId
                    THEN <<>> ELSE ToolEvents("tool_use_input_delta", IdAt(i)),
                    IF turn.kind = "chat" THEN [adapter.slots EXCEPT ![i] = IdAt(i)]
                                          ELSE adapter.slots, adapter.stop)

SendStop(i) ==
    /\ turn.kind # "chat"
    /\ Says(server)
    /\ Translate(IF turn.kind = "anthropic" /\ IdAt(i) = NoId
                 THEN <<>> ELSE ToolEvents("tool_use_end", IdAt(i)),
                 adapter.slots, adapter.stop)

SendText ==
    /\ Says(server)
    /\ Translate(<<[type |-> "text_delta"]>>, adapter.slots, adapter.stop)

(* The server says how the message ends: message_delta, finish_reason,      *)
(* response.completed. Responses derives the reason from the calls it saw.  *)
SendFinish(reason) ==
    LET called == \E i \in Indexes : adapter.slots[i] # Unset
    IN /\ turn.kind = "responses" => reason # "tool_use" \/ called
       /\ turn.kind = "responses" => reason # "end_turn" \/ ~called
       /\ Says([server EXCEPT !.finished = TRUE])
       /\ Translate(CASE turn.kind = "chat" -> ChatEnds(adapter.slots)
                      [] turn.kind = "custom" -> <<[type |-> "message_end", stop |-> reason]>>
                      [] OTHER -> <<>>,
                    adapter.slots, reason)

SendOpen ==
    /\ turn.kind = "custom"
    /\ Says(server)
    /\ Translate(<<[type |-> "message_start"]>>, adapter.slots, adapter.stop)

(* The body ends. The adapter closes its message whatever came before; only *)
(* a custom provider is left to say so itself.                              *)
CloseBody ==
    /\ adapter.at = "running" /\ adapter.pending = <<>> /\ ~adapter.over
    /\ adapter' = [adapter EXCEPT !.over = TRUE, !.pending =
          IF turn.kind = "custom" THEN <<>> ELSE <<[type |-> "message_end", stop |-> adapter.stop]>>]
    /\ UNCHANGED <<turn, server, msg, stopped, shown>>

(* The request is refused (a status, retryable or not), or the connection,  *)
(* the size of an event or the provider fails.                              *)
FailBody ==
    /\ adapter.at = "running" /\ adapter.pending = <<>> /\ ~adapter.over
    /\ \E retryable \in BOOLEAN :
          /\ turn.kind # "custom" /\ retryable => server.sent = 0
          /\ adapter' = [adapter EXCEPT !.over = TRUE,
                            !.pending = <<[type |-> "error", retryable |-> retryable]>>]
    /\ UNCHANGED <<turn, server, msg, stopped, shown>>

(* The goroutine returns and closes its channel: nothing is left to send,   *)
(* or the run's context has ended.                                          *)
(* Mutant: the adapter sends without looking at the context.                *)
AdapterStopsWhenDrained ==
    /\ adapter.at = "running" /\ adapter.over /\ adapter.pending = <<>>
    /\ adapter' = [adapter EXCEPT !.at = "stopped"]
    /\ UNCHANGED <<turn, server, msg, stopped, shown>>

AdapterStops ==
    /\ adapter.at = "running"
    /\ stopped \/ (adapter.over /\ adapter.pending = <<>>)
    /\ adapter' = [adapter EXCEPT !.at = "stopped", !.pending = <<>>]
    /\ UNCHANGED <<turn, server, msg, stopped, shown>>

-----------------------------------------------------------------------------
(* streamTurnAttempt and streamTurn *)

(* Mutant: input that comes after the end of its call is let through.       *)
BreaksProtocolButLate(m, e) ==
    \/ m.closed
    \/ e.type = "message_start" /\ m.open
    \/ e.type \in {"text_delta", "message_end"} /\ ~m.open
    \/ e.type = "tool_use_start" /\ (e.id = NoId \/ e.id \in m.started)
    \/ e.type = "tool_use_input_delta" /\ e.id \notin m.started
    \/ e.type = "tool_use_end" /\ e.id \notin m.started \ m.ended

BreaksProtocol(m, e) ==
    \/ m.closed
    \/ e.type = "message_start" /\ m.open
    \/ e.type \in {"text_delta", "message_end"} /\ ~m.open
    \/ e.type = "tool_use_start" /\ (e.id = NoId \/ e.id \in m.started)
    \/ e.type \in {"tool_use_input_delta", "tool_use_end"} /\ e.id \notin m.started \ m.ended

Assembled(m, e) ==
    LET next == [m EXCEPT !.events = @ + 1,
                          !.committed = @ \/ e.type \notin {"message_start", "message_end", "tool_use_end"}]
    IN CASE e.type = "message_start" -> [next EXCEPT !.open = TRUE]
         [] e.type = "text_delta" -> next
         [] e.type = "tool_use_start" ->
               [next EXCEPT !.started = @ \cup {e.id}, !.input[e.id] = 0]
         [] e.type = "tool_use_input_delta" -> [next EXCEPT !.input[e.id] = @ + 1]
         [] e.type = "tool_use_end" ->
               [next EXCEPT !.ended = @ \cup {e.id},
                            !.content = Append(@, [id |-> e.id, input |-> m.input[e.id]])]
         [] e.type = "message_end" -> [next EXCEPT !.closed = TRUE, !.stop = e.stop]

Refuses(m, e) == turn.production /\ (BreaksProtocol(m, e) \/ m.events >= EventLimit)

Ends(outcome) == turn' = [turn EXCEPT !.at = "done", !.outcome = outcome]

(* The session takes the next event, assembles it and shows it.             *)
Take ==
    LET e == Head(adapter.pending)
    IN /\ turn.at = "streaming" /\ adapter.pending # <<>> /\ e.type # "error"
       /\ ~Refuses(msg, e)
       /\ adapter' = [adapter EXCEPT !.pending = Tail(@)]
       /\ msg' = Assembled(msg, e)
       /\ shown' = IF e.type \in {"text_delta", "tool_use_input_delta"}
                   THEN shown \cup {turn.attempt} ELSE shown
       /\ UNCHANGED <<turn, server, stopped>>

(* The attempt fails: in production on an event out of order, on the limits *)
(* of events, bytes, calls and tokens and on arguments that are no JSON, and *)
(* when the consumer of partial output has left. None of these is retried.  *)
(* The adapter is left as it is.                                            *)
Refuse ==
    /\ turn.at = "streaming" /\ adapter.pending # <<>>
    /\ Head(adapter.pending).type # "error"
    /\ turn.production \/ Head(adapter.pending).type \in {"text_delta", "tool_use_input_delta"}
    /\ Ends("error")
    /\ adapter' = [adapter EXCEPT !.pending = Tail(@)]
    /\ UNCHANGED <<server, msg, stopped, shown>>

MayRetry(e) == ~stopped /\ ~msg.committed /\ e.retryable /\ turn.attempt < MaxAttempts

AttemptFails ==
    /\ turn.at = "streaming" /\ adapter.pending # <<>>
    /\ LET e == Head(adapter.pending)
       IN /\ e.type = "error"
          /\ IF MayRetry(e) THEN turn' = [turn EXCEPT !.at = "waiting"] ELSE Ends("error")
    /\ adapter' = [adapter EXCEPT !.pending = <<>>]
    /\ UNCHANGED <<server, msg, stopped, shown>>

(* waitForProviderRetry: the delay has passed.                              *)
NextAttempt ==
    /\ turn.at = "waiting" /\ adapter.at = "stopped"
    /\ turn' = [turn EXCEPT !.at = "streaming", !.attempt = @ + 1]
    /\ adapter' = FreshStream(turn.kind) /\ server' = [Silent EXCEPT !.sent = server.sent]
    /\ msg' = Empty
    /\ UNCHANGED <<stopped, shown>>

(* The channel is closed: production asks for a complete message.           *)
StreamEnds ==
    /\ turn.at = "streaming" /\ adapter.at = "stopped" /\ ~stopped
    /\ LET incomplete == \/ ~msg.closed \/ msg.started # msg.ended
                         \/ msg.stop = "tool_use" /\ msg.ended = {}
       IN Ends(IF turn.production /\ incomplete THEN "error" ELSE "message")
    /\ UNCHANGED <<server, adapter, msg, stopped, shown>>

(* The context has ended, while an event was waited for or the delay ran.   *)
Aborted ==
    /\ stopped /\ turn.at \in {"streaming", "waiting"}
    /\ Ends("abort")
    /\ UNCHANGED <<server, adapter, msg, stopped, shown>>

(* The run is aborted, or ends because the turn failed: its context ends.   *)
StopRun ==
    /\ ~stopped /\ stopped' = TRUE
    /\ UNCHANGED <<turn, server, adapter, msg, shown>>

ServerActs ==
    \/ \E i \in Indexes : \/ \E id \in CallIds : SendStart(i, id)
                          \/ SendDelta(i) \/ SendStop(i)
    \/ SendText \/ SendOpen \/ CloseBody \/ FailBody
    \/ \E reason \in {"end_turn", "tool_use"} : SendFinish(reason)

StreamNext ==
    \/ ServerActs \/ AdapterStops
    \/ Take \/ Refuse \/ AttemptFails \/ NextAttempt \/ StreamEnds \/ Aborted
    \/ StopRun

StreamSpec == StreamInit /\ [][StreamNext]_streamVars

-----------------------------------------------------------------------------
(* In production a message that is accepted holds every tool call the       *)
(* server began, once, and each with all the argument fragments the server  *)
(* sent for it, whatever the order of events and however the two calls are  *)
(* interleaved (loop.go streamTurnAttempt). A server that is odd, one that   *)
(* sends arguments at an index before it names a call there or names two    *)
(* calls at one index, is held to what was announced: the chat adapter      *)
(* drops the other call without an error.                                   *)
CallsAreWhole ==
    turn.production /\ turn.outcome = "message" =>
       /\ {msg.content[k].id : k \in DOMAIN msg.content} =
             IF server.odd THEN msg.started ELSE server.started
       /\ \A k, l \in DOMAIN msg.content : msg.content[k].id = msg.content[l].id => k = l
       /\ \A k \in DOMAIN msg.content : msg.content[k].input = server.said[msg.content[k].id]

(* What the consumer has been shown of a turn comes from one attempt, and   *)
(* it is the last: no retry begins behind partial output                    *)
(* (loop.go streamTurn, committed).                                         *)
OneAttemptShown == shown \subseteq {turn.attempt}

(* Both: what the consumer sees and the session stores is what one attempt  *)
(* of the provider said.                                                    *)
StreamFaithful == CallsAreWhole /\ OneAttemptShown

(* When the run's context has ended the turn ends and the adapter's         *)
(* goroutine with it, also when the session had stopped listening to it     *)
(* (providers/sse.go sendProviderResult).                                   *)
NothingLeaks == stopped ~> (turn.at = "done" /\ adapter.at = "stopped")

(* An incomplete stream fails in production: a message is accepted only if  *)
(* the server had come to its end.                                          *)
IncompleteStreamFails ==
    turn.production /\ turn.outcome = "message" => server.finished
=============================================================================
