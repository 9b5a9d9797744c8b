------------------------------- MODULE MCTurn -------------------------------
(***************************************************************************)
(* TLC instance of a session's turns: the runs of SessionRun, and the      *)
(* stream of one turn of ProviderStream. To the run a turn's stream is any *)
(* answer or failure, so that they share no state; the rigid variable      *)
(* focus says which of them moves.                                         *)
(*                                                                         *)
(* Two runs of at most two turns: the model of the first answers with two  *)
(* parallel calls or with none, the one of the second proposes a call that *)
(* is refused and a skill; the second run compacts what the first has      *)
(* left, and what a crash has left. A turn over each kind of provider, in  *)
(* production and not, with two tool call ids, two indexes and one retry.  *)
(* In production, where the protocol is checked, a server sends up to five *)
(* events: two calls begun together, one of which gets arguments, and both *)
(* closed, or a complete call with its stop reason and one event too many. *)
(* Outside it three, a complete call.                                      *)
(***************************************************************************)
EXTENDS SessionRun, ProviderStream

CONSTANTS
    Parts,      \* the parts that may move
    r1, r2

VARIABLE focus

MCPlans == [r \in {r1, r2} |-> IF r = r1 THEN {<<>>, <<"par", "par">>} ELSE {<<"bad", "skill">>}]
MCCallIds == {"a", "b"}
MCMaxWire(production) == IF production THEN 5 ELSE 3

(* A part at rest has one initial state, in which no fair action is enabled. *)
MCInit ==
    /\ focus \in Parts
    /\ Init /\ StreamInit
    /\ focus # "stream" => turn.kind = "anthropic" /\ turn.production

MCNext ==
    /\ UNCHANGED focus
    /\ \/ focus = "run" /\ Next /\ UNCHANGED streamVars
       \/ focus = "stream" /\ StreamNext /\ UNCHANGED svars

(* The goroutines that exist are scheduled: a run goes on by itself, the    *)
(* agent cancels and closes what it has begun to close, the adapter's and   *)
(* the turn's goroutines see that a context has ended. Consumers, people,   *)
(* tools and providers may fall silent for ever, until the work of the run  *)
(* is cancelled: then a callback, a tool or a stream that received its      *)
(* context returns, as docs/USAGE.md:60 asks of permission callbacks. A     *)
(* turn that has failed ends its run.                                       *)
RunFairness ==
    /\ \A r \in Runs : /\ WF_svars(focus = "run" /\ Proceed(r))
                      /\ WF_svars(focus = "run" /\ run[r].cancelled /\ Hear(r))
                      /\ WF_svars(focus = "run" /\ LifecycleCancel(r))
                      /\ WF_svars(focus = "run" /\ CloseWork(r))
    /\ WF_svars(focus = "run" /\ CloseStore)

StreamFairness ==
    /\ WF_streamVars(focus = "stream" /\ AdapterStops)
    /\ WF_streamVars(focus = "stream" /\ Aborted)
    /\ WF_streamVars(focus = "stream" /\ StopRun /\ turn.outcome = "error")

MCSpec ==
    /\ MCInit /\ [][MCNext]_<<svars, streamVars, focus>>
    /\ RunFairness /\ StreamFairness
=============================================================================
