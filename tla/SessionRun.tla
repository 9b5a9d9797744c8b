----------------------------- MODULE SessionRun -----------------------------
(***************************************************************************)
(* One Session of one Agent and the runs started on it: the turn loop, the *)
(* tool batches, compaction, and the ways a run is stopped (Abort, Close,  *)
(* the deadline of a production run, Agent.Close, death of the process).   *)
(*                                                                         *)
(* A run has two contexts: "cancelled" is the context of its work, "muted" *)
(* the context of its event stream.  A consumer that stops reading lets    *)
(* the event channel fill up ("stuck"), and the next Emit then waits until *)
(* the stream is muted.  The events of a parallel call pass a buffer and a *)
(* forwarder first, which gives up when the stream is muted.  A message is *)
(* its role and the answers it carries; the assistant's text, usage        *)
(* fields, prices and tool data are left out.  One provider call costs one *)
(* token of the production limit.                                          *)
(***************************************************************************)
EXTENDS Integers, Sequences, FiniteSets

CONSTANTS
    Runs,         \* the handles StartRun returns
    NoRun,        \* no active run
    Plans,        \* for each run, the sequences of tool calls its model turns may propose
    MaxTurns,     \* AgentOptions.MaxTurns
    Attempts,     \* provider attempts per turn, MaxRetries + 1
    Concurrency,  \* AgentOptions.ToolConcurrency
    CompactAt,    \* view length at which compaction is proactive
    KeepTurns,    \* user turns the default strategy keeps
    CallLimit,    \* production limit of tool calls per run
    TokenLimit,   \* production limit of tokens per run
    MaxFaults     \* bound on the aborts, closed handles, stalled readers and crashes

ASSUME SessionAssumption ==
    /\ NoRun \notin Runs
    /\ {MaxTurns, Attempts, Concurrency, KeepTurns} \subseteq Nat \ {0}
    /\ {CompactAt, CallLimit, TokenLimit, MaxFaults} \subseteq Nat
    /\ \A r \in Runs : \A plan \in Plans[r] : plan \in Seq(STRING)

VARIABLES
    agent,        \* Agent: closed, the runs it waits for, whether its store is open
    session,      \* Session: active run, provider view, skills invoked or not
    history,      \* the messages in the durable store
    run,          \* the state of each run
    faults        \* what has gone wrong so far, bounded by MaxFaults

svars == <<agent, session, history, run, faults>>

-----------------------------------------------------------------------------
\* Messages, the provider view and compaction

Message(kind, by, calls, answers) ==
    [kind |-> kind, by |-> by, calls |-> calls, answers |-> answers]

\* A view entry is the position of a message in the history, or one of these.
\* A summary need not be complete: the body of the answer may have ended early
\* (ProviderStream), and outside production the model may have reached its token
\* limit or refused.
Summary == 0          \* what the provider's stream told until it ended of itself
Truncated == -1       \* what a cancelled run had read of it
Replay == -2          \* the replay of the invoked skills

IsSummary(entry) == entry \in {Summary, Truncated}

\* Tool results, summaries and replays do not start a turn.
StartsUserTurn(entry) == entry > 0 /\ history[entry].kind = "user"

\* The first entry that is kept, or 1 when there are fewer turns.
KeepLastTurnsStart(view) ==
    LET starts == {i \in DOMAIN view : StartsUserTurn(view[i])}
        last == {i \in starts : Cardinality({j \in starts : j >= i}) = KeepTurns}
    IN  IF last = {} THEN 1 ELSE CHOOSE i \in last : TRUE

\* The entries that are no replay, in their order.
StripReplay(view) ==
    LET others == {i \in DOMAIN view : view[i] # Replay}
        Place(k) == CHOOSE i \in others : Cardinality({j \in others : j <= i}) = k
    IN  [k \in 1..Cardinality(others) |-> view[Place(k)]]

\* Compact: nothing to do, or nothing but an older summary would be replaced.
Unchanged(view) ==
    LET start == KeepLastTurnsStart(view)
    IN  start = 1 \/ (start = 2 /\ IsSummary(view[1]))

CompactedView(view, summary) ==
    <<summary>> \o (IF session.skills THEN <<Replay>> ELSE <<>>)
                \o SubSeq(view, KeepLastTurnsStart(view), Len(view))

-----------------------------------------------------------------------------
\* Runs

NoSlots == <<>>

NewRun == [phase |-> "idle", cancelled |-> FALSE, muted |-> FALSE, closing |-> FALSE,
           stuck |-> FALSE, results |-> <<>>, turn |-> 0, used |-> 0, called |-> 0,
           attempt |-> 1, forced |-> FALSE, stop |-> "none",
           summary |-> 0, plan |-> <<>>, at |-> 1, slots |-> NoSlots, answers |-> <<>>,
           swept |-> FALSE,
           lost |-> {}]     \* the calls that began and whose end event is never forwarded

\* Phases in which StartRun has counted the run and it has not yet unwound.
Working == {"start", "prompt", "turn", "compact", "install", "request", "stream",
            "assistant", "announce", "permit", "asking", "tools", "answer", "exit"}
Stoppable == Working \ {"exit"}
Counted == Working \cup {"released"}

\* Emit succeeds unless the stream is muted; on a full channel it waits.
CanEmit(r) == run[r].muted \/ ~run[r].stuck

\* What is left of a run that has returned from the loop: its event stream.
Left(rec, phase) ==
    [NewRun EXCEPT !.phase = phase, !.results = rec.results, !.muted = rec.muted]

Quit(rec) == Left(rec, "exit")

\* The terminal events of a run are its last emissions.
Ended(rec, subtype) ==
    Quit([rec EXCEPT !.results = IF rec.muted THEN @ ELSE Append(@, subtype)])

SetRun(r, rec) == run' = [run EXCEPT ![r] = rec]

EndWith(r, subtype) == CanEmit(r) /\ SetRun(r, Ended(run[r], subtype))

InPhase(r, phase) == run[r].phase = phase

Stay == UNCHANGED <<agent, session, history, faults>>

Fresh(h) == [active |-> NoRun, view |-> [i \in 1..Len(h) |-> i],
             skills |-> session.skills]

Init ==
    /\ agent = [closed |-> FALSE, count |-> 0, store |-> "open"]
    /\ session = [active |-> NoRun, view |-> <<>>, skills |-> FALSE]
    /\ history = <<>>
    /\ run = [r \in Runs |-> NewRun]
    /\ faults = 0

\* Mutant: beginRun does not look at the agent's closed flag.
StartRunAfterClose(r) ==
    /\ InPhase(r, "idle") /\ session.active = NoRun
    /\ SetRun(r, [run[r] EXCEPT !.phase = "start"])
    /\ agent' = [agent EXCEPT !.count = @ + 1]
    /\ session' = [session EXCEPT !.active = r]
    /\ UNCHANGED <<history, faults>>

\* StartRun: refused while another run is active or once the agent is closed;
\* the refusal is reported on the handle's own stream.
StartRun(r) ==
    /\ InPhase(r, "idle")
    /\ IF session.active # NoRun \/ agent.closed
       THEN /\ SetRun(r, [run[r] EXCEPT !.phase = "ended", !.results = <<"error">>])
            /\ UNCHANGED <<agent, session>>
       ELSE /\ SetRun(r, [run[r] EXCEPT !.phase = "start"])
            /\ agent' = [agent EXCEPT !.count = @ + 1]
            /\ session' = [session EXCEPT !.active = r]
    /\ UNCHANGED <<history, faults>>

-----------------------------------------------------------------------------
\* Stopping a run

Fault == faults < MaxFaults /\ faults' = faults + 1

\* RunHandle.Abort, Session.Abort, or the deadline MaxRunDuration.  Session.Abort
\* fetches the cancel function under activeMu and calls it outside; a run that
\* has ended in between is not affected, and no other run is.
Abort(r) ==
    /\ run[r].phase \in Stoppable /\ ~run[r].cancelled
    /\ SetRun(r, [run[r] EXCEPT !.cancelled = TRUE])
    /\ Fault /\ UNCHANGED <<agent, session, history>>

\* RunHandle.Close cancels the stream first and the work after that.
CloseHandle(r) ==
    /\ run[r].phase \in Stoppable /\ ~run[r].closing
    /\ SetRun(r, [run[r] EXCEPT !.muted = TRUE, !.closing = TRUE])
    /\ Fault /\ UNCHANGED <<agent, session, history>>

CloseWork(r) ==
    /\ run[r].phase \in Stoppable /\ run[r].closing /\ ~run[r].cancelled
    /\ SetRun(r, [run[r] EXCEPT !.cancelled = TRUE])
    /\ Stay

\* Agent.Close cancels the lifecycle, waits for the runs, then closes the store.
CloseAgent ==
    /\ ~agent.closed
    /\ agent' = [agent EXCEPT !.closed = TRUE]
    /\ UNCHANGED <<session, history, run, faults>>

CloseStore ==
    /\ agent.closed /\ agent.count = 0 /\ agent.store = "open"
    /\ agent' = [agent EXCEPT !.store = "closed"]
    /\ UNCHANGED <<session, history, run, faults>>

\* Mutant: the AfterFunc only cancels the work.
LifecycleCancelWork(r) ==
    /\ run[r].phase \in Stoppable /\ agent.closed /\ ~run[r].cancelled
    /\ SetRun(r, [run[r] EXCEPT !.cancelled = TRUE])
    /\ Stay

\* The AfterFunc of the lifecycle context: cancel, then cancelEmit.
LifecycleCancel(r) ==
    /\ run[r].phase \in Stoppable /\ agent.closed /\ ~run[r].muted
    /\ SetRun(r, [run[r] EXCEPT !.muted = run[r].cancelled, !.cancelled = TRUE])
    /\ Stay

\* The consumer stops reading and the channel of 64 events fills up.
StopReading(r) ==
    /\ run[r].phase \in Stoppable /\ ~run[r].stuck
    /\ SetRun(r, [run[r] EXCEPT !.stuck = TRUE])
    /\ Fault /\ UNCHANGED <<agent, session, history>>

\* The process dies.  A new agent opens the stored session: Agent.Session loads
\* every durable message into the view and the invoked skills from the record.
Crash ==
    /\ Fault
    /\ run' = [r \in Runs |-> IF run[r].phase \in {"idle", "ended"} THEN run[r]
                              ELSE Left(run[r], "dead")]
    /\ session' = Fresh(history)
    /\ agent' = [closed |-> FALSE, count |-> 0, store |-> "open"]
    /\ UNCHANGED history

-----------------------------------------------------------------------------
\* The turn loop

\* Session.append: one durable write, then both in-memory histories.
Store(message) ==
    /\ history' = Append(history, message)
    /\ session' = [session EXCEPT !.view = Append(@, Len(history) + 1)]

\* A write that fails: aborted when the work is cancelled, else an error.
StoreFails(r) ==
    /\ EndWith(r, IF run[r].cancelled THEN "aborted" ELSE "error")
    /\ Stay

\* loadRuntime and the initial events.
LoadRuntime(r) ==
    /\ InPhase(r, "start") /\ CanEmit(r)
    /\ \/ SetRun(r, IF run[r].muted THEN Quit(run[r]) ELSE [run[r] EXCEPT !.phase = "prompt"])
       \/ SetRun(r, Ended(run[r], "error"))
    /\ Stay

AppendPrompt(r) ==
    /\ InPhase(r, "prompt")
    /\ \/ StoreFails(r)
       \/ /\ ~run[r].cancelled
          /\ Store(Message("user", r, 0, <<>>))
          /\ SetRun(r, [run[r] EXCEPT !.phase = "turn"])
          /\ UNCHANGED <<agent, faults>>

\* The announcement of a stored user message is part of the next loop test: a
\* muted stream ends the run, then the turn limit and the context are examined.
Turn(r) ==
    /\ InPhase(r, "turn") /\ CanEmit(r)
    /\ SetRun(r, IF run[r].muted THEN Quit(run[r])
                 ELSE IF run[r].turn = MaxTurns THEN Ended(run[r], "error")
                 ELSE IF run[r].cancelled THEN Ended(run[r], "aborted")
                 ELSE [run[r] EXCEPT !.turn = @ + 1,
                          !.phase = IF Len(session.view) >= CompactAt THEN "compact"
                                    ELSE "request"])
    /\ Stay

\* compactProviderHistory up to the answer of the strategy, which asks the
\* provider for a summary.  A failure ends the run with an error, an abort among
\* them; a summary of nothing but blanks changes nothing.  Whatever text came
\* before the stream closed is the summary, also when the body ended early or
\* when a cancellation cut the stream off.
Compact(r) ==
    LET view == StripReplay(session.view)
        idle == \/ ~run[r].forced /\ Len(view) < CompactAt
                \/ run[r].used < TokenLimit /\ Unchanged(view)
    IN  /\ InPhase(r, "compact")
        /\ \/ /\ idle /\ ~run[r].forced
              /\ SetRun(r, [run[r] EXCEPT !.phase = "request"])
           \/ /\ idle /\ run[r].forced
              /\ EndWith(r, "error")
           \/ /\ ~idle
              /\ EndWith(r, "error")
           \/ /\ ~idle /\ run[r].used < TokenLimit /\ ~run[r].forced
              /\ SetRun(r, [run[r] EXCEPT !.phase = "request", !.used = @ + 1])
           \/ /\ ~idle /\ run[r].used < TokenLimit
              /\ \E told \in {Summary} \cup (IF run[r].cancelled THEN {Truncated} ELSE {}) :
                    SetRun(r, [run[r] EXCEPT !.phase = "install", !.used = @ + 1, !.summary = told])
        /\ Stay

\* Mutant: the skills come from memory, and nothing notices the cancellation.
InstallAnyway(r) ==
    /\ InPhase(r, "install") /\ CanEmit(r)
    /\ session' = [session EXCEPT
           !.view = CompactedView(StripReplay(session.view), run[r].summary)]
    /\ SetRun(r, IF run[r].muted THEN Quit(run[r])
                 ELSE [run[r] EXCEPT !.phase = "request", !.summary = 0])
    /\ UNCHANGED <<agent, history, faults>>

\* The rest of it: the skills are loaded from the store, which a cancelled run
\* cannot do, and the new view replaces the old one.
Install(r) ==
    /\ InPhase(r, "install") /\ CanEmit(r)
    /\ \/ SetRun(r, Ended(run[r], "error")) /\ UNCHANGED session
       \/ /\ ~run[r].cancelled
          /\ session' = [session EXCEPT
                 !.view = CompactedView(StripReplay(session.view), run[r].summary)]
          /\ SetRun(r, IF run[r].muted THEN Quit(run[r])
                       ELSE [run[r] EXCEPT !.phase = "request", !.summary = 0])
    /\ UNCHANGED <<agent, history, faults>>

\* buildProviderRequest.
Request(r) ==
    /\ InPhase(r, "request")
    /\ IF run[r].used >= TokenLimit THEN EndWith(r, "error")
       ELSE SetRun(r, [run[r] EXCEPT !.phase = "stream"])
    /\ Stay

\* streamTurn: a retryable failure before any output is retried after a delay; a
\* context-length failure compacts once; a cancellation wins over every outcome.
StreamFails(r) ==
    /\ InPhase(r, "stream")
    /\ \/ /\ run[r].cancelled
          /\ EndWith(r, "aborted")
       \/ /\ ~run[r].cancelled
          /\ \/ EndWith(r, "error")
             \/ /\ run[r].attempt < Attempts
                /\ SetRun(r, [run[r] EXCEPT !.attempt = @ + 1])
             \/ /\ ~run[r].forced
                /\ SetRun(r, [run[r] EXCEPT !.phase = "compact", !.forced = TRUE, !.attempt = 1])
    /\ Stay

\* A complete answer: the usage and the tool-call limit are examined before the
\* assistant message is stored.  Only "tool_use" leads to the calls.
StreamAnswers(r, plan, stop) ==
    LET answered == [run[r] EXCEPT !.used = @ + 1, !.called = @ + Len(plan),
                                   !.plan = plan, !.stop = stop,
                                   !.attempt = 1, !.forced = FALSE]
    IN  /\ InPhase(r, "stream") /\ ~run[r].cancelled
        /\ stop = "tool_use" => plan # <<>>
        /\ IF answered.used > TokenLimit \/ answered.called > CallLimit
           THEN CanEmit(r) /\ SetRun(r, Ended(answered, "error"))
           ELSE SetRun(r, [answered EXCEPT !.phase = "assistant"])
        /\ Stay

AppendAssistant(r) ==
    /\ InPhase(r, "assistant")
    /\ \/ StoreFails(r)
       \/ /\ ~run[r].cancelled
          /\ Store(Message("assistant", r, Len(run[r].plan), <<>>))
          /\ SetRun(r, [run[r] EXCEPT !.phase = "announce"])
          /\ UNCHANGED <<agent, faults>>

\* The calls that validation or a missing tool has answered already are "bad".
Announce(r) ==
    LET plan == run[r].plan
    IN  /\ InPhase(r, "announce") /\ CanEmit(r)
        /\ SetRun(r, IF run[r].muted THEN Quit(run[r])
                     ELSE IF run[r].stop # "tool_use"
                     THEN Ended(run[r], IF run[r].stop = "end" THEN "success" ELSE "incomplete")
                     ELSE [run[r] EXCEPT !.phase = "permit", !.at = 1,
                             !.slots = [i \in DOMAIN plan |-> "new"],
                             !.answers = [i \in DOMAIN plan |->
                                            IF plan[i] = "bad" THEN "error" ELSE "none"]])
        /\ Stay

-----------------------------------------------------------------------------
\* Tool batches

\* Neighbouring parallel-safe calls form one batch, every other call its own.
BatchEnd(plan, at) ==
    LET par == {j \in at..Len(plan) : \A i \in at..j : plan[i] = "par"}
    IN  IF par = {} THEN at ELSE CHOOSE j \in par : \A i \in par : i <= j

Batch(r) == run[r].at..BatchEnd(run[r].plan, run[r].at)

Parallel(r) == run[r].plan[run[r].at] = "par"

\* Mutant: a call that has been answered already is asked about and executed too.
EveryCall(r) == Batch(r)

\* The calls of the batch that are still to be answered.
Unanswered(r) == {i \in Batch(r) : run[r].answers[i] = "none"}

\* resolveToolCallPermissions: denied calls are answered, the calls to ask about
\* are announced together; if that fails they get no answer at all.
Permit(r) ==
    LET open == Unanswered(r)
    IN  /\ InPhase(r, "permit")
        /\ \E asked \in SUBSET open : \E denied \in SUBSET (open \ asked) :
              /\ asked # {} => CanEmit(r)
              /\ SetRun(r, [run[r] EXCEPT
                    !.phase = IF asked # {} /\ ~run[r].muted THEN "asking" ELSE "tools",
                    !.swept = FALSE,
                    !.answers = [i \in DOMAIN @ |-> IF i \in denied THEN "error" ELSE @[i]],
                    !.slots = [i \in DOMAIN @ |->
                                 IF i \in asked /\ ~run[r].muted THEN "asked"
                                 ELSE IF i \in open \ (asked \cup denied) THEN "ready"
                                 ELSE IF i \in Batch(r) THEN "done" ELSE @[i]]])
        /\ Stay

\* ResolveApproval, call by call; a cancelled run is denied.
Resolve(r) ==
    LET asked == {i \in Batch(r) : run[r].slots[i] = "asked"}
    IN  /\ InPhase(r, "asking")
        /\ \E granted \in SUBSET (IF run[r].cancelled THEN {} ELSE asked) :
              SetRun(r, [run[r] EXCEPT !.phase = "tools",
                 !.answers = [i \in DOMAIN @ |-> IF i \in asked \ granted THEN "error" ELSE @[i]],
                 !.slots = [i \in DOMAIN @ |-> IF i \in granted THEN "ready"
                                               ELSE IF i \in asked THEN "done" ELSE @[i]]])
        /\ Stay

\* What is put in for a call that has not answered itself: the words are those of
\* an aborted call, the model tells them apart.
StandIn == "standin"

\* A result reaches the results of the turn.  Of a parallel batch it travels through
\* a channel; on a muted stream it may be dropped on the way.
Delivered(rec, i, answer, parallel) ==
    {[rec EXCEPT !.slots[i] = "done", !.answers[i] = answer]}
    \cup (IF parallel /\ rec.muted THEN {[rec EXCEPT !.slots[i] = "done"]} ELSE {})

\* executePreparedToolCall returns.  Of a parallel call the result (slot = the
\* answer) now waits until its events are forwarded.
Returned(rec, i, answer, parallel) ==
    IF parallel THEN [rec EXCEPT !.slots[i] = answer]
    ELSE [rec EXCEPT !.slots[i] = "done", !.answers[i] = answer]

\* The calls that hold a place, up to the end of their goroutine.
Begun == {"running", "ok", "error", "aborted"}

\* executePreparedToolCall up to Execute: the contract is examined, the start
\* event is emitted (a parallel call's into its buffer), then the call is audited;
\* a call refused there has begun and will not emit its end.  A parallel call
\* first waits for a place, or for a cancellation.
StartCall(r, i) ==
    LET rec == run[r]
        par == Parallel(r)
        Refused(answer) == Delivered(rec, i, answer, par)
    IN  /\ InPhase(r, "tools") /\ i \in Batch(r) /\ rec.slots[i] = "ready"
        /\ \/ /\ Cardinality({j \in Batch(r) : rec.slots[j] \in Begun}) < Concurrency
              /\ \/ \E next \in Refused("error") : SetRun(r, next)
                 \/ rec.muted /\ \E next \in Refused("aborted") : SetRun(r, next)
                 \/ /\ ~rec.muted /\ (par \/ ~rec.stuck)
                    /\ \/ SetRun(r, [rec EXCEPT !.slots[i] = "running"])
                       \/ SetRun(r, Returned([rec EXCEPT !.lost = IF par THEN @ \cup {i} ELSE @],
                                             i, "error", par))
           \/ /\ par /\ rec.cancelled
              /\ \E next \in Delivered(rec, i, StandIn, TRUE) : SetRun(r, next)
        /\ Stay

\* The tool returns and its end event is emitted.  An invoked skill is recorded
\* in the store.
EndCall(r, i) ==
    /\ InPhase(r, "tools") /\ run[r].slots[i] = "running" /\ (Parallel(r) \/ CanEmit(r))
    /\ \E answer \in IF run[r].muted THEN {"aborted"} ELSE {"ok", "error"} :
          /\ SetRun(r, Returned(run[r], i, answer, Parallel(r)))
          /\ session' = [session EXCEPT
                             !.skills = @ \/ (run[r].plan[i] = "skill" /\ answer # "error")]
    /\ UNCHANGED <<agent, history, faults>>

\* The forwarder has passed on the events of a parallel call, or given up on a
\* muted stream, and executeParallelBatch collects the result ...
Collect(r, i) ==
    /\ InPhase(r, "tools") /\ run[r].slots[i] \in Begun \ {"running"} /\ CanEmit(r)
    /\ \E lost \in {run[r].lost} \cup (IF run[r].muted THEN {run[r].lost \cup {i}} ELSE {}) :
       \E next \in Delivered([run[r] EXCEPT !.lost = lost], i, run[r].slots[i], TRUE) :
          SetRun(r, next)
    /\ Stay

\* ... and once, after a cancellation, answers the calls whose start has been
\* forwarded and whose end has not, which it may have collected all the same.
Sweep(r) ==
    LET open == {i \in Batch(r) : run[r].slots[i] \in Begun} \cup run[r].lost
    IN  /\ InPhase(r, "tools") /\ Parallel(r) /\ run[r].cancelled /\ ~run[r].swept /\ CanEmit(r)
        /\ \E seen \in SUBSET open :
              SetRun(r, [run[r] EXCEPT !.swept = TRUE,
                           !.answers = [i \in DOMAIN @ |-> IF i \in seen THEN StandIn ELSE @[i]]])
        /\ Stay

NextBatch(r) ==
    /\ InPhase(r, "tools") /\ \A i \in Batch(r) : run[r].slots[i] = "done"
    /\ LET next == BatchEnd(run[r].plan, run[r].at) + 1
       IN  SetRun(r, [run[r] EXCEPT !.at = next, !.lost = {},
                        !.phase = IF next <= Len(run[r].plan) THEN "permit" ELSE "answer"])
    /\ Stay

\* What the next turn starts with.
Onward(rec) ==
    [rec EXCEPT !.phase = "turn", !.stop = "none", !.plan = <<>>, !.slots = NoSlots,
                !.answers = <<>>, !.at = 1]

AppendResults(r) ==
    /\ InPhase(r, "answer")
    /\ \/ StoreFails(r)
       \/ /\ ~run[r].cancelled
          /\ Store(Message("results", r, 0, run[r].answers))
          /\ SetRun(r, Onward(run[r]))
          /\ UNCHANGED <<agent, faults>>

-----------------------------------------------------------------------------
\* Unwinding: the session is free for the next run before the agent is told.

Release(r) ==
    /\ InPhase(r, "exit")
    /\ SetRun(r, Left(run[r], "released"))
    /\ session' = [session EXCEPT !.active = NoRun]
    /\ UNCHANGED <<agent, history, faults>>

EndRun(r) ==
    /\ InPhase(r, "released")
    /\ SetRun(r, [run[r] EXCEPT !.phase = "ended"])
    /\ agent' = [agent EXCEPT !.count = @ - 1]
    /\ UNCHANGED <<session, history, faults>>

-----------------------------------------------------------------------------
\* What the goroutines of a run do by themselves ...
Proceed(r) ==
    \/ LoadRuntime(r) \/ AppendPrompt(r) \/ Turn(r) \/ Install(r) \/ Request(r)
    \/ AppendAssistant(r) \/ Announce(r) \/ Permit(r)
    \/ \E i \in DOMAIN run[r].slots : StartCall(r, i) \/ Collect(r, i)
    \/ Sweep(r) \/ NextBatch(r) \/ AppendResults(r) \/ Release(r) \/ EndRun(r)

\* ... and what they wait for: the provider, the permission callback, the tools.
Hear(r) ==
    \/ Compact(r) \/ StreamFails(r)
    \/ \E plan \in Plans[r], stop \in {"end", "tool_use", "max_tokens"} : StreamAnswers(r, plan, stop)
    \/ Resolve(r)
    \/ \E i \in DOMAIN run[r].slots : EndCall(r, i)

Work(r) == Proceed(r) \/ Hear(r)

Stop(r) == Abort(r) \/ CloseHandle(r) \/ CloseWork(r) \/ LifecycleCancel(r) \/ StopReading(r)

Next ==
    \/ \E r \in Runs : StartRun(r) \/ Work(r) \/ Stop(r)
    \/ CloseAgent \/ CloseStore \/ Crash

Spec == Init /\ [][Next]_svars

-----------------------------------------------------------------------------
\* Properties

\* StartRun, the clean-up of a run and Agent.Close each look at a part of this:
\* at most one run works on the session and it is the active one, the agent
\* waits for exactly the runs that have not unwound, and its store is closed
\* only when none is left and none can start.
RunAccounting ==
    /\ \A r \in Runs : run[r].phase \in Working <=> session.active = r
    /\ agent.count = Cardinality({r \in Runs : run[r].phase \in Counted})
    /\ agent.store = "closed" => agent.closed /\ agent.count = 0

\* Every run that has unwound reported exactly one result, whichever way it was
\* stopped; only a run whose stream was closed may have reported none.
OneResult ==
    \A r \in Runs :
        /\ Len(run[r].results) <= 1
        /\ run[r].phase \in {"released", "ended"} /\ ~run[r].muted => Len(run[r].results) = 1

\* Both: runs begin one at a time and each ends exactly once.
RunsAccounted == RunAccounting /\ OneResult

\* Results in the durable history follow the assistant message they answer, one
\* per call, each as the call itself gave it: a stand-in is never stored. Only a
\* run whose stream was closed stores a call without an answer or as aborted.
\* No run stores more calls than its limit.
AnswersFollowCalls ==
    /\ \A i \in DOMAIN history : history[i].kind = "results" =>
          /\ i > 1 /\ history[i - 1].kind = "assistant" /\ history[i - 1].by = history[i].by
          /\ history[i - 1].calls = Len(history[i].answers)
          /\ \A k \in DOMAIN history[i].answers :
                /\ history[i].answers[k] # StandIn
                /\ history[i].answers[k] \in {"none", "aborted"} => run[history[i].by].muted
    /\ \A r \in Runs : \A i \in DOMAIN history :
          Cardinality({p \in (1..i) \X (1..CallLimit + 1) :
                          history[p[1]].by = r /\ p[2] <= history[p[1]].calls}) <= CallLimit

\* The answer of a call is replaced by nothing but a stand-in, and only after the
\* run was cancelled, though results, events and the sweep race each other.
AnswersAreFinal ==
    [][\A r \in Runs : \A i \in DOMAIN run[r].answers \cap DOMAIN run'[r].answers :
          run[r].answers[i] \in {"ok", "error"} /\ run'[r].answers[i] # run[r].answers[i] =>
             run'[r].answers[i] = StandIn /\ run[r].cancelled]_svars

\* Both: what is stored answers what was asked, as it was answered.
AnswersSound == []AnswersFollowCalls /\ AnswersAreFinal

\* The provider sees a suffix of the durable history that begins with a user
\* turn, so that no result is seen without its call; what is missing at the front
\* is summarised in the first entry, by what the provider's stream told until it
\* ended of itself and never by what a cancelled run had read of it.
ViewFaithful ==
    \E front \in {<<>>, <<Summary>>, <<Summary, Replay>>}, first \in 1..Len(history) + 1 :
        /\ session.view = front \o [i \in 1..Len(history) - first + 1 |-> first + i - 1]
        /\ first > 1 => front # <<>> /\ first <= Len(history) /\ history[first].kind = "user"

\* Agent.Close returns and the store is closed, in spite of consumers that have
\* stopped reading, permissions nobody gives, silent providers and batches in
\* flight, if what a run waits for returns once its context has ended; unless the
\* process dies first.
CloseTerminates == agent.closed ~> (agent.store = "closed" \/ ~agent.closed)

\* The comment of the tool-call limit asks that no tool_use stays in the durable
\* history without a tool_result: when no run is active, every call is answered.
NoDanglingCalls ==
    session.active = NoRun =>
        \A i \in DOMAIN history : history[i].calls > 0 =>
            i < Len(history) /\ history[i + 1].kind = "results"
=============================================================================
