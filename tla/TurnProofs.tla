------------------------------ MODULE TurnProofs ------------------------------
(***************************************************************************)
(* Proofs about SessionRun, for any runs, plans and limits: runs are        *)
(* accounted for, what is stored of tool calls answers what was asked, and  *)
(* the provider sees the history faithfully. Proofs about ProviderStream,   *)
(* for any call ids and limits: a turn tells what one attempt said.         *)
(*                                                                         *)
(* At most one run works on the session, and only that one writes to its   *)
(* history. What a run relies on is said of the run and the history alone  *)
(* (RunSound); a step of one run keeps what the others rely on (RunMoves,  *)
(* RunStores).                                                             *)
(***************************************************************************)
EXTENDS SessionRun, ProviderStream, FiniteSetTheorems, WellFoundedInduction, TLAPS

Fields == {"phase", "cancelled", "muted", "closing", "stuck", "results", "turn", "used",
           "called", "attempt", "forced", "stop", "summary", "plan", "at", "slots", "answers",
           "swept", "lost"}
Answers == {"none", "ok", "error", "aborted", StandIn}
Messages == [kind : {"user", "assistant", "results"}, by : Runs, calls : Nat,
             answers : Seq(Answers)]

\* The phases of a run that deals with the calls of one assistant message,
\* and those in which it has no call to deal with.
Tooling == {"permit", "asking", "tools", "answer"}
Quiet == {"start", "prompt", "turn", "compact", "install", "request", "stream"}

IsRun(rec) == DOMAIN rec = Fields

\* The calls a run has stored in a history, one pair for each.
CallsIn(r, h) ==
    {p \in (1 .. Len(h)) \X (1 .. CallLimit + 1) : h[p[1]].by = r /\ p[2] <= h[p[1]].calls}

\* The calls stored stay below those counted, which stay below the limit.
CallsWithin(r, rec, h) ==
    /\ Cardinality(CallsIn(r, h)) <= CallLimit
    /\ rec.phase = "idle" => Cardinality(CallsIn(r, h)) = 0 /\ rec.called = 0
    /\ rec.phase \in Stoppable => Cardinality(CallsIn(r, h)) <= rec.called /\ rec.called <= CallLimit
    /\ rec.phase = "assistant" => Cardinality(CallsIn(r, h)) + Len(rec.plan) <= rec.called

\* The last message is the one whose calls the run deals with.
LastAsks(r, rec, h) ==
    LET last == h[Len(h)]
    IN  h # <<>> /\ last.kind = "assistant" /\ last.by = r /\ last.calls = Len(rec.plan)

\* A call that has not yet been collected.
InFlight == {"asked", "ready", "running", "ok", "error", "aborted"}

\* A call is done when it is answered, or its run is muted; until then there is at
\* most a stand-in for its answer, which only a cancelled run puts there.  Only a
\* muted run gives an aborted answer.
CallSound(rec, i) ==
    /\ rec.slots[i] = "done" /\ rec.answers[i] = "none" => rec.muted
    /\ rec.slots[i] \in InFlight => rec.answers[i] \in {"none", StandIn}
    /\ rec.answers[i] = StandIn => rec.cancelled
    /\ rec.answers[i] = "aborted" => rec.muted
    /\ rec.slots[i] = "aborted" => rec.muted

ToolsSound(rec) ==
    /\ DOMAIN rec.slots = 1 .. Len(rec.plan)
    /\ rec.answers \in Seq(Answers) /\ Len(rec.answers) = Len(rec.plan)
    /\ rec.at \in 1 .. Len(rec.plan) + 1 /\ (rec.phase # "answer" => rec.at <= Len(rec.plan))
    /\ rec.phase = "answer" => rec.at = Len(rec.plan) + 1
    /\ \A i \in 1 .. Len(rec.plan) :
          /\ i < rec.at => rec.slots[i] = "done"
          /\ CallSound(rec, i)

RunSound(r, rec, h) ==
    /\ IsRun(rec)
    /\ rec.results = <<>> \/ \E s : rec.results = <<s>>
    /\ rec.phase \in Stoppable \cup {"idle"} => rec.results = <<>>
    /\ rec.phase \in {"exit", "released", "ended"} /\ ~rec.muted => rec.results # <<>>
    /\ rec.plan \in Seq(STRING) /\ rec.called \in Nat
    /\ CallsWithin(r, rec, h)
    /\ rec.phase \in {"assistant", "announce"} => (rec.stop = "tool_use" => rec.plan # <<>>)
    /\ rec.phase \in {"announce"} \cup Tooling => LastAsks(r, rec, h)
    /\ rec.phase \in Tooling => ToolsSound(rec)
    /\ rec.phase \notin Tooling => rec.answers = <<>>

CountedRuns == {r \in Runs : run[r].phase \in Counted}

AgentSound ==
    /\ agent \in [closed : BOOLEAN, count : Nat, store : {"open", "closed"}]
    /\ IsFiniteSet(CountedRuns) /\ agent.count = Cardinality(CountedRuns)
    /\ agent.store = "closed" => agent.closed /\ agent.count = 0

SessionSound ==
    /\ DOMAIN session = {"active", "view", "skills"}
    /\ \A r \in Runs : run[r].phase \in Working <=> session.active = r

\* Results follow the message they answer.
ResultsFollow ==
    \A i \in DOMAIN history : history[i].kind = "results" =>
        /\ i > 1 /\ history[i - 1].kind = "assistant" /\ history[i - 1].by = history[i].by
        /\ history[i - 1].calls = Len(history[i].answers)
        /\ \A k \in DOMAIN history[i].answers :
              /\ history[i].answers[k] # StandIn
              /\ history[i].answers[k] \in {"none", "aborted"} => run[history[i].by].muted

TurnInv ==
    /\ DOMAIN run = Runs /\ \A r \in Runs : RunSound(r, run[r], history)
    /\ AgentSound /\ SessionSound
    /\ history \in Seq(Messages) /\ ResultsFollow

\* A final answer stays while the run deals with the same calls, or the sweep of
\* a cancelled run puts a stand-in in its place.
FinalKept(old, new) ==
    \A i \in DOMAIN old.answers \cap DOMAIN new.answers :
        old.answers[i] \in {"ok", "error"} /\ new.answers[i] # old.answers[i] =>
            new.answers[i] = StandIn /\ old.cancelled

\* What a step makes of the run that takes it.
Steps(r, rec, h) ==
    /\ RunSound(r, rec, h) /\ rec.phase \in Working
    /\ run[r].muted => rec.muted
    /\ FinalKept(run[r], rec)

AnswersKept == \A r \in Runs : FinalKept(run[r], run'[r])

-----------------------------------------------------------------------------
\* Steps of one run

LEMMA Limits == CallLimit \in Nat /\ CallLimit + 1 \in Nat
BY SessionAssumption

LEMMA NewRunFacts ==
    /\ IsRun(NewRun) /\ NewRun.phase = "idle" /\ NewRun.results = <<>> /\ NewRun.plan = <<>>
    /\ NewRun.called = 0 /\ NewRun.answers = <<>> /\ NewRun.muted = FALSE
BY DEF NewRun, IsRun, Fields

LEMMA PhaseSets ==
    /\ Quiet \subseteq Stoppable /\ Tooling \subseteq Stoppable /\ Stoppable \subseteq Working
    /\ "assistant" \in Stoppable /\ "announce" \in Stoppable /\ "exit" \in Working
    /\ "exit" \notin Stoppable /\ Quiet \cap Tooling = {} /\ "idle" \notin Working
    /\ "assistant" \notin Quiet \cup Tooling /\ "announce" \notin Quiet \cup Tooling
    /\ Working \subseteq Counted /\ Counted \subseteq Working \cup {"released"}
    /\ "released" \in Counted /\ {"idle", "released", "ended", "dead"} \cap Working = {}
    /\ {"idle", "ended", "dead"} \cap Counted = {} /\ Stoppable = Quiet \cup Tooling \cup {"assistant", "announce"}
BY DEF Quiet, Tooling, Stoppable, Working, Counted

LEMMA ActiveIsAlone ==
    ASSUME TurnInv, NEW r \in Runs, run[r].phase \in Working, NEW q \in Runs, q # r
    PROVE  run[q].phase \notin Working
BY DEF TurnInv, SessionSound

\* A step of the active run that leaves the history alone.
LEMMA RunMoves ==
    ASSUME TurnInv, NEW r \in Runs, run[r].phase \in Working, NEW rec,
           Steps(r, rec, history), run' = [run EXCEPT ![r] = rec],
           UNCHANGED <<agent, history>>, DOMAIN session' = DOMAIN session,
           session'.active = session.active
    PROVE  TurnInv' /\ AnswersKept
<1>1. DOMAIN run' = Runs /\ run'[r] = rec /\ \A q \in Runs : q # r => run'[q] = run[q]
  BY DEF TurnInv
<1>2. \A q \in Runs : RunSound(q, run'[q], history')
  BY <1>1 DEF TurnInv, Steps
<1>3. \A q \in Runs : run'[q].phase \in Working <=> run[q].phase \in Working
  BY <1>1 DEF Steps
<1>4. CountedRuns' = CountedRuns
  BY <1>1, PhaseSets DEF CountedRuns, Steps
<1>5. AgentSound' /\ SessionSound'
  BY <1>3, <1>4 DEF TurnInv, AgentSound, SessionSound
<1>6. \A q \in Runs : run[q].muted => run'[q].muted
  BY <1>1 DEF Steps
<1>7. ResultsFollow'
  <2>1. ASSUME NEW i \in DOMAIN history PROVE history[i].by \in Runs
    <3>1. history \in Seq(Messages)
      BY DEF TurnInv
    <3>2. history[i] \in Messages
      BY <3>1
    <3>3. QED
      BY <3>2 DEF Messages
  <2>2. QED
    BY <1>6, <2>1 DEF TurnInv, ResultsFollow
<1>8. AnswersKept
  BY <1>1 DEF AnswersKept, Steps, FinalKept
<1>9. QED
  BY <1>1, <1>2, <1>5, <1>7, <1>8 DEF TurnInv

\* A message of another run adds no call.
LEMMA CallsStored ==
    ASSUME NEW h \in Seq(Messages), NEW m \in Messages, NEW q
    PROVE  LET h2 == Append(h, m) IN
           /\ IsFiniteSet(CallsIn(q, h)) /\ IsFiniteSet(CallsIn(q, h2))
           /\ Cardinality(CallsIn(q, h)) \in Nat /\ Cardinality(CallsIn(q, h2)) \in Nat
           /\ m.by # q \/ m.calls = 0 => CallsIn(q, h2) = CallsIn(q, h)
           /\ Cardinality(CallsIn(q, h2)) <= Cardinality(CallsIn(q, h)) + m.calls
<1> DEFINE h2 == Append(h, m)
           n == Len(h)
           row == {n + 1} \X (1 .. m.calls)
<1>1. /\ n \in Nat /\ Len(h2) = n + 1 /\ h2[n + 1] = m /\ \A i \in 1 .. n : h2[i] = h[i]
      /\ m.calls \in Nat
  BY DEF Messages
<1>2. ASSUME NEW g, Len(g) \in Nat
      PROVE  IsFiniteSet(CallsIn(q, g)) /\ Cardinality(CallsIn(q, g)) \in Nat
  <2>1. IsFiniteSet(1 .. Len(g)) /\ IsFiniteSet(1 .. CallLimit + 1)
    BY <1>2, Limits, FS_Interval
  <2>2. IsFiniteSet((1 .. Len(g)) \X (1 .. CallLimit + 1))
    BY <2>1, FS_Product
  <2>3. IsFiniteSet(CallsIn(q, g))
    BY <2>2, FS_Subset DEF CallsIn
  <2>4. QED
    BY <2>3, FS_CardinalityType
<1> HIDE DEF h2, n
<1>3. CallsIn(q, h2) \subseteq CallsIn(q, h) \cup row
  <2>1. ASSUME NEW p \in CallsIn(q, h2) PROVE p \in CallsIn(q, h) \cup row
    <3>1. /\ p \in (1 .. n + 1) \X (1 .. CallLimit + 1)
          /\ h2[p[1]].by = q /\ p[2] <= h2[p[1]].calls
      BY <1>1, <2>1 DEF CallsIn
    <3>2. p = <<p[1], p[2]>> /\ p[1] \in 1 .. n + 1 /\ p[2] \in 1 .. CallLimit + 1
      BY <3>1
    <3>3. CASE p[1] = n + 1
      <4>1. p[2] \in 1 .. m.calls
        BY <1>1, <3>1, <3>2, <3>3, Limits
      <4>2. QED
        BY <3>2, <3>3, <4>1
    <3>4. CASE p[1] # n + 1
      <4>1. p[1] \in 1 .. n
        BY <1>1, <3>2, <3>4
      <4>2. QED
        BY <1>1, <3>1, <3>2, <4>1 DEF CallsIn, n
    <3>5. QED
      BY <3>3, <3>4
  <2>2. QED
    BY <2>1
<1>4. CallsIn(q, h) \subseteq CallsIn(q, h2)
  BY <1>1 DEF CallsIn, n
<1>5. IsFiniteSet(row) /\ Cardinality(row) = m.calls
  <2>1. IsFiniteSet({n + 1}) /\ Cardinality({n + 1}) = 1
    BY FS_Singleton
  <2>2. IsFiniteSet(1 .. m.calls) /\ Cardinality(1 .. m.calls) = m.calls
    <3> DEFINE c == m.calls
    <3>1. c \in Nat
      BY <1>1
    <3> HIDE DEF c
    <3>2. /\ IsFiniteSet(1 .. c)
          /\ Cardinality(1 .. c) = IF 1 > c THEN 0 ELSE c - 1 + 1
      BY <3>1, FS_Interval
    <3>3. Cardinality(1 .. c) = c
      BY <3>1, <3>2
    <3>4. QED
      BY <3>2, <3>3 DEF c
  <2>3. IsFiniteSet(row) /\ Cardinality(row) = 1 * m.calls
    BY <2>1, <2>2, FS_Product
  <2>4. QED
    BY <1>1, <2>3
<1>6. IsFiniteSet(CallsIn(q, h)) /\ Cardinality(CallsIn(q, h)) \in Nat
  BY <1>1, <1>2 DEF n
<1>7. IsFiniteSet(CallsIn(q, h2)) /\ Cardinality(CallsIn(q, h2)) \in Nat
  BY <1>1, <1>2
<1>8. Cardinality(CallsIn(q, h2)) <= Cardinality(CallsIn(q, h)) + m.calls
  <2> DEFINE S == CallsIn(q, h)
  <2>1. IsFiniteSet(S \cup row) /\ Cardinality(S \cup row) <= Cardinality(S) + Cardinality(row)
    <3>1. IsFiniteSet(S)
      BY <1>6
    <3> HIDE DEF S, row
    <3>2. /\ IsFiniteSet(S \cup row) /\ IsFiniteSet(S \cap row)
          /\ Cardinality(S \cup row) = Cardinality(S) + Cardinality(row) - Cardinality(S \cap row)
      BY <1>5, <3>1, FS_Union, FS_Intersection
    <3>3. Cardinality(S) \in Nat /\ Cardinality(row) \in Nat /\ Cardinality(S \cap row) \in Nat
      BY <1>5, <3>1, <3>2, FS_CardinalityType
    <3>4. QED
      BY <3>2, <3>3
  <2>2. Cardinality(CallsIn(q, h2)) <= Cardinality(S \cup row)
    BY <1>3, <2>1, FS_Subset
  <2>3. Cardinality(S \cup row) \in Nat
    BY <2>1, FS_CardinalityType
  <2>4. QED
    BY <1>1, <1>5, <1>6, <1>7, <2>1, <2>2, <2>3
<1>9. m.by # q \/ m.calls = 0 => CallsIn(q, h2) = CallsIn(q, h)
  <2> SUFFICES ASSUME m.by # q \/ m.calls = 0 PROVE CallsIn(q, h2) \subseteq CallsIn(q, h)
    BY <1>4
  <2>1. ASSUME NEW p \in CallsIn(q, h2) PROVE p \in CallsIn(q, h)
    <3>1. CASE m.calls = 0
      BY <1>1, <1>3, <2>1, <3>1
    <3>2. CASE m.by # q
      <4>1. h2[p[1]].by = q /\ p[1] \in 1 .. n + 1
        BY <1>1, <2>1 DEF CallsIn
      <4>2. p \notin row
        BY <1>1, <3>2, <4>1
      <4>3. QED
        BY <1>3, <2>1, <4>2
    <3>3. QED
      BY <3>1, <3>2
  <2>2. QED
    BY <2>1
<1>10. QED
  BY <1>6, <1>7, <1>8, <1>9 DEF h2

LEMMA HistoryIsMessages ==
    ASSUME TurnInv
    PROVE  /\ history \in Seq(Messages)
           /\ \A i \in DOMAIN history :
                 history[i].by \in Runs /\ history[i].calls \in Nat /\ history[i].answers \in Seq(Answers)
<1>1. history \in Seq(Messages)
  BY DEF TurnInv
<1>2. ASSUME NEW i \in DOMAIN history
      PROVE  history[i].by \in Runs /\ history[i].calls \in Nat /\ history[i].answers \in Seq(Answers)
  <2>1. history[i] \in Messages
    BY <1>1
  <2>2. QED
    BY <2>1 DEF Messages
<1>3. QED
  BY <1>1, <1>2

\* A step of the active run that stores a message.
LEMMA RunStores ==
    ASSUME TurnInv, NEW r \in Runs, run[r].phase \in Working, NEW rec, NEW m \in Messages,
           m.by = r, Steps(r, rec, Append(history, m)), run' = [run EXCEPT ![r] = rec],
           history' = Append(history, m), UNCHANGED agent,
           DOMAIN session' = DOMAIN session, session'.active = session.active,
           m.kind = "results" =>
              /\ LastAsks(r, run[r], history) /\ Len(m.answers) = Len(run[r].plan)
              /\ \A k \in DOMAIN m.answers :
                    m.answers[k] # StandIn /\ (m.answers[k] \in {"none", "aborted"} => run[r].muted)
    PROVE  TurnInv' /\ AnswersKept
<1>1. DOMAIN run' = Runs /\ run'[r] = rec /\ \A q \in Runs : q # r => run'[q] = run[q]
  BY DEF TurnInv
<1>2. history \in Seq(Messages) /\ \A i \in DOMAIN history : history[i].by \in Runs
  BY HistoryIsMessages
<1>3. \A q \in Runs : RunSound(q, run'[q], history')
  <2>1. ASSUME NEW q \in Runs, q # r PROVE RunSound(q, run[q], Append(history, m))
    <3>1. run[q].phase \notin Working
      BY <2>1, ActiveIsAlone
    <3>2. CallsIn(q, Append(history, m)) = CallsIn(q, history)
      BY <1>2, <2>1, CallsStored
    <3>3. RunSound(q, run[q], history)
      BY DEF TurnInv
    <3>4. run[q].phase \notin Stoppable /\ run[q].phase \notin Tooling
          /\ run[q].phase \notin {"assistant", "announce"} /\ run[q].phase \notin {"announce"} \cup Tooling
      BY <3>1, PhaseSets
    <3>5. QED
      BY <3>2, <3>3, <3>4 DEF RunSound, CallsWithin
  <2>2. QED
    BY <1>1, <2>1 DEF Steps
<1>4. \A q \in Runs : run'[q].phase \in Working <=> run[q].phase \in Working
  BY <1>1 DEF Steps
<1>5. CountedRuns' = CountedRuns
  BY <1>1, PhaseSets DEF CountedRuns, Steps
<1>6. AgentSound' /\ SessionSound'
  BY <1>4, <1>5 DEF TurnInv, AgentSound, SessionSound
<1>7. \A q \in Runs : run[q].muted => run'[q].muted
  BY <1>1 DEF Steps
<1>8. history' \in Seq(Messages)
  BY <1>2
<1>9. ResultsFollow'
  <2> SUFFICES ASSUME NEW i \in DOMAIN history', history'[i].kind = "results"
               PROVE  /\ i > 1 /\ history'[i - 1].kind = "assistant"
                      /\ history'[i - 1].by = history'[i].by
                      /\ history'[i - 1].calls = Len(history'[i].answers)
                      /\ \A k \in DOMAIN history'[i].answers :
                            /\ history'[i].answers[k] # StandIn
                            /\ history'[i].answers[k] \in {"none", "aborted"} => run'[history'[i].by].muted
    BY DEF ResultsFollow
  <2> DEFINE n == Len(history)
  <2>1. /\ n \in Nat /\ Len(history') = n + 1 /\ history'[n + 1] = m
        /\ DOMAIN history' = 1 .. n + 1 /\ DOMAIN history = 1 .. n
        /\ \A j \in 1 .. n : history'[j] = history[j]
    BY <1>2
  <2> HIDE DEF n
  <2>2. CASE i \in 1 .. n
    <3>1. history'[i] = history[i] /\ history[i].by \in Runs
      BY <1>2, <2>1, <2>2
    <3>2. /\ i > 1 /\ history[i - 1].kind = "assistant" /\ history[i - 1].by = history[i].by
          /\ history[i - 1].calls = Len(history[i].answers)
          /\ \A k \in DOMAIN history[i].answers :
                /\ history[i].answers[k] # StandIn
                /\ history[i].answers[k] \in {"none", "aborted"} => run[history[i].by].muted
      BY <2>1, <2>2, <3>1 DEF TurnInv, ResultsFollow
    <3>3. history'[i - 1] = history[i - 1]
      BY <2>1, <2>2, <3>2
    <3>4. QED
      BY <1>7, <3>1, <3>2, <3>3
  <2>3. CASE i = n + 1
    <3>1. /\ history # <<>> /\ history[n].kind = "assistant" /\ history[n].by = r
          /\ history[n].calls = Len(run[r].plan) /\ Len(m.answers) = Len(run[r].plan)
          /\ \A k \in DOMAIN m.answers :
                m.answers[k] # StandIn /\ (m.answers[k] \in {"none", "aborted"} => run[r].muted)
      BY <2>1, <2>3 DEF LastAsks, n
    <3>2. n >= 1
      BY <1>2, <2>1, <3>1 DEF n
    <3>3. i - 1 = n /\ n \in 1 .. n
      BY <2>1, <2>3, <3>2
    <3>4. history'[i - 1] = history[n]
      BY <2>1, <3>3
    <3>5. QED
      BY <1>7, <2>1, <2>3, <3>1, <3>2, <3>4
  <2>4. QED
    BY <2>1, <2>2, <2>3
<1>10. AnswersKept
  BY <1>1 DEF AnswersKept, Steps, FinalKept
<1>11. QED
  BY <1>1, <1>3, <1>6, <1>8, <1>9, <1>10 DEF TurnInv

-----------------------------------------------------------------------------
\* How a run ends

LEMMA CallsAreFew ==
    ASSUME TurnInv, NEW r \in Runs, run[r].phase \in Working
    PROVE  RunSound(r, run[r], history) /\ Cardinality(CallsIn(r, history)) <= CallLimit
BY DEF TurnInv, RunSound, CallsWithin

LEMMA EndedRun ==
    ASSUME TurnInv, NEW r \in Runs, run[r].phase \in Stoppable, NEW rec, NEW subtype,
           IsRun(rec), rec.results = run[r].results, rec.muted = run[r].muted
    PROVE  /\ Steps(r, Ended(rec, subtype), history)
           /\ run[r].muted => Steps(r, Quit(rec), history)
<1>1. run[r].phase \in Working /\ run[r].phase # "idle"
  BY PhaseSets
<1>2. RunSound(r, run[r], history) /\ Cardinality(CallsIn(r, history)) <= CallLimit
  BY <1>1, CallsAreFew
<1>3. run[r].results = <<>>
  BY <1>2 DEF RunSound
<1>4. ASSUME NEW base, IsRun(base), base.muted = run[r].muted,
             (base.results = <<>> /\ run[r].muted) \/ (\E s : base.results = <<s>>)
      PROVE  Steps(r, Quit(base), history)
  <2> DEFINE new == Quit(base)
  <2>1. /\ IsRun(new) /\ new.phase = "exit" /\ new.results = base.results
        /\ new.muted = base.muted /\ new.plan = <<>> /\ new.called = 0 /\ new.answers = <<>>
    BY <1>4, NewRunFacts DEF Quit, Left, IsRun, Fields
  <2> HIDE DEF new
  <2>2. CallsWithin(r, new, history)
    BY <1>2, <2>1, PhaseSets DEF CallsWithin
  <2>3. RunSound(r, new, history)
    <3>1. new.phase \notin Stoppable \cup {"idle", "assistant", "announce"} \cup Tooling
      BY <2>1, PhaseSets
    <3>2. (new.results = <<>> \/ \E s : new.results = <<s>>) /\ (~new.muted => new.results # <<>>)
      <4>1. new.results = base.results /\ new.muted = run[r].muted
        BY <1>4, <2>1
      <4>2. CASE base.results = <<>> /\ run[r].muted
        BY <4>1, <4>2
      <4>3. CASE \E s : base.results = <<s>>
        <5>1. PICK s : base.results = <<s>>
          BY <4>3
        <5>2. <<s>> # <<>>
          OBVIOUS
        <5>3. QED
          BY <4>1, <5>1, <5>2
      <4>4. QED
        BY <1>4, <4>2, <4>3
    <3>3. new.plan \in Seq(STRING) /\ new.called \in Nat
      BY <2>1
    <3> QED BY <2>1, <2>2, <3>1, <3>2, <3>3 DEF RunSound
  <2>4. FinalKept(run[r], new)
    BY <2>1 DEF FinalKept
  <2>5. QED
    BY <1>4, <2>1, <2>3, <2>4, PhaseSets DEF Steps, new
<1>5. run[r].muted => Steps(r, Quit(rec), history)
  BY <1>3, <1>4
<1>6. Steps(r, Ended(rec, subtype), history)
  <2> DEFINE base == [rec EXCEPT !.results = IF rec.muted THEN @ ELSE Append(@, subtype)]
  <2>1. IsRun(base) /\ base.muted = run[r].muted
        /\ base.results = IF rec.muted THEN rec.results ELSE Append(rec.results, subtype)
    BY DEF IsRun, Fields
  <2> HIDE DEF base
  <2>2. (base.results = <<>> /\ run[r].muted) \/ (\E s : base.results = <<s>>)
    <3>1. Append(<<>>, subtype) = <<subtype>>
      OBVIOUS
    <3>2. CASE rec.muted
      BY <1>3, <2>1, <3>2
    <3>3. CASE ~rec.muted
      BY <1>3, <2>1, <3>1, <3>3
    <3>4. QED
      BY <3>2, <3>3
  <2>3. Steps(r, Quit(base), history)
    BY <1>4, <2>1, <2>2
  <2>4. QED
    BY <2>3 DEF Ended, base
<1>7. QED
  BY <1>5, <1>6

\* The ends of a run, as steps of the system.
LEMMA RunEnds ==
    ASSUME TurnInv, NEW r \in Runs, run[r].phase \in Stoppable, NEW rec,
           IsRun(rec), rec.results = run[r].results, rec.muted = run[r].muted,
           \/ \E subtype : run' = [run EXCEPT ![r] = Ended(rec, subtype)]
           \/ run[r].muted /\ run' = [run EXCEPT ![r] = Quit(rec)],
           UNCHANGED <<agent, history>>, DOMAIN session' = DOMAIN session,
           session'.active = session.active
    PROVE  TurnInv' /\ AnswersKept
<1>1. run[r].phase \in Working
  BY PhaseSets
<1>2. ASSUME NEW subtype, run' = [run EXCEPT ![r] = Ended(rec, subtype)]
      PROVE  TurnInv' /\ AnswersKept
  <2> DEFINE new == Ended(rec, subtype)
  <2>1. Steps(r, new, history) /\ run' = [run EXCEPT ![r] = new]
    BY <1>2, EndedRun
  <2> HIDE DEF new
  <2>2. QED
    BY <1>1, <2>1, RunMoves
<1>3. CASE run[r].muted /\ run' = [run EXCEPT ![r] = Quit(rec)]
  <2> DEFINE new == Quit(rec)
  <2>1. Steps(r, new, history) /\ run' = [run EXCEPT ![r] = new]
    <3> DEFINE e == "none"
    <3> HIDE DEF e
    <3>1. run[r].muted => Steps(r, Quit(rec), history)
      <4>1. Steps(r, Ended(rec, e), history) /\ (run[r].muted => Steps(r, Quit(rec), history))
        BY EndedRun
      <4>2. QED
        BY <4>1
    <3>2. QED
      BY <1>3, <3>1
  <2> HIDE DEF new
  <2>2. QED
    BY <1>1, <2>1, RunMoves
<1>4. QED
  BY <1>2, <1>3

-----------------------------------------------------------------------------
\* Steps between the phases without calls, and the ways to stop a run

\* A run that has no call to deal with goes on to have none.
LEMMA QuietGoesOn ==
    ASSUME TurnInv, NEW r \in Runs, run[r].phase \in Quiet, NEW rec, IsRun(rec),
           rec.phase \in Quiet, rec.results = run[r].results, rec.muted = run[r].muted,
           rec.called = run[r].called, rec.plan = run[r].plan, rec.answers = run[r].answers,
           run' = [run EXCEPT ![r] = rec],
           UNCHANGED <<agent, history>>, DOMAIN session' = DOMAIN session,
           session'.active = session.active
    PROVE  TurnInv' /\ AnswersKept
<1>1. run[r].phase \in Working /\ run[r].phase \in Stoppable /\ rec.phase \in Stoppable
      /\ rec.phase \in Working /\ rec.phase \notin {"announce"} \cup Tooling
      /\ rec.phase \notin {"assistant", "announce", "idle"} /\ run[r].phase \notin {"assistant", "idle"}
      /\ rec.phase \notin {"exit", "released", "ended"} /\ run[r].phase \notin Tooling
  BY PhaseSets
<1>2. RunSound(r, run[r], history)
  BY <1>1, CallsAreFew
<1>3. CallsWithin(r, rec, history)
  BY <1>1, <1>2 DEF RunSound, CallsWithin
<1>4. RunSound(r, rec, history)
  BY <1>1, <1>2, <1>3 DEF RunSound
<1>5. FinalKept(run[r], rec)
  BY DEF FinalKept
<1>6. Steps(r, rec, history)
  BY <1>1, <1>4, <1>5 DEF Steps
<1>7. QED
  BY <1>1, <1>6, RunMoves

\* A run that is only told something stays where it is.
LEMMA RunIsTold ==
    ASSUME TurnInv, NEW r \in Runs, run[r].phase \in Stoppable, NEW rec, IsRun(rec),
           rec.phase = run[r].phase, rec.results = run[r].results,
           run[r].muted => rec.muted, run[r].cancelled => rec.cancelled,
           rec.called = run[r].called, rec.plan = run[r].plan, rec.answers = run[r].answers,
           rec.slots = run[r].slots, rec.at = run[r].at, rec.stop = run[r].stop,
           run' = [run EXCEPT ![r] = rec], UNCHANGED <<agent, session, history>>
    PROVE  TurnInv' /\ AnswersKept
<1>1. run[r].phase \in Working /\ run[r].phase \notin {"exit", "released", "ended"}
  BY PhaseSets
<1>2. RunSound(r, run[r], history)
  BY <1>1, CallsAreFew
<1>3. CallsWithin(r, rec, history) /\ (rec.phase \in {"announce"} \cup Tooling => LastAsks(r, rec, history))
  BY <1>2 DEF RunSound, CallsWithin, LastAsks
<1>4. rec.phase \in Tooling => ToolsSound(rec)
  BY <1>2 DEF RunSound, ToolsSound, CallSound
<1>5. RunSound(r, rec, history)
  BY <1>1, <1>2, <1>3, <1>4 DEF RunSound
<1>6. FinalKept(run[r], rec)
  BY DEF FinalKept
<1>7. Steps(r, rec, history)
  BY <1>1, <1>5, <1>6 DEF Steps
<1>8. QED
  BY <1>1, <1>7, RunMoves

LEMMA StopKeeps ==
    ASSUME TurnInv, NEW r \in Runs, Stop(r)
    PROVE  TurnInv' /\ AnswersKept
<1>1. ASSUME run[r].phase \in Stoppable PROVE IsRun(run[r])
  BY DEF TurnInv, RunSound
<1>2. CASE Abort(r)
  <2> DEFINE rec == [run[r] EXCEPT !.cancelled = TRUE]
  <2>1. run[r].phase \in Stoppable
    BY <1>2 DEF Abort
  <2>2. /\ IsRun(rec) /\ rec.phase = run[r].phase /\ rec.results = run[r].results
        /\ rec.muted = run[r].muted /\ rec.called = run[r].called /\ rec.plan = run[r].plan
        /\ rec.answers = run[r].answers /\ rec.slots = run[r].slots /\ rec.at = run[r].at
        /\ rec.stop = run[r].stop /\ (run[r].cancelled => rec.cancelled)
    BY <1>1, <2>1 DEF IsRun, Fields
  <2>3. run' = [run EXCEPT ![r] = rec] /\ UNCHANGED <<agent, session, history>>
    BY <1>2 DEF Abort, SetRun
  <2> HIDE DEF rec
  <2>4. QED
    BY <2>1, <2>2, <2>3, RunIsTold
<1>3. CASE CloseHandle(r)
  <2> DEFINE rec == [run[r] EXCEPT !.muted = TRUE, !.closing = TRUE]
  <2>1. run[r].phase \in Stoppable
    BY <1>3 DEF CloseHandle
  <2>2. /\ IsRun(rec) /\ rec.phase = run[r].phase /\ rec.results = run[r].results
        /\ rec.muted = TRUE /\ rec.called = run[r].called /\ rec.plan = run[r].plan
        /\ rec.answers = run[r].answers /\ rec.slots = run[r].slots /\ rec.at = run[r].at
        /\ rec.stop = run[r].stop /\ (run[r].cancelled => rec.cancelled)
    BY <1>1, <2>1 DEF IsRun, Fields
  <2>3. run' = [run EXCEPT ![r] = rec] /\ UNCHANGED <<agent, session, history>>
    BY <1>3 DEF CloseHandle, SetRun
  <2> HIDE DEF rec
  <2>4. QED
    BY <2>1, <2>2, <2>3, RunIsTold
<1>4. CASE CloseWork(r)
  <2> DEFINE rec == [run[r] EXCEPT !.cancelled = TRUE]
  <2>1. run[r].phase \in Stoppable
    BY <1>4 DEF CloseWork
  <2>2. /\ IsRun(rec) /\ rec.phase = run[r].phase /\ rec.results = run[r].results
        /\ rec.muted = run[r].muted /\ rec.called = run[r].called /\ rec.plan = run[r].plan
        /\ rec.answers = run[r].answers /\ rec.slots = run[r].slots /\ rec.at = run[r].at
        /\ rec.stop = run[r].stop /\ (run[r].cancelled => rec.cancelled)
    BY <1>1, <2>1 DEF IsRun, Fields
  <2>3. run' = [run EXCEPT ![r] = rec] /\ UNCHANGED <<agent, session, history>>
    BY <1>4 DEF CloseWork, SetRun, Stay
  <2> HIDE DEF rec
  <2>4. QED
    BY <2>1, <2>2, <2>3, RunIsTold
<1>5. CASE LifecycleCancel(r)
  <2> DEFINE rec == [run[r] EXCEPT !.muted = run[r].cancelled, !.cancelled = TRUE]
  <2>1. run[r].phase \in Stoppable /\ ~run[r].muted
    BY <1>5 DEF LifecycleCancel
  <2>2. /\ IsRun(rec) /\ rec.phase = run[r].phase /\ rec.results = run[r].results
        /\ rec.muted = run[r].cancelled /\ rec.called = run[r].called /\ rec.plan = run[r].plan
        /\ rec.answers = run[r].answers /\ rec.slots = run[r].slots /\ rec.at = run[r].at
        /\ rec.stop = run[r].stop /\ (run[r].cancelled => rec.cancelled)
    BY <1>1, <2>1 DEF IsRun, Fields
  <2>3. run' = [run EXCEPT ![r] = rec] /\ UNCHANGED <<agent, session, history>>
    BY <1>5 DEF LifecycleCancel, SetRun, Stay
  <2> HIDE DEF rec
  <2>4. QED
    BY <2>1, <2>2, <2>3, RunIsTold
<1>6. CASE StopReading(r)
  <2> DEFINE rec == [run[r] EXCEPT !.stuck = TRUE]
  <2>1. run[r].phase \in Stoppable
    BY <1>6 DEF StopReading
  <2>2. /\ IsRun(rec) /\ rec.phase = run[r].phase /\ rec.results = run[r].results
        /\ rec.muted = run[r].muted /\ rec.called = run[r].called /\ rec.plan = run[r].plan
        /\ rec.answers = run[r].answers /\ rec.slots = run[r].slots /\ rec.at = run[r].at
        /\ rec.stop = run[r].stop /\ (run[r].cancelled => rec.cancelled)
    BY <1>1, <2>1 DEF IsRun, Fields
  <2>3. run' = [run EXCEPT ![r] = rec] /\ UNCHANGED <<agent, session, history>>
    BY <1>6 DEF StopReading, SetRun
  <2> HIDE DEF rec
  <2>4. QED
    BY <2>1, <2>2, <2>3, RunIsTold
<1>7. QED
  BY <1>2, <1>3, <1>4, <1>5, <1>6 DEF Stop

-----------------------------------------------------------------------------
\* The turn loop

\* What a run looks like in a phase without calls.
LEMMA QuietRun ==
    ASSUME TurnInv, NEW r \in Runs, run[r].phase \in Quiet
    PROVE  IsRun(run[r]) /\ run[r].phase \in Stoppable /\ run[r].phase \in Working
BY PhaseSets DEF TurnInv, RunSound

LEMMA SessionShape ==
    ASSUME TurnInv
    PROVE  DOMAIN session = {"active", "view", "skills"}
BY DEF TurnInv, SessionSound

\* A step ends the run with some result, or, on a muted stream, with none.
RunStops(r) ==
    \/ \E subtype : run' = [run EXCEPT ![r] = Ended(run[r], subtype)]
    \/ run[r].muted /\ run' = [run EXCEPT ![r] = Quit(run[r])]

LEMMA StopsKeep ==
    ASSUME TurnInv, NEW r \in Runs, run[r].phase \in Stoppable, RunStops(r),
           UNCHANGED <<agent, history>>, DOMAIN session' = DOMAIN session,
           session'.active = session.active
    PROVE  TurnInv' /\ AnswersKept
<1> DEFINE rec == run[r]
<1>1. IsRun(rec) /\ rec.results = run[r].results /\ rec.muted = run[r].muted
  BY DEF TurnInv, RunSound
<1>2. \/ \E subtype : run' = [run EXCEPT ![r] = Ended(rec, subtype)]
      \/ run[r].muted /\ run' = [run EXCEPT ![r] = Quit(rec)]
  BY DEF RunStops
<1> HIDE DEF rec
<1>3. QED
  BY <1>1, <1>2, RunEnds

LEMMA EndsWith ==
    ASSUME TurnInv, NEW r \in Runs, run[r].phase \in Stoppable, NEW subtype,
           EndWith(r, subtype), Stay
    PROVE  TurnInv' /\ AnswersKept
<1>1. /\ RunStops(r) /\ UNCHANGED <<agent, history>>
      /\ DOMAIN session' = DOMAIN session /\ session'.active = session.active
  BY DEF EndWith, Stay, SetRun, RunStops
<1>2. QED
  BY <1>1, StopsKeep

LEMMA StoreFailsKeeps ==
    ASSUME TurnInv, NEW r \in Runs, run[r].phase \in Stoppable, StoreFails(r)
    PROVE  TurnInv' /\ AnswersKept
<1> DEFINE subtype == IF run[r].cancelled THEN "aborted" ELSE "error"
<1>1. EndWith(r, subtype) /\ Stay
  BY DEF StoreFails
<1> HIDE DEF subtype
<1>2. QED
  BY <1>1, EndsWith

LEMMA LoadRuntimeKeeps ==
    ASSUME TurnInv, NEW r \in Runs, LoadRuntime(r)
    PROVE  TurnInv' /\ AnswersKept
<1>1. run[r].phase = "start" /\ run[r].phase \in Quiet /\ UNCHANGED <<agent, session, history>>
  BY DEF LoadRuntime, InPhase, Stay, Quiet
<1>2. IsRun(run[r]) /\ run[r].phase \in Stoppable /\ run[r].phase \in Working
  BY <1>1, QuietRun
<1> DEFINE rec == [run[r] EXCEPT !.phase = "prompt"]
<1>3. /\ IsRun(rec) /\ rec.phase \in Quiet /\ rec.results = run[r].results
      /\ rec.muted = run[r].muted /\ rec.called = run[r].called /\ rec.plan = run[r].plan
      /\ rec.answers = run[r].answers
  BY <1>2 DEF IsRun, Fields, Quiet
<1>4. RunStops(r) \/ run' = [run EXCEPT ![r] = rec]
  BY DEF LoadRuntime, SetRun, RunStops
<1> HIDE DEF rec
<1>5. CASE run' = [run EXCEPT ![r] = rec]
  BY <1>1, <1>3, <1>5, QuietGoesOn
<1>6. CASE RunStops(r)
  BY <1>1, <1>2, <1>6, StopsKeep
<1>7. QED
  BY <1>4, <1>5, <1>6

LEMMA TurnKeeps ==
    ASSUME TurnInv, NEW r \in Runs, Turn(r)
    PROVE  TurnInv' /\ AnswersKept
<1>1. run[r].phase = "turn" /\ run[r].phase \in Quiet /\ UNCHANGED <<agent, session, history>>
  BY DEF Turn, InPhase, Stay, Quiet
<1>2. IsRun(run[r]) /\ run[r].phase \in Stoppable /\ run[r].phase \in Working
  BY <1>1, QuietRun
<1> DEFINE rec == [run[r] EXCEPT !.turn = @ + 1,
                      !.phase = IF Len(session.view) >= CompactAt THEN "compact" ELSE "request"]
<1>3. /\ IsRun(rec) /\ rec.phase \in Quiet /\ rec.results = run[r].results
      /\ rec.muted = run[r].muted /\ rec.called = run[r].called /\ rec.plan = run[r].plan
      /\ rec.answers = run[r].answers
  BY <1>2 DEF IsRun, Fields, Quiet
<1>4. RunStops(r) \/ run' = [run EXCEPT ![r] = rec]
  BY DEF Turn, SetRun, RunStops
<1> HIDE DEF rec
<1>5. CASE run' = [run EXCEPT ![r] = rec]
  BY <1>1, <1>3, <1>5, QuietGoesOn
<1>6. CASE RunStops(r)
  BY <1>1, <1>2, <1>6, StopsKeep
<1>7. QED
  BY <1>4, <1>5, <1>6

LEMMA CompactKeeps ==
    ASSUME TurnInv, NEW r \in Runs, Compact(r)
    PROVE  TurnInv' /\ AnswersKept
<1>1. run[r].phase = "compact" /\ run[r].phase \in Quiet /\ UNCHANGED <<agent, session, history>>
      /\ Stay
  BY DEF Compact, InPhase, Stay, Quiet
<1>2. IsRun(run[r]) /\ run[r].phase \in Stoppable /\ run[r].phase \in Working
  BY <1>1, QuietRun
<1> DEFINE skip == [run[r] EXCEPT !.phase = "request"]
           blank == [run[r] EXCEPT !.phase = "request", !.used = @ + 1]
           Rec(told) == [run[r] EXCEPT !.phase = "install", !.used = @ + 1, !.summary = told]
<1>3. ASSUME NEW rec, rec \in {skip, blank} \/ \E told : rec = Rec(told)
      PROVE  /\ IsRun(rec) /\ rec.phase \in Quiet /\ rec.results = run[r].results
             /\ rec.muted = run[r].muted /\ rec.called = run[r].called /\ rec.plan = run[r].plan
             /\ rec.answers = run[r].answers
  BY <1>2, <1>3 DEF IsRun, Fields, Quiet
<1>4. \/ RunStops(r)
      \/ \E rec : /\ rec \in {skip, blank} \/ \E told : rec = Rec(told)
                  /\ run' = [run EXCEPT ![r] = rec]
  <2>1. \/ RunStops(r)
        \/ run' = [run EXCEPT ![r] = skip]
        \/ run' = [run EXCEPT ![r] = blank]
        \/ \E told : run' = [run EXCEPT ![r] = Rec(told)]
    BY DEF Compact, SetRun, EndWith, RunStops
  <2> HIDE DEF skip, blank, Rec
  <2>2. QED
    BY <2>1
<1> HIDE DEF skip, blank, Rec
<1>5. CASE \E rec : /\ rec \in {skip, blank} \/ \E told : rec = Rec(told)
                   /\ run' = [run EXCEPT ![r] = rec]
  BY <1>1, <1>3, <1>5, QuietGoesOn
<1>6. CASE RunStops(r)
  BY <1>1, <1>2, <1>6, StopsKeep
<1>7. QED
  BY <1>4, <1>5, <1>6

LEMMA InstallKeeps ==
    ASSUME TurnInv, NEW r \in Runs, Install(r)
    PROVE  TurnInv' /\ AnswersKept
<1>1. run[r].phase = "install" /\ run[r].phase \in Quiet /\ UNCHANGED <<agent, history>>
      /\ DOMAIN session' = DOMAIN session /\ session'.active = session.active
  BY SessionShape DEF Install, InPhase, Quiet
<1>2. IsRun(run[r]) /\ run[r].phase \in Stoppable /\ run[r].phase \in Working
  BY <1>1, QuietRun
<1> DEFINE rec == [run[r] EXCEPT !.phase = "request", !.summary = 0]
<1>3. /\ IsRun(rec) /\ rec.phase \in Quiet /\ rec.results = run[r].results
      /\ rec.muted = run[r].muted /\ rec.called = run[r].called /\ rec.plan = run[r].plan
      /\ rec.answers = run[r].answers
  BY <1>2 DEF IsRun, Fields, Quiet
<1>4. RunStops(r) \/ run' = [run EXCEPT ![r] = rec]
  BY DEF Install, SetRun, RunStops
<1> HIDE DEF rec
<1>5. CASE run' = [run EXCEPT ![r] = rec]
  BY <1>1, <1>3, <1>5, QuietGoesOn
<1>6. CASE RunStops(r)
  BY <1>1, <1>2, <1>6, StopsKeep
<1>7. QED
  BY <1>4, <1>5, <1>6

LEMMA RequestKeeps ==
    ASSUME TurnInv, NEW r \in Runs, Request(r)
    PROVE  TurnInv' /\ AnswersKept
<1>1. run[r].phase = "request" /\ run[r].phase \in Quiet /\ UNCHANGED <<agent, session, history>>
      /\ Stay
  BY DEF Request, InPhase, Stay, Quiet
<1>2. IsRun(run[r]) /\ run[r].phase \in Stoppable /\ run[r].phase \in Working
  BY <1>1, QuietRun
<1> DEFINE rec == [run[r] EXCEPT !.phase = "stream"]
<1>3. /\ IsRun(rec) /\ rec.phase \in Quiet /\ rec.results = run[r].results
      /\ rec.muted = run[r].muted /\ rec.called = run[r].called /\ rec.plan = run[r].plan
      /\ rec.answers = run[r].answers
  BY <1>2 DEF IsRun, Fields, Quiet
<1>4. RunStops(r) \/ run' = [run EXCEPT ![r] = rec]
  BY DEF Request, SetRun, EndWith, RunStops
<1> HIDE DEF rec
<1>5. CASE run' = [run EXCEPT ![r] = rec]
  BY <1>1, <1>3, <1>5, QuietGoesOn
<1>6. CASE RunStops(r)
  BY <1>1, <1>2, <1>6, StopsKeep
<1>7. QED
  BY <1>4, <1>5, <1>6

LEMMA StreamFailsKeeps ==
    ASSUME TurnInv, NEW r \in Runs, StreamFails(r)
    PROVE  TurnInv' /\ AnswersKept
<1>1. run[r].phase = "stream" /\ run[r].phase \in Quiet /\ UNCHANGED <<agent, session, history>>
      /\ Stay
  BY DEF StreamFails, InPhase, Stay, Quiet
<1>2. IsRun(run[r]) /\ run[r].phase \in Stoppable /\ run[r].phase \in Working
  BY <1>1, QuietRun
<1> DEFINE again == [run[r] EXCEPT !.attempt = @ + 1]
           rec == [run[r] EXCEPT !.phase = "compact", !.forced = TRUE, !.attempt = 1]
<1>3. /\ IsRun(rec) /\ rec.phase \in Quiet /\ rec.results = run[r].results
      /\ rec.muted = run[r].muted /\ rec.called = run[r].called /\ rec.plan = run[r].plan
      /\ rec.answers = run[r].answers
  BY <1>2 DEF IsRun, Fields, Quiet
<1>4. /\ IsRun(again) /\ again.phase \in Quiet /\ again.results = run[r].results
      /\ again.muted = run[r].muted /\ again.called = run[r].called /\ again.plan = run[r].plan
      /\ again.answers = run[r].answers
  BY <1>1, <1>2 DEF IsRun, Fields
<1>5. \/ RunStops(r)
      \/ run' = [run EXCEPT ![r] = rec]
      \/ run' = [run EXCEPT ![r] = again]
  BY DEF StreamFails, SetRun, EndWith, RunStops
<1> HIDE DEF rec, again
<1>6. CASE run' = [run EXCEPT ![r] = rec]
  BY <1>1, <1>3, <1>6, QuietGoesOn
<1>7. CASE run' = [run EXCEPT ![r] = again]
  BY <1>1, <1>4, <1>7, QuietGoesOn
<1>8. CASE RunStops(r)
  BY <1>1, <1>2, <1>8, StopsKeep
<1>9. QED
  BY <1>5, <1>6, <1>7, <1>8

\* What a run has stored, while it works.
LEMMA CallsSoFar ==
    ASSUME TurnInv, NEW r \in Runs, run[r].phase \in Stoppable
    PROVE  /\ RunSound(r, run[r], history) /\ IsRun(run[r]) /\ run[r].phase \in Working
           /\ run[r].results = <<>> /\ run[r].called \in Nat /\ run[r].called <= CallLimit
           /\ Cardinality(CallsIn(r, history)) \in Nat
           /\ Cardinality(CallsIn(r, history)) <= run[r].called
           /\ run[r].plan \in Seq(STRING) /\ Len(run[r].plan) \in Nat
<1>1. run[r].phase \in Working
  BY PhaseSets
<1>2. RunSound(r, run[r], history)
  BY DEF TurnInv
<1>3. /\ run[r].results = <<>> /\ run[r].called \in Nat /\ run[r].called <= CallLimit
      /\ Cardinality(CallsIn(r, history)) <= run[r].called /\ run[r].plan \in Seq(STRING)
      /\ IsRun(run[r])
  BY <1>2 DEF RunSound, CallsWithin
<1>4. Cardinality(CallsIn(r, history)) \in Nat
  <2>1. IsFiniteSet(1 .. Len(history)) /\ IsFiniteSet(1 .. CallLimit + 1)
    <3>1. Len(history) \in Nat
      BY HistoryIsMessages
    <3>2. QED
      BY <3>1, Limits, FS_Interval
  <2>2. IsFiniteSet(CallsIn(r, history))
    BY <2>1, FS_Product, FS_Subset DEF CallsIn
  <2>3. QED
    BY <2>2, FS_CardinalityType
<1>5. Len(run[r].plan) \in Nat
  BY <1>3
<1>6. QED
  BY <1>1, <1>2, <1>3, <1>4, <1>5

\* A message without calls is stored, and the run goes on without calls.
LEMMA StoresNoCall ==
    ASSUME TurnInv, NEW r \in Runs, run[r].phase \in Stoppable, NEW rec, IsRun(rec),
           rec.phase \in Quiet, rec.results = run[r].results, rec.muted = run[r].muted,
           rec.called = run[r].called, rec.plan \in Seq(STRING), rec.answers = <<>>,
           NEW m \in Messages, m.calls = 0
    PROVE  Steps(r, rec, Append(history, m))
<1>1. /\ rec.phase \in Stoppable /\ rec.phase \in Working
      /\ rec.phase \notin {"announce"} \cup Tooling
      /\ rec.phase \notin {"assistant", "announce", "idle", "exit", "released", "ended"}
  BY PhaseSets
<1>2. CallsIn(r, Append(history, m)) = CallsIn(r, history)
  BY HistoryIsMessages, CallsStored
<1>3. CallsWithin(r, rec, Append(history, m))
  BY <1>1, <1>2, CallsSoFar, Limits DEF CallsWithin
<1>4. RunSound(r, rec, Append(history, m))
  BY <1>1, <1>3, CallsSoFar DEF RunSound
<1>5. FinalKept(run[r], rec)
  BY DEF FinalKept
<1>6. QED
  BY <1>1, <1>4, <1>5 DEF Steps

LEMMA StoreFacts ==
    ASSUME TurnInv, NEW m, Store(m)
    PROVE  /\ history' = Append(history, m) /\ DOMAIN session' = DOMAIN session
           /\ session'.active = session.active
BY SessionShape DEF Store

LEMMA AppendPromptKeeps ==
    ASSUME TurnInv, NEW r \in Runs, AppendPrompt(r)
    PROVE  TurnInv' /\ AnswersKept
<1>1. run[r].phase = "prompt" /\ run[r].phase \in Quiet
  BY DEF AppendPrompt, InPhase, Quiet
<1>2. IsRun(run[r]) /\ run[r].phase \in Stoppable /\ run[r].phase \in Working
  BY <1>1, QuietRun
<1>3. CASE StoreFails(r)
  BY <1>2, <1>3, StoreFailsKeeps
<1>4. CASE ~StoreFails(r)
  <2> DEFINE m == Message("user", r, 0, <<>>)
             rec == [run[r] EXCEPT !.phase = "turn"]
  <2>1. Store(m) /\ run' = [run EXCEPT ![r] = rec] /\ UNCHANGED agent
    BY <1>4 DEF AppendPrompt, SetRun
  <2>2. m \in Messages /\ m.calls = 0 /\ m.by = r /\ m.kind # "results"
    BY DEF Message, Messages
  <2>3. /\ IsRun(rec) /\ rec.phase \in Quiet /\ rec.results = run[r].results
        /\ rec.muted = run[r].muted /\ rec.called = run[r].called /\ rec.plan = run[r].plan
        /\ rec.answers = run[r].answers
    BY <1>2 DEF IsRun, Fields, Quiet
  <2>4. run[r].answers = <<>> /\ rec.plan \in Seq(STRING)
    BY <1>1, <1>2, <2>3, CallsSoFar, PhaseSets DEF RunSound
  <2> HIDE DEF m, rec
  <2>5. Steps(r, rec, Append(history, m))
    BY <1>2, <2>2, <2>3, <2>4, StoresNoCall
  <2>6. /\ history' = Append(history, m) /\ DOMAIN session' = DOMAIN session
        /\ session'.active = session.active
    BY <2>1, StoreFacts
  <2>7. QED
    BY <1>2, <2>1, <2>2, <2>5, <2>6, RunStores
<1>5. QED
  BY <1>3, <1>4

LEMMA StreamAnswersKeeps ==
    ASSUME TurnInv, NEW r \in Runs, NEW plan \in Plans[r], NEW stop,
           StreamAnswers(r, plan, stop)
    PROVE  TurnInv' /\ AnswersKept
<1>1. run[r].phase = "stream" /\ run[r].phase \in Quiet /\ UNCHANGED <<agent, session, history>>
      /\ (stop = "tool_use" => plan # <<>>)
  BY DEF StreamAnswers, InPhase, Quiet, Stay
<1>2. IsRun(run[r]) /\ run[r].phase \in Stoppable /\ run[r].phase \in Working
  BY <1>1, QuietRun
<1>3. plan \in Seq(STRING) /\ Len(plan) \in Nat
  BY SessionAssumption
<1> DEFINE answered == [run[r] EXCEPT !.used = @ + 1, !.called = @ + Len(plan),
                                      !.plan = plan, !.stop = stop,
                                      !.attempt = 1, !.forced = FALSE]
<1>4. /\ IsRun(answered) /\ answered.results = run[r].results /\ answered.muted = run[r].muted
      /\ answered.called = run[r].called + Len(plan) /\ answered.plan = plan
      /\ answered.stop = stop /\ answered.answers = run[r].answers
  BY <1>2 DEF IsRun, Fields
<1>5. \/ run' = [run EXCEPT ![r] = Ended(answered, "error")]
      \/ ~(answered.called > CallLimit) /\ run' = [run EXCEPT ![r] = [answered EXCEPT !.phase = "assistant"]]
  BY DEF StreamAnswers, SetRun
<1> HIDE DEF answered
<1>6. CASE run' = [run EXCEPT ![r] = Ended(answered, "error")]
  <2>1. \E subtype : run' = [run EXCEPT ![r] = Ended(answered, subtype)]
    BY <1>6
  <2>2. QED
    BY <1>1, <1>2, <1>4, <2>1, RunEnds
<1>7. CASE ~(answered.called > CallLimit) /\ run' = [run EXCEPT ![r] = [answered EXCEPT !.phase = "assistant"]]
  <2> DEFINE rec == [answered EXCEPT !.phase = "assistant"]
  <2>1. /\ IsRun(rec) /\ rec.phase = "assistant" /\ rec.results = run[r].results
        /\ rec.muted = run[r].muted /\ rec.called = run[r].called + Len(plan)
        /\ rec.plan = plan /\ rec.stop = stop /\ rec.answers = run[r].answers
    BY <1>4 DEF IsRun, Fields
  <2>2. run' = [run EXCEPT ![r] = rec]
    BY <1>7
  <2> HIDE DEF rec
  <2>3. /\ run[r].called \in Nat /\ Cardinality(CallsIn(r, history)) \in Nat
        /\ Cardinality(CallsIn(r, history)) <= run[r].called /\ run[r].results = <<>>
        /\ run[r].answers = <<>>
    BY <1>1, <1>2, CallsSoFar, PhaseSets DEF RunSound
  <2>4. rec.called \in Nat /\ rec.called <= CallLimit
        /\ Cardinality(CallsIn(r, history)) + Len(rec.plan) <= rec.called
        /\ Cardinality(CallsIn(r, history)) <= rec.called
        /\ Cardinality(CallsIn(r, history)) <= CallLimit
    BY <1>3, <1>4, <1>7, <2>1, <2>3, Limits
  <2>5. CallsWithin(r, rec, history)
    BY <2>1, <2>4 DEF CallsWithin
  <2>6. rec.phase \notin {"announce"} \cup Tooling /\ rec.phase \notin Tooling
        /\ rec.phase \notin {"exit", "released", "ended", "idle"} /\ rec.phase \in Working
    BY <2>1, PhaseSets
  <2>7. RunSound(r, rec, history)
    BY <1>1, <1>3, <2>1, <2>3, <2>4, <2>5, <2>6 DEF RunSound
  <2>8. FinalKept(run[r], rec)
    BY <2>1 DEF FinalKept
  <2>9. Steps(r, rec, history)
    BY <2>1, <2>6, <2>7, <2>8 DEF Steps
  <2>10. QED
    BY <1>1, <1>2, <2>2, <2>9, RunMoves
<1>8. QED
  BY <1>5, <1>6, <1>7

LEMMA AppendAssistantKeeps ==
    ASSUME TurnInv, NEW r \in Runs, AppendAssistant(r)
    PROVE  TurnInv' /\ AnswersKept
<1>1. run[r].phase = "assistant" /\ run[r].phase \in Stoppable /\ run[r].phase \in Working
  BY PhaseSets DEF AppendAssistant, InPhase
<1>2. CASE StoreFails(r)
  BY <1>1, <1>2, StoreFailsKeeps
<1>3. CASE ~StoreFails(r)
  <2> DEFINE m == Message("assistant", r, Len(run[r].plan), <<>>)
             rec == [run[r] EXCEPT !.phase = "announce"]
             h == Append(history, m)
  <2>1. Store(m) /\ run' = [run EXCEPT ![r] = rec] /\ UNCHANGED agent
    BY <1>3 DEF AppendAssistant, SetRun
  <2>2. /\ RunSound(r, run[r], history) /\ IsRun(run[r]) /\ run[r].results = <<>>
        /\ run[r].called \in Nat /\ run[r].called <= CallLimit
        /\ Cardinality(CallsIn(r, history)) \in Nat
        /\ run[r].plan \in Seq(STRING) /\ Len(run[r].plan) \in Nat
    BY <1>1, CallsSoFar
  <2>3. m \in Messages /\ m.calls = Len(run[r].plan) /\ m.by = r /\ m.kind = "assistant"
    BY <2>2 DEF Message, Messages
  <2>4. /\ IsRun(rec) /\ rec.phase = "announce" /\ rec.results = run[r].results
        /\ rec.muted = run[r].muted /\ rec.called = run[r].called /\ rec.plan = run[r].plan
        /\ rec.stop = run[r].stop /\ rec.answers = run[r].answers
    BY <2>2 DEF IsRun, Fields
  <2>5. /\ Cardinality(CallsIn(r, history)) + Len(run[r].plan) <= run[r].called
        /\ (run[r].stop = "tool_use" => run[r].plan # <<>>)
        /\ run[r].answers = <<>>
    BY <1>1, <2>2, PhaseSets DEF RunSound, CallsWithin, Tooling
  <2> HIDE DEF m, rec
  <2>6. h # <<>> /\ h[Len(h)] = m /\ h \in Seq(Messages)
    BY <2>3, HistoryIsMessages
  <2>7. Cardinality(CallsIn(r, h)) \in Nat /\ Cardinality(CallsIn(r, h)) <= run[r].called
    <3>1. /\ Cardinality(CallsIn(r, h)) \in Nat
          /\ Cardinality(CallsIn(r, h)) <= Cardinality(CallsIn(r, history)) + m.calls
      BY <2>3, HistoryIsMessages, CallsStored
    <3>2. QED
      BY <2>2, <2>3, <2>5, <3>1
  <2> HIDE DEF h
  <2>8. CallsWithin(r, rec, h)
    BY <2>2, <2>4, <2>7, Limits DEF CallsWithin
  <2>9. LastAsks(r, rec, h)
    BY <2>3, <2>4, <2>6 DEF LastAsks
  <2>10. rec.phase \notin Tooling /\ rec.phase \notin {"exit", "released", "ended"}
         /\ rec.phase \in Working
    BY <2>4, PhaseSets
  <2>11. RunSound(r, rec, h)
    BY <2>2, <2>4, <2>5, <2>8, <2>9, <2>10 DEF RunSound
  <2>12. FinalKept(run[r], rec)
    BY <2>4, <2>5 DEF FinalKept
  <2>13. Steps(r, rec, Append(history, m))
    BY <2>4, <2>10, <2>11, <2>12 DEF Steps, h
  <2>14. /\ history' = Append(history, m) /\ DOMAIN session' = DOMAIN session
         /\ session'.active = session.active /\ m.kind # "results"
    BY <2>1, <2>3, StoreFacts
  <2>15. QED
    BY <1>1, <2>1, <2>3, <2>13, <2>14, RunStores
<1>4. QED
  BY <1>2, <1>3

-----------------------------------------------------------------------------
\* Batches

LEMMA HasLast ==
    ASSUME NEW n \in Nat, NEW S, S \subseteq 1 .. n, S # {}
    PROVE  \E j \in S : \A i \in S : i <= j
<1> DEFINE R == OpToRel(<, Nat)
           T == {n - j : j \in S}
<1>1. IsWellFoundedOn(R, Nat)
  BY NatLessThanWellFounded
<1>2. T \subseteq Nat /\ T # {}
  <2>1. \A j \in S : n - j \in Nat
    OBVIOUS
  <2>2. QED
    BY <2>1
<1>3. \A x, y \in Nat : y < x => <<y, x>> \in R
  BY DEF OpToRel
<1> HIDE DEF R, T
<1>4. PICK x \in T : \A y \in T : ~(<<y, x>> \in R)
  BY <1>1, <1>2, WFMin
<1>5. PICK j \in S : x = n - j
  BY <1>4 DEF T
<1>6. ASSUME NEW i \in S PROVE i <= j
  <2>1. n - i \in T /\ n - i \in Nat /\ x \in Nat
    BY <1>2, <1>4 DEF T
  <2>2. ~(n - i < x)
    BY <1>3, <1>4, <2>1
  <2>3. QED
    BY <1>5, <2>2
<1>7. QED
  BY <1>5, <1>6

LEMMA BatchEndIn ==
    ASSUME NEW plan, Len(plan) \in Nat, NEW at \in 1 .. Len(plan)
    PROVE  BatchEnd(plan, at) \in at .. Len(plan)
<1> DEFINE par == {j \in at .. Len(plan) : \A i \in at .. j : plan[i] = "par"}
<1>1. par \subseteq 1 .. Len(plan) /\ par \subseteq at .. Len(plan)
  OBVIOUS
<1>2. BatchEnd(plan, at) = IF par = {} THEN at ELSE CHOOSE j \in par : \A i \in par : i <= j
  BY DEF BatchEnd
<1> HIDE DEF par
<1>3. CASE par = {}
  BY <1>2, <1>3
<1>4. CASE par # {}
  <2>1. \E j \in par : \A i \in par : i <= j
    BY <1>1, <1>4, HasLast
  <2>2. BatchEnd(plan, at) \in par
    BY <1>2, <1>4, <2>1
  <2>3. QED
    BY <1>1, <2>2
<1>5. QED
  BY <1>3, <1>4

LEMMA AnswerSeq ==
    ASSUME NEW n \in Nat, NEW f, f = [i \in 1 .. n |-> f[i]], \A i \in 1 .. n : f[i] \in Answers
    PROVE  f \in Seq(Answers) /\ Len(f) = n /\ DOMAIN f = 1 .. n
<1>1. f \in [1 .. n -> Answers]
  OBVIOUS
<1>2. QED
  BY <1>1

\* A run that deals with calls.
LEMMA ToolRun ==
    ASSUME TurnInv, NEW r \in Runs, run[r].phase \in Tooling
    PROVE  /\ IsRun(run[r]) /\ run[r].phase \in Stoppable /\ run[r].phase \in Working
           /\ ToolsSound(run[r]) /\ LastAsks(r, run[r], history) /\ Len(run[r].plan) \in Nat
           /\ DOMAIN run[r].answers = 1 .. Len(run[r].plan)
           /\ \A i \in 1 .. Len(run[r].plan) : run[r].answers[i] \in Answers
           /\ run[r].phase # "answer" =>
                 /\ run[r].at \in 1 .. Len(run[r].plan)
                 /\ BatchEnd(run[r].plan, run[r].at) \in run[r].at .. Len(run[r].plan)
                 /\ Batch(r) \subseteq 1 .. Len(run[r].plan)
<1>1. run[r].phase \in Stoppable /\ run[r].phase \in Working
  BY PhaseSets
<1>2. RunSound(r, run[r], history) /\ IsRun(run[r]) /\ Len(run[r].plan) \in Nat
  BY <1>1, CallsSoFar
<1>3. ToolsSound(run[r]) /\ LastAsks(r, run[r], history)
  BY <1>2 DEF RunSound
<1>4. run[r].answers \in Seq(Answers) /\ Len(run[r].answers) = Len(run[r].plan)
  BY <1>3 DEF ToolsSound
<1>5. DOMAIN run[r].answers = 1 .. Len(run[r].plan)
      /\ \A i \in 1 .. Len(run[r].plan) : run[r].answers[i] \in Answers
  BY <1>4
<1>6. ASSUME run[r].phase # "answer"
      PROVE  /\ run[r].at \in 1 .. Len(run[r].plan)
             /\ BatchEnd(run[r].plan, run[r].at) \in run[r].at .. Len(run[r].plan)
             /\ Batch(r) \subseteq 1 .. Len(run[r].plan)
  <2>1. run[r].at \in 1 .. Len(run[r].plan)
    BY <1>2, <1>3, <1>6 DEF ToolsSound
  <2>2. BatchEnd(run[r].plan, run[r].at) \in run[r].at .. Len(run[r].plan)
    BY <1>2, <2>1, BatchEndIn
  <2>3. QED
    BY <1>2, <2>1, <2>2 DEF Batch
<1>7. QED
  BY <1>1, <1>2, <1>3, <1>5, <1>6

LEMMA ToolsGoOn ==
    ASSUME TurnInv, NEW r \in Runs, run[r].phase \in Tooling \cup {"announce"}, NEW rec, IsRun(rec),
           rec.phase \in Tooling, rec.results = run[r].results, rec.muted = run[r].muted,
           rec.called = run[r].called, rec.plan = run[r].plan,
           ToolsSound(rec), FinalKept(run[r], rec), run' = [run EXCEPT ![r] = rec],
           UNCHANGED <<agent, history>>, DOMAIN session' = DOMAIN session,
           session'.active = session.active
    PROVE  TurnInv' /\ AnswersKept
<1>1. /\ run[r].phase \in Stoppable /\ run[r].phase \in Working
      /\ rec.phase \in Stoppable /\ rec.phase \in Working
      /\ rec.phase \notin {"assistant", "announce", "idle", "exit", "released", "ended"}
  BY PhaseSets
<1>2. RunSound(r, run[r], history) /\ run[r].results = <<>>
  BY <1>1, CallsSoFar
<1>3. CallsWithin(r, rec, history) /\ LastAsks(r, rec, history)
  BY <1>1, <1>2 DEF RunSound, CallsWithin, LastAsks
<1>4. RunSound(r, rec, history)
  BY <1>1, <1>2, <1>3 DEF RunSound
<1>5. Steps(r, rec, history)
  BY <1>1, <1>4 DEF Steps
<1>6. QED
  BY <1>1, <1>5, RunMoves

LEMMA AnnounceKeeps ==
    ASSUME TurnInv, NEW r \in Runs, Announce(r)
    PROVE  TurnInv' /\ AnswersKept
<1>1. run[r].phase = "announce" /\ UNCHANGED <<agent, session, history>>
      /\ run[r].phase \in Stoppable
  BY PhaseSets DEF Announce, InPhase, Stay
<1>2. /\ RunSound(r, run[r], history) /\ IsRun(run[r]) /\ run[r].plan \in Seq(STRING)
      /\ Len(run[r].plan) \in Nat
  BY <1>1, CallsSoFar
<1> DEFINE plan == run[r].plan
           rec == [run[r] EXCEPT !.phase = "permit", !.at = 1,
                     !.slots = [i \in DOMAIN plan |-> "new"],
                     !.answers = [i \in DOMAIN plan |-> IF plan[i] = "bad" THEN "error" ELSE "none"]]
<1>3. \/ RunStops(r)
      \/ run[r].stop = "tool_use" /\ run' = [run EXCEPT ![r] = rec]
  <2> DEFINE word == IF run[r].stop = "end" THEN "success" ELSE "incomplete"
  <2>1. \/ run[r].muted /\ run' = [run EXCEPT ![r] = Quit(run[r])]
        \/ run' = [run EXCEPT ![r] = Ended(run[r], word)]
        \/ run[r].stop = "tool_use" /\ run' = [run EXCEPT ![r] = rec]
    BY DEF Announce, SetRun
  <2> HIDE DEF rec, word
  <2>2. CASE run' = [run EXCEPT ![r] = Ended(run[r], word)]
    <3>1. RunStops(r)
      BY <2>2, Zenon DEF RunStops
    <3>2. QED
      BY <3>1
  <2>3. CASE run[r].muted /\ run' = [run EXCEPT ![r] = Quit(run[r])]
    <3>1. RunStops(r)
      BY <2>3, Zenon DEF RunStops
    <3>2. QED
      BY <3>1
  <2>4. QED
    BY <2>1, <2>2, <2>3
<1>4. CASE RunStops(r)
  BY <1>1, <1>4, StopsKeep
<1>5. CASE run[r].stop = "tool_use" /\ run' = [run EXCEPT ![r] = rec]
  <2>1. DOMAIN plan = 1 .. Len(plan) /\ Len(plan) >= 1 /\ run[r].answers = <<>>
    <3>1. plan # <<>> /\ run[r].answers = <<>>
      BY <1>1, <1>2, <1>5 DEF RunSound, Tooling
    <3>2. QED
      BY <1>2, <3>1
  <2>2. /\ IsRun(rec) /\ rec.phase = "permit" /\ rec.results = run[r].results
        /\ rec.muted = run[r].muted /\ rec.called = run[r].called /\ rec.plan = run[r].plan
        /\ rec.at = 1 /\ rec.slots = [i \in 1 .. Len(plan) |-> "new"]
        /\ rec.answers = [i \in 1 .. Len(plan) |-> IF plan[i] = "bad" THEN "error" ELSE "none"]
    BY <1>2, <2>1 DEF IsRun, Fields
  <2>3. run' = [run EXCEPT ![r] = rec]
    BY <1>5
  <2> HIDE DEF rec
  <2>4. rec.answers \in Seq(Answers) /\ Len(rec.answers) = Len(plan) /\ DOMAIN rec.answers = 1 .. Len(plan)
    <3>1. rec.answers = [i \in 1 .. Len(plan) |-> rec.answers[i]]
          /\ \A i \in 1 .. Len(plan) : rec.answers[i] \in Answers
      BY <2>2 DEF Answers
    <3>2. QED
      BY <1>2, <3>1, AnswerSeq
  <2>5. ToolsSound(rec)
    <3>1. \A i \in 1 .. Len(rec.plan) : rec.slots[i] = "new" /\ ~(i < rec.at)
      BY <1>2, <2>2
    <3>2. DOMAIN rec.slots = 1 .. Len(rec.plan) /\ Len(rec.answers) = Len(rec.plan)
          /\ rec.at \in 1 .. Len(rec.plan) /\ rec.phase # "answer"
      BY <1>2, <2>1, <2>2, <2>4
    <3>3. \A i \in 1 .. Len(rec.plan) : CallSound(rec, i)
      BY <1>2, <2>2, <3>1 DEF CallSound, InFlight, StandIn
    <3>4. QED
      BY <1>2, <2>2, <2>4, <3>1, <3>2, <3>3 DEF ToolsSound
  <2>6. FinalKept(run[r], rec)
    BY <2>1 DEF FinalKept
  <2>7. rec.phase \in Tooling
    BY <2>2 DEF Tooling
  <2>8. QED
    BY <1>1, <2>2, <2>3, <2>5, <2>6, <2>7, ToolsGoOn
<1>6. QED
  BY <1>3, <1>4, <1>5

-----------------------------------------------------------------------------
\* The calls of a batch

Open == {"permit", "asking", "tools"}

\* What a run with open calls looks like, call by call.
LEMMA OpenRun ==
    ASSUME TurnInv, NEW r \in Runs, run[r].phase \in Open
    PROVE  LET n == Len(run[r].plan) IN
           /\ n \in Nat /\ IsRun(run[r]) /\ run[r].phase \in Tooling
           /\ DOMAIN run[r].slots = 1 .. n /\ run[r].answers \in [1 .. n -> Answers]
           /\ run[r].at \in 1 .. n /\ BatchEnd(run[r].plan, run[r].at) \in run[r].at .. n
           /\ Batch(r) \subseteq 1 .. n
           /\ \A i \in 1 .. n :
                 /\ i < run[r].at => run[r].slots[i] = "done" /\ i \notin Batch(r)
                 /\ CallSound(run[r], i)
<1>1. run[r].phase \in Tooling /\ run[r].phase # "answer"
  BY DEF Open, Tooling
<1>2. /\ IsRun(run[r]) /\ ToolsSound(run[r]) /\ Len(run[r].plan) \in Nat
      /\ run[r].at \in 1 .. Len(run[r].plan)
      /\ BatchEnd(run[r].plan, run[r].at) \in run[r].at .. Len(run[r].plan)
      /\ Batch(r) \subseteq 1 .. Len(run[r].plan)
  BY <1>1, ToolRun
<1>3. run[r].answers \in Seq(Answers) /\ Len(run[r].answers) = Len(run[r].plan)
      /\ DOMAIN run[r].slots = 1 .. Len(run[r].plan)
  BY <1>2 DEF ToolsSound
<1>4. run[r].answers \in [1 .. Len(run[r].plan) -> Answers]
  BY <1>2, <1>3
<1>5. \A i \in 1 .. Len(run[r].plan) :
         /\ i < run[r].at => run[r].slots[i] = "done" /\ i \notin Batch(r)
         /\ CallSound(run[r], i)
  BY <1>2 DEF ToolsSound, Batch
<1>6. QED
  BY <1>1, <1>2, <1>3, <1>4, <1>5

\* A step on the open calls keeps what is said of each of them.
LEMMA CallsMove ==
    ASSUME TurnInv, NEW r \in Runs, run[r].phase \in Open, NEW rec, IsRun(rec), rec.phase \in Open,
           rec.results = run[r].results, rec.muted = run[r].muted,
           rec.cancelled = run[r].cancelled, rec.called = run[r].called,
           rec.plan = run[r].plan, rec.at = run[r].at,
           DOMAIN rec.slots = 1 .. Len(run[r].plan),
           rec.answers \in [1 .. Len(run[r].plan) -> Answers],
           \A i \in 1 .. Len(run[r].plan) :
              /\ i < run[r].at => rec.slots[i] = "done"
              /\ CallSound(rec, i)
              /\ run[r].answers[i] \in {"ok", "error"} /\ rec.answers[i] # run[r].answers[i] =>
                    rec.answers[i] = StandIn /\ run[r].cancelled,
           run' = [run EXCEPT ![r] = rec], UNCHANGED <<agent, history>>,
           DOMAIN session' = DOMAIN session, session'.active = session.active
    PROVE  TurnInv' /\ AnswersKept
<1> DEFINE n == Len(run[r].plan)
<1>1. /\ n \in Nat /\ IsRun(run[r]) /\ run[r].phase \in Tooling /\ run[r].at \in 1 .. n
      /\ run[r].answers \in [1 .. n -> Answers]
  BY OpenRun
<1>2. rec.answers \in Seq(Answers) /\ Len(rec.answers) = n /\ DOMAIN rec.answers = 1 .. n
  <2>1. rec.answers = [i \in 1 .. n |-> rec.answers[i]] /\ \A i \in 1 .. n : rec.answers[i] \in Answers
    OBVIOUS
  <2> HIDE DEF n
  <2>2. QED
    BY <1>1, <2>1, AnswerSeq
<1>3. ToolsSound(rec)
  BY <1>1, <1>2 DEF ToolsSound, Open
<1>4. FinalKept(run[r], rec)
  BY <1>1, <1>2 DEF FinalKept
<1>5. rec.phase \in Tooling
  BY DEF Open, Tooling
<1>6. QED
  BY <1>1, <1>3, <1>4, <1>5, ToolsGoOn

LEMMA PermitKeeps ==
    ASSUME TurnInv, NEW r \in Runs, Permit(r)
    PROVE  TurnInv' /\ AnswersKept
<1> DEFINE n == Len(run[r].plan)
           open == {i \in Batch(r) : run[r].answers[i] = "none"}
<1>1. run[r].phase \in Open /\ UNCHANGED <<agent, session, history>>
  BY DEF Permit, InPhase, Stay, Open
<1>2. /\ n \in Nat /\ IsRun(run[r])
      /\ DOMAIN run[r].slots = 1 .. n /\ run[r].answers \in [1 .. n -> Answers]
      /\ run[r].at \in 1 .. n /\ Batch(r) \subseteq 1 .. n
      /\ \A i \in 1 .. n :
            /\ i < run[r].at => run[r].slots[i] = "done" /\ i \notin Batch(r)
            /\ CallSound(run[r], i)
  BY <1>1, OpenRun
<1>3. PICK asked \in SUBSET open : \E denied \in SUBSET (open \ asked) :
         run' = [run EXCEPT ![r] = [run[r] EXCEPT
                    !.phase = IF asked # {} /\ ~run[r].muted THEN "asking" ELSE "tools",
                    !.swept = FALSE,
                    !.answers = [i \in DOMAIN @ |-> IF i \in denied THEN "error" ELSE @[i]],
                    !.slots = [i \in DOMAIN @ |->
                                 IF i \in asked /\ ~run[r].muted THEN "asked"
                                 ELSE IF i \in open \ (asked \cup denied) THEN "ready"
                                 ELSE IF i \in Batch(r) THEN "done" ELSE @[i]]]]
  BY Zenon DEF Permit, SetRun, Unanswered
<1>4. PICK denied \in SUBSET (open \ asked) :
         run' = [run EXCEPT ![r] = [run[r] EXCEPT
                    !.phase = IF asked # {} /\ ~run[r].muted THEN "asking" ELSE "tools",
                    !.swept = FALSE,
                    !.answers = [i \in DOMAIN @ |-> IF i \in denied THEN "error" ELSE @[i]],
                    !.slots = [i \in DOMAIN @ |->
                                 IF i \in asked /\ ~run[r].muted THEN "asked"
                                 ELSE IF i \in open \ (asked \cup denied) THEN "ready"
                                 ELSE IF i \in Batch(r) THEN "done" ELSE @[i]]]]
  BY <1>3, Zenon
<1> DEFINE rec == [run[r] EXCEPT
                    !.phase = IF asked # {} /\ ~run[r].muted THEN "asking" ELSE "tools",
                    !.swept = FALSE,
                    !.answers = [i \in DOMAIN @ |-> IF i \in denied THEN "error" ELSE @[i]],
                    !.slots = [i \in DOMAIN @ |->
                                 IF i \in asked /\ ~run[r].muted THEN "asked"
                                 ELSE IF i \in open \ (asked \cup denied) THEN "ready"
                                 ELSE IF i \in Batch(r) THEN "done" ELSE @[i]]]
<1> HIDE DEF open
<1>5. /\ IsRun(rec) /\ rec.phase \in Open /\ rec.results = run[r].results
      /\ rec.muted = run[r].muted /\ rec.called = run[r].called /\ rec.plan = run[r].plan
      /\ rec.at = run[r].at /\ rec.cancelled = run[r].cancelled
      /\ rec.answers = [i \in 1 .. n |-> IF i \in denied THEN "error" ELSE run[r].answers[i]]
      /\ rec.slots = [i \in 1 .. n |->
                        IF i \in asked /\ ~run[r].muted THEN "asked"
                        ELSE IF i \in open \ (asked \cup denied) THEN "ready"
                        ELSE IF i \in Batch(r) THEN "done" ELSE run[r].slots[i]]
  BY <1>2 DEF IsRun, Fields, Open
<1>6. run' = [run EXCEPT ![r] = rec]
  BY <1>4
<1> HIDE DEF rec, n
<1>7. DOMAIN rec.slots = 1 .. n /\ rec.answers \in [1 .. n -> Answers]
  BY <1>2, <1>5 DEF Answers
<1>8. \A i \in 1 .. n :
         /\ i < run[r].at => rec.slots[i] = "done"
         /\ CallSound(rec, i)
         /\ run[r].answers[i] \in {"ok", "error"} /\ rec.answers[i] # run[r].answers[i] =>
               rec.answers[i] = StandIn /\ run[r].cancelled
  <2> SUFFICES ASSUME NEW i \in 1 .. n
               PROVE  /\ i < run[r].at => rec.slots[i] = "done"
                      /\ CallSound(rec, i)
                      /\ run[r].answers[i] \in {"ok", "error"} /\ rec.answers[i] # run[r].answers[i] =>
                            rec.answers[i] = StandIn /\ run[r].cancelled
    OBVIOUS
  <2>1. /\ rec.answers[i] = (IF i \in denied THEN "error" ELSE run[r].answers[i])
        /\ rec.slots[i] = (IF i \in asked /\ ~run[r].muted THEN "asked"
                           ELSE IF i \in open \ (asked \cup denied) THEN "ready"
                           ELSE IF i \in Batch(r) THEN "done" ELSE run[r].slots[i])
    BY <1>5
  <2>2. /\ i \in open <=> i \in Batch(r) /\ run[r].answers[i] = "none"
        /\ i \in asked => i \in open /\ i \notin denied
        /\ i \in denied => i \in open
    BY <1>3, <1>4 DEF open
  <2>3. /\ i < run[r].at => run[r].slots[i] = "done" /\ i \notin Batch(r)
        /\ CallSound(run[r], i)
    BY <1>2
  <2>4. rec.muted = run[r].muted /\ rec.cancelled = run[r].cancelled
    BY <1>5
  <2>5. CallSound(rec, i)
    BY <2>1, <2>2, <2>3, <2>4 DEF CallSound, InFlight, StandIn
  <2>6. QED
    BY <2>1, <2>2, <2>3, <2>5
<1>9. QED
  BY <1>1, <1>5, <1>6, <1>7, <1>8, CallsMove DEF n

LEMMA ResolveKeeps ==
    ASSUME TurnInv, NEW r \in Runs, Resolve(r)
    PROVE  TurnInv' /\ AnswersKept
<1> DEFINE n == Len(run[r].plan)
           asked == {i \in Batch(r) : run[r].slots[i] = "asked"}
<1>1. run[r].phase \in Open /\ UNCHANGED <<agent, session, history>>
  BY DEF Resolve, InPhase, Stay, Open
<1>2. /\ n \in Nat /\ IsRun(run[r])
      /\ DOMAIN run[r].slots = 1 .. n /\ run[r].answers \in [1 .. n -> Answers]
      /\ run[r].at \in 1 .. n /\ Batch(r) \subseteq 1 .. n
      /\ \A i \in 1 .. n :
            /\ i < run[r].at => run[r].slots[i] = "done" /\ i \notin Batch(r)
            /\ CallSound(run[r], i)
  BY <1>1, OpenRun
<1>3. PICK granted \in SUBSET (IF run[r].cancelled THEN {} ELSE asked) :
         run' = [run EXCEPT ![r] = [run[r] EXCEPT !.phase = "tools",
                 !.answers = [i \in DOMAIN @ |-> IF i \in asked \ granted THEN "error" ELSE @[i]],
                 !.slots = [i \in DOMAIN @ |-> IF i \in granted THEN "ready"
                                               ELSE IF i \in asked THEN "done" ELSE @[i]]]]
  BY Zenon DEF Resolve, SetRun
<1> DEFINE rec == [run[r] EXCEPT !.phase = "tools",
                 !.answers = [i \in DOMAIN @ |-> IF i \in asked \ granted THEN "error" ELSE @[i]],
                 !.slots = [i \in DOMAIN @ |-> IF i \in granted THEN "ready"
                                               ELSE IF i \in asked THEN "done" ELSE @[i]]]
<1> HIDE DEF asked
<1>4. /\ IsRun(rec) /\ rec.phase \in Open /\ rec.results = run[r].results
      /\ rec.muted = run[r].muted /\ rec.called = run[r].called /\ rec.plan = run[r].plan
      /\ rec.at = run[r].at /\ rec.cancelled = run[r].cancelled
      /\ rec.answers = [i \in 1 .. n |-> IF i \in asked \ granted THEN "error" ELSE run[r].answers[i]]
      /\ rec.slots = [i \in 1 .. n |-> IF i \in granted THEN "ready"
                                       ELSE IF i \in asked THEN "done" ELSE run[r].slots[i]]
  BY <1>2 DEF IsRun, Fields, Open
<1>5. run' = [run EXCEPT ![r] = rec]
  BY <1>3
<1> HIDE DEF rec, n
<1>6. DOMAIN rec.slots = 1 .. n /\ rec.answers \in [1 .. n -> Answers]
  BY <1>2, <1>4 DEF Answers
<1>7. \A i \in 1 .. n :
         /\ i < run[r].at => rec.slots[i] = "done"
         /\ CallSound(rec, i)
         /\ run[r].answers[i] \in {"ok", "error"} /\ rec.answers[i] # run[r].answers[i] =>
               rec.answers[i] = StandIn /\ run[r].cancelled
  <2> SUFFICES ASSUME NEW i \in 1 .. n
               PROVE  /\ i < run[r].at => rec.slots[i] = "done"
                      /\ CallSound(rec, i)
                      /\ run[r].answers[i] \in {"ok", "error"} /\ rec.answers[i] # run[r].answers[i] =>
                            rec.answers[i] = StandIn /\ run[r].cancelled
    OBVIOUS
  <2>1. /\ rec.answers[i] = (IF i \in asked \ granted THEN "error" ELSE run[r].answers[i])
        /\ rec.slots[i] = (IF i \in granted THEN "ready"
                           ELSE IF i \in asked THEN "done" ELSE run[r].slots[i])
    BY <1>4
  <2>2. /\ i \in asked <=> i \in Batch(r) /\ run[r].slots[i] = "asked"
        /\ i \in granted => i \in asked
    BY <1>3 DEF asked
  <2>3. /\ i < run[r].at => run[r].slots[i] = "done" /\ i \notin Batch(r)
        /\ CallSound(run[r], i)
    BY <1>2
  <2>4. rec.muted = run[r].muted /\ rec.cancelled = run[r].cancelled
    BY <1>4
  <2>5. CallSound(rec, i)
    BY <2>1, <2>2, <2>3, <2>4 DEF CallSound, InFlight, StandIn
  <2>6. run[r].answers[i] \in {"ok", "error"} => i \notin asked
    BY <2>2, <2>3 DEF CallSound, InFlight, StandIn
  <2>7. QED
    BY <2>1, <2>2, <2>3, <2>5, <2>6
<1>8. QED
  BY <1>1, <1>4, <1>5, <1>6, <1>7, CallsMove DEF n

\* One call gets a slot, or an answer with it.
LEMMA CallMoves ==
    ASSUME TurnInv, NEW r \in Runs, run[r].phase = "tools", NEW i \in 1 .. Len(run[r].plan),
           run[r].slots[i] \in InFlight, NEW rec, IsRun(rec), rec.phase = "tools",
           rec.results = run[r].results, rec.muted = run[r].muted,
           rec.cancelled = run[r].cancelled, rec.called = run[r].called,
           rec.plan = run[r].plan, rec.at = run[r].at, NEW slot, NEW answer \in Answers,
           rec.slots = [run[r].slots EXCEPT ![i] = slot],
           rec.answers = [run[r].answers EXCEPT ![i] = answer],
           slot \in InFlight => answer \in {"none", StandIn},
           slot = "done" /\ answer = "none" => run[r].muted,
           answer = StandIn => run[r].cancelled,
           answer = "aborted" \/ slot = "aborted" => run[r].muted,
           run' = [run EXCEPT ![r] = rec], UNCHANGED <<agent, history>>,
           DOMAIN session' = DOMAIN session, session'.active = session.active
    PROVE  TurnInv' /\ AnswersKept
<1> DEFINE n == Len(run[r].plan)
<1>1. run[r].phase \in Open /\ rec.phase \in Open
  BY DEF Open
<1>2. /\ n \in Nat /\ DOMAIN run[r].slots = 1 .. n /\ run[r].answers \in [1 .. n -> Answers]
      /\ run[r].at \in 1 .. n
      /\ \A j \in 1 .. n :
            /\ j < run[r].at => run[r].slots[j] = "done"
            /\ CallSound(run[r], j)
  BY <1>1, OpenRun
<1>3. DOMAIN rec.slots = 1 .. n /\ rec.answers \in [1 .. n -> Answers]
  BY <1>2
<1> HIDE DEF n
<1>4. \A j \in 1 .. n :
         /\ j < run[r].at => rec.slots[j] = "done"
         /\ CallSound(rec, j)
         /\ run[r].answers[j] \in {"ok", "error"} /\ rec.answers[j] # run[r].answers[j] =>
               rec.answers[j] = StandIn /\ run[r].cancelled
  <2> SUFFICES ASSUME NEW j \in 1 .. n
               PROVE  /\ j < run[r].at => rec.slots[j] = "done"
                      /\ CallSound(rec, j)
                      /\ run[r].answers[j] \in {"ok", "error"} /\ rec.answers[j] # run[r].answers[j] =>
                            rec.answers[j] = StandIn /\ run[r].cancelled
    OBVIOUS
  <2>1. CASE j # i
    <3>1. rec.slots[j] = run[r].slots[j] /\ rec.answers[j] = run[r].answers[j]
      BY <1>2, <2>1 DEF n
    <3>2. CallSound(rec, j)
      BY <1>2, <3>1 DEF CallSound
    <3>3. QED
      BY <1>2, <3>1, <3>2
  <2>2. CASE j = i
    <3>1. rec.slots[j] = slot /\ rec.answers[j] = answer
      BY <1>2, <2>2 DEF n
    <3>2. ~(j < run[r].at) /\ run[r].answers[j] \notin {"ok", "error"}
      <4>1. run[r].slots[j] # "done"
        BY <2>2 DEF InFlight
      <4>2. CallSound(run[r], j)
        BY <1>2
      <4>3. QED
        BY <1>2, <2>2, <4>1, <4>2 DEF CallSound, StandIn
    <3>3. CallSound(rec, j)
      BY <3>1 DEF CallSound
    <3>4. QED
      BY <3>1, <3>2, <3>3
  <2>3. QED
    BY <2>1, <2>2
<1>5. QED
  BY <1>1, <1>3, <1>4, CallsMove DEF n

\* A record that differs from that of a run in nothing the lemmas speak of.
Like(base, rec) ==
    /\ IsRun(base) /\ base.phase = rec.phase /\ base.results = rec.results
    /\ base.muted = rec.muted /\ base.cancelled = rec.cancelled /\ base.called = rec.called
    /\ base.plan = rec.plan /\ base.at = rec.at
    /\ base.slots = rec.slots /\ base.answers = rec.answers

LEMMA LikeLost ==
    ASSUME NEW rec, IsRun(rec), NEW lost
    PROVE  Like(rec, rec) /\ Like([rec EXCEPT !.lost = lost], rec)
BY DEF Like, IsRun, Fields

\* A call is done, with its result or without it.
LEMMA DeliveredMoves ==
    ASSUME TurnInv, NEW r \in Runs, run[r].phase = "tools", NEW i \in 1 .. Len(run[r].plan),
           run[r].slots[i] \in InFlight, NEW base, Like(base, run[r]),
           NEW answer \in Answers \ {"none"}, answer = StandIn => run[r].cancelled,
           answer = "aborted" => run[r].muted,
           NEW parallel, NEW next \in Delivered(base, i, answer, parallel),
           run' = [run EXCEPT ![r] = next], UNCHANGED <<agent, history>>,
           DOMAIN session' = DOMAIN session, session'.active = session.active
    PROVE  TurnInv' /\ AnswersKept
<1> DEFINE same == run[r].answers[i]
           slot == "done"
<1>1. run[r].phase \in Open
  BY DEF Open
<1>2. /\ run[r].answers \in [1 .. Len(run[r].plan) -> Answers]
      /\ same \in Answers /\ CallSound(run[r], i)
  BY <1>1, OpenRun
<1>3. slot \notin InFlight /\ slot # "aborted"
  BY DEF InFlight
<1>4. \/ next = [base EXCEPT !.slots[i] = "done", !.answers[i] = answer]
      \/ run[r].muted /\ next = [base EXCEPT !.slots[i] = "done"]
  BY DEF Delivered, Like
<1>5. CASE next = [base EXCEPT !.slots[i] = "done", !.answers[i] = answer]
  <2>1. /\ IsRun(next) /\ next.phase = "tools" /\ next.results = run[r].results
        /\ next.muted = run[r].muted /\ next.cancelled = run[r].cancelled
        /\ next.called = run[r].called /\ next.plan = run[r].plan /\ next.at = run[r].at
        /\ next.slots = [run[r].slots EXCEPT ![i] = slot]
        /\ next.answers = [run[r].answers EXCEPT ![i] = answer]
    BY <1>5 DEF Like, IsRun, Fields
  <2> HIDE DEF slot
  <2>2. QED
    BY <1>3, <2>1, CallMoves
<1>6. CASE run[r].muted /\ next = [base EXCEPT !.slots[i] = "done"]
  <2>1. /\ IsRun(next) /\ next.phase = "tools" /\ next.results = run[r].results
        /\ next.muted = run[r].muted /\ next.cancelled = run[r].cancelled
        /\ next.called = run[r].called /\ next.plan = run[r].plan /\ next.at = run[r].at
        /\ next.slots = [run[r].slots EXCEPT ![i] = slot] /\ next.answers = run[r].answers
    BY <1>6 DEF Like, IsRun, Fields
  <2>2. next.answers = [run[r].answers EXCEPT ![i] = same]
    BY <1>2, <2>1
  <2>3. same = StandIn => run[r].cancelled
    BY <1>2 DEF CallSound
  <2> HIDE DEF slot, same
  <2>4. QED
    BY <1>2, <1>3, <1>6, <2>1, <2>2, <2>3, CallMoves
<1>7. QED
  BY <1>4, <1>5, <1>6

\* A call has returned.
LEMMA ReturnedMoves ==
    ASSUME TurnInv, NEW r \in Runs, run[r].phase = "tools", NEW i \in 1 .. Len(run[r].plan),
           run[r].slots[i] \in InFlight, NEW base, Like(base, run[r]),
           NEW answer \in {"ok", "error", "aborted"}, answer = "aborted" => run[r].muted,
           NEW parallel, NEW next, next = Returned(base, i, answer, parallel),
           run' = [run EXCEPT ![r] = next], UNCHANGED <<agent, history>>,
           DOMAIN session' = DOMAIN session, session'.active = session.active
    PROVE  TurnInv' /\ AnswersKept
<1>1. CASE parallel
  <2> DEFINE same == run[r].answers[i]
             slot == answer
  <2>1. run[r].phase \in Open
    BY DEF Open
  <2>2. /\ run[r].answers \in [1 .. Len(run[r].plan) -> Answers]
        /\ same \in Answers /\ CallSound(run[r], i)
    BY <2>1, OpenRun
  <2>3. /\ IsRun(next) /\ next.phase = "tools" /\ next.results = run[r].results
        /\ next.muted = run[r].muted /\ next.cancelled = run[r].cancelled
        /\ next.called = run[r].called /\ next.plan = run[r].plan /\ next.at = run[r].at
        /\ next.slots = [run[r].slots EXCEPT ![i] = slot] /\ next.answers = run[r].answers
    BY <1>1 DEF Returned, Like, IsRun, Fields
  <2>4. next.answers = [run[r].answers EXCEPT ![i] = same]
    BY <2>2, <2>3
  <2>5. /\ slot \in InFlight => same \in {"none", StandIn}
        /\ slot = "done" /\ same = "none" => run[r].muted
        /\ same = StandIn => run[r].cancelled
        /\ same = "aborted" \/ slot = "aborted" => run[r].muted
    BY <2>2 DEF CallSound
  <2> HIDE DEF same, slot
  <2>6. QED
    BY <2>2, <2>3, <2>4, <2>5, CallMoves
<1>2. CASE ~parallel
  <2>1. next \in Delivered(base, i, answer, parallel)
    BY <1>2 DEF Delivered, Returned
  <2>2. answer \in Answers \ {"none"} /\ answer # StandIn
    BY DEF Answers, StandIn
  <2>3. QED
    BY <2>1, <2>2, DeliveredMoves
<1>3. QED
  BY <1>1, <1>2

\* What the batch knows of a call before it steps.
LEMMA CallOf ==
    ASSUME TurnInv, NEW r \in Runs, run[r].phase = "tools",
           NEW i, i \in Batch(r) \/ i \in DOMAIN run[r].slots
    PROVE  i \in 1 .. Len(run[r].plan) /\ IsRun(run[r]) /\ CallSound(run[r], i)
<1>1. run[r].phase \in Open
  BY DEF Open
<1>2. QED
  BY <1>1, OpenRun

LEMMA StartCallKeeps ==
    ASSUME TurnInv, NEW r \in Runs, NEW i, StartCall(r, i)
    PROVE  TurnInv' /\ AnswersKept
<1>1. /\ run[r].phase = "tools" /\ i \in Batch(r) /\ run[r].slots[i] \in InFlight
      /\ UNCHANGED <<agent, history>>
      /\ DOMAIN session' = DOMAIN session /\ session'.active = session.active
  BY DEF StartCall, InPhase, Stay, InFlight
<1>2. i \in 1 .. Len(run[r].plan) /\ IsRun(run[r]) /\ CallSound(run[r], i)
  BY <1>1, CallOf
<1> DEFINE word == "error"
           abort == "aborted"
           par == Parallel(r)
           yes == TRUE
           lost == IF par THEN run[r].lost \cup {i} ELSE run[r].lost
           refused == [run[r] EXCEPT !.lost = lost]
<1>3. \/ \E next \in Delivered(run[r], i, word, par) : run' = [run EXCEPT ![r] = next]
      \/ run[r].muted /\ \E next \in Delivered(run[r], i, abort, par) : run' = [run EXCEPT ![r] = next]
      \/ run[r].cancelled /\ \E next \in Delivered(run[r], i, StandIn, yes) : run' = [run EXCEPT ![r] = next]
      \/ run' = [run EXCEPT ![r] = [run[r] EXCEPT !.slots[i] = "running"]]
      \/ run' = [run EXCEPT ![r] = Returned(refused, i, word, par)]
  BY DEF StartCall, SetRun
<1>4. /\ word \in {"ok", "error", "aborted"} /\ {word, abort, StandIn} \subseteq Answers \ {"none"}
      /\ word # "aborted" /\ word # StandIn /\ abort # StandIn /\ StandIn # "aborted"
  BY DEF Answers, StandIn
<1>5. Like(run[r], run[r]) /\ Like(refused, run[r])
  BY <1>2, LikeLost
<1> HIDE DEF word, abort, par, yes, refused
<1>6. CASE \E next \in Delivered(run[r], i, word, par) : run' = [run EXCEPT ![r] = next]
  BY <1>1, <1>2, <1>4, <1>5, <1>6, DeliveredMoves
<1>7. CASE run[r].muted /\ \E next \in Delivered(run[r], i, abort, par) : run' = [run EXCEPT ![r] = next]
  BY <1>1, <1>2, <1>4, <1>5, <1>7, DeliveredMoves
<1>8. CASE run[r].cancelled /\ \E next \in Delivered(run[r], i, StandIn, yes) : run' = [run EXCEPT ![r] = next]
  BY <1>1, <1>2, <1>4, <1>5, <1>8, DeliveredMoves
<1>9. CASE run' = [run EXCEPT ![r] = [run[r] EXCEPT !.slots[i] = "running"]]
  <2> DEFINE rec == [run[r] EXCEPT !.slots[i] = "running"]
             slot == "running"
             same == run[r].answers[i]
  <2>1. run[r].phase \in Open
    BY <1>1 DEF Open
  <2>2. run[r].answers \in [1 .. Len(run[r].plan) -> Answers]
    BY <2>1, OpenRun
  <2>3. /\ IsRun(rec) /\ rec.phase = "tools" /\ rec.results = run[r].results
        /\ rec.muted = run[r].muted /\ rec.cancelled = run[r].cancelled
        /\ rec.called = run[r].called /\ rec.plan = run[r].plan
        /\ rec.at = run[r].at /\ rec.slots = [run[r].slots EXCEPT ![i] = slot]
        /\ rec.answers = run[r].answers
    BY <1>1, <1>2 DEF IsRun, Fields
  <2>4. run' = [run EXCEPT ![r] = rec]
    BY <1>9
  <2>5. /\ rec.answers = [run[r].answers EXCEPT ![i] = same] /\ same \in Answers
        /\ same \in {"none", StandIn} /\ (same = StandIn => run[r].cancelled)
        /\ same # "aborted" /\ slot # "done" /\ slot # "aborted"
    BY <1>1, <1>2, <2>2, <2>3 DEF CallSound, StandIn
  <2> HIDE DEF rec, slot, same
  <2>6. QED
    BY <1>1, <1>2, <2>3, <2>4, <2>5, CallMoves
<1>10. CASE run' = [run EXCEPT ![r] = Returned(refused, i, word, par)]
  <2> DEFINE next == Returned(refused, i, word, par)
  <2>1. next = Returned(refused, i, word, par) /\ run' = [run EXCEPT ![r] = next]
    BY <1>10
  <2> HIDE DEF next
  <2>2. QED
    BY <1>1, <1>2, <1>4, <1>5, <2>1, ReturnedMoves
<1>11. QED
  BY <1>3, <1>6, <1>7, <1>8, <1>9, <1>10

LEMMA EndCallKeeps ==
    ASSUME TurnInv, NEW r \in Runs, NEW i \in DOMAIN run[r].slots, EndCall(r, i)
    PROVE  TurnInv' /\ AnswersKept
<1>1. /\ run[r].phase = "tools" /\ run[r].slots[i] \in InFlight /\ UNCHANGED <<agent, history>>
      /\ DOMAIN session' = DOMAIN session /\ session'.active = session.active
  BY SessionShape DEF EndCall, InPhase, InFlight
<1>2. i \in 1 .. Len(run[r].plan) /\ IsRun(run[r])
  BY <1>1, CallOf
<1> DEFINE par == Parallel(r)
           base == run[r]
<1>3. PICK answer \in {"ok", "error", "aborted"} :
         /\ answer = "aborted" => run[r].muted
         /\ run' = [run EXCEPT ![r] = Returned(run[r], i, answer, par)]
  BY DEF EndCall, SetRun
<1>4. Like(base, run[r])
  BY <1>2, LikeLost
<1> DEFINE next == Returned(base, i, answer, par)
<1>5. next = Returned(base, i, answer, par) /\ run' = [run EXCEPT ![r] = next]
  BY <1>3
<1>6. answer = "aborted" => run[r].muted
  BY <1>3
<1> HIDE DEF par, next, base
<1>7. QED
  BY <1>1, <1>2, <1>4, <1>5, <1>6, ReturnedMoves

LEMMA CollectKeeps ==
    ASSUME TurnInv, NEW r \in Runs, NEW i \in DOMAIN run[r].slots, Collect(r, i)
    PROVE  TurnInv' /\ AnswersKept
<1>1. /\ run[r].phase = "tools" /\ run[r].slots[i] \in InFlight
      /\ run[r].slots[i] \in {"ok", "error", "aborted"} /\ UNCHANGED <<agent, history>>
      /\ DOMAIN session' = DOMAIN session /\ session'.active = session.active
  BY DEF Collect, InPhase, Stay, Begun, InFlight
<1>2. i \in 1 .. Len(run[r].plan) /\ IsRun(run[r]) /\ CallSound(run[r], i)
  BY <1>1, CallOf
<1> DEFINE answer == run[r].slots[i]
           yes == TRUE
<1>3. PICK lost : \E next \in Delivered([run[r] EXCEPT !.lost = lost], i, answer, yes) :
                     run' = [run EXCEPT ![r] = next]
  BY DEF Collect, SetRun
<1> DEFINE base == [run[r] EXCEPT !.lost = lost]
<1>4. Like(base, run[r])
  BY <1>2, LikeLost
<1>5. /\ answer \in Answers \ {"none"} /\ answer # StandIn
      /\ answer = "aborted" => run[r].muted
  BY <1>1, <1>2 DEF Answers, StandIn, CallSound
<1>6. PICK next \in Delivered(base, i, answer, yes) : run' = [run EXCEPT ![r] = next]
  BY <1>3
<1> HIDE DEF answer, yes, base
<1>7. QED
  BY <1>1, <1>2, <1>4, <1>5, <1>6, DeliveredMoves

LEMMA SweepKeeps ==
    ASSUME TurnInv, NEW r \in Runs, Sweep(r)
    PROVE  TurnInv' /\ AnswersKept
<1> DEFINE n == Len(run[r].plan)
<1>1. /\ run[r].phase = "tools" /\ run[r].phase \in Open /\ run[r].cancelled
      /\ UNCHANGED <<agent, session, history>>
  BY DEF Sweep, InPhase, Stay, Open
<1>2. /\ n \in Nat /\ IsRun(run[r])
      /\ DOMAIN run[r].slots = 1 .. n /\ run[r].answers \in [1 .. n -> Answers]
      /\ \A i \in 1 .. n :
            /\ i < run[r].at => run[r].slots[i] = "done" /\ i \notin Batch(r)
            /\ CallSound(run[r], i)
  BY <1>1, OpenRun
<1>3. PICK seen : run' = [run EXCEPT ![r] = [run[r] EXCEPT !.swept = TRUE,
                   !.answers = [i \in DOMAIN @ |-> IF i \in seen THEN StandIn ELSE @[i]]]]
  BY Zenon DEF Sweep, SetRun
<1> DEFINE rec == [run[r] EXCEPT !.swept = TRUE,
                     !.answers = [i \in DOMAIN @ |-> IF i \in seen THEN StandIn ELSE @[i]]]
<1>4. /\ IsRun(rec) /\ rec.phase \in Open /\ rec.results = run[r].results
      /\ rec.muted = run[r].muted /\ rec.cancelled = run[r].cancelled
      /\ rec.called = run[r].called /\ rec.plan = run[r].plan
      /\ rec.at = run[r].at /\ rec.slots = run[r].slots
      /\ rec.answers = [i \in 1 .. n |-> IF i \in seen THEN StandIn ELSE run[r].answers[i]]
  BY <1>1, <1>2 DEF IsRun, Fields
<1>5. run' = [run EXCEPT ![r] = rec]
  BY <1>3
<1> HIDE DEF rec, n
<1>6. DOMAIN rec.slots = 1 .. n /\ rec.answers \in [1 .. n -> Answers]
  BY <1>2, <1>4 DEF Answers
<1>7. \A i \in 1 .. n :
         /\ i < run[r].at => rec.slots[i] = "done"
         /\ CallSound(rec, i)
         /\ run[r].answers[i] \in {"ok", "error"} /\ rec.answers[i] # run[r].answers[i] =>
               rec.answers[i] = StandIn /\ run[r].cancelled
  BY <1>1, <1>2, <1>4 DEF CallSound, StandIn
<1>8. QED
  BY <1>1, <1>4, <1>5, <1>6, <1>7, CallsMove DEF n

LEMMA NextBatchKeeps ==
    ASSUME TurnInv, NEW r \in Runs, NextBatch(r)
    PROVE  TurnInv' /\ AnswersKept
<1> DEFINE n == Len(run[r].plan)
           next == BatchEnd(run[r].plan, run[r].at) + 1
           rec == [run[r] EXCEPT !.at = next, !.lost = {},
                                 !.phase = IF next <= n THEN "permit" ELSE "answer"]
<1>1. /\ run[r].phase = "tools" /\ run[r].phase \in Open /\ run[r].phase \in Tooling
      /\ UNCHANGED <<agent, session, history>>
      /\ \A i \in Batch(r) : run[r].slots[i] = "done"
  BY DEF NextBatch, InPhase, Stay, Open, Tooling
<1>2. /\ n \in Nat /\ IsRun(run[r]) /\ DOMAIN run[r].slots = 1 .. n
      /\ run[r].answers \in [1 .. n -> Answers]
      /\ run[r].at \in 1 .. n /\ BatchEnd(run[r].plan, run[r].at) \in run[r].at .. n
      /\ \A i \in 1 .. n :
            /\ i < run[r].at => run[r].slots[i] = "done"
            /\ CallSound(run[r], i)
  BY <1>1, OpenRun
<1>3. run' = [run EXCEPT ![r] = rec]
  BY DEF NextBatch, SetRun
<1>4. /\ IsRun(rec) /\ rec.results = run[r].results /\ rec.muted = run[r].muted
      /\ rec.cancelled = run[r].cancelled
      /\ rec.called = run[r].called /\ rec.plan = run[r].plan /\ rec.at = next
      /\ rec.slots = run[r].slots /\ rec.answers = run[r].answers
      /\ rec.phase = (IF next <= n THEN "permit" ELSE "answer")
  BY <1>2 DEF IsRun, Fields
<1> HIDE DEF rec
<1>5. \A i \in 1 .. n : i < next => run[r].slots[i] = "done"
  BY <1>1, <1>2 DEF Batch
<1>6. next \in 1 .. n + 1
  BY <1>2
<1>7. run[r].answers \in Seq(Answers) /\ Len(run[r].answers) = n
  BY <1>1, ToolRun DEF ToolsSound
<1> HIDE DEF next, n
<1>8. rec.phase \in Tooling /\ rec.phase \in {"permit", "answer"}
  BY <1>4 DEF Tooling
<1>9. rec.at \in 1 .. n + 1 /\ (rec.phase # "answer" => rec.at <= n) /\ (rec.phase = "answer" => rec.at = n + 1)
  BY <1>2, <1>4, <1>6
<1>10. ToolsSound(rec)
  BY <1>2, <1>4, <1>5, <1>7, <1>9 DEF ToolsSound, CallSound, n
<1>11. FinalKept(run[r], rec)
  BY <1>4 DEF FinalKept
<1>12. QED
  BY <1>1, <1>3, <1>4, <1>8, <1>10, <1>11, ToolsGoOn

LEMMA AppendResultsKeeps ==
    ASSUME TurnInv, NEW r \in Runs, AppendResults(r)
    PROVE  TurnInv' /\ AnswersKept
<1>1. run[r].phase = "answer" /\ run[r].phase \in Tooling
  BY DEF AppendResults, InPhase, Tooling
<1>2. /\ run[r].phase \in Stoppable /\ run[r].phase \in Working /\ IsRun(run[r])
      /\ ToolsSound(run[r]) /\ LastAsks(r, run[r], history) /\ Len(run[r].plan) \in Nat
  BY <1>1, ToolRun
<1>3. CASE StoreFails(r)
  BY <1>2, <1>3, StoreFailsKeeps
<1>4. CASE ~StoreFails(r)
  <2> DEFINE m == Message("results", r, 0, run[r].answers)
             rec == Onward(run[r])
  <2>1. Store(m) /\ run' = [run EXCEPT ![r] = rec] /\ UNCHANGED agent /\ ~run[r].cancelled
    BY <1>4 DEF AppendResults, SetRun
  <2>2. run[r].answers \in Seq(Answers) /\ Len(run[r].answers) = Len(run[r].plan)
    BY <1>2 DEF ToolsSound
  <2>3. m \in Messages /\ m.calls = 0 /\ m.by = r /\ m.answers = run[r].answers
    BY <2>2 DEF Message, Messages
  <2>4. /\ IsRun(rec) /\ rec.phase = "turn" /\ rec.results = run[r].results
        /\ rec.muted = run[r].muted /\ rec.called = run[r].called /\ rec.plan = <<>>
        /\ rec.answers = <<>>
    BY <1>2 DEF Onward, IsRun, Fields
  <2> HIDE DEF m, rec
  <2>5. rec.phase \in Quiet /\ rec.plan \in Seq(STRING)
    BY <2>4 DEF Quiet
  <2>6. Steps(r, rec, Append(history, m))
    BY <1>2, <2>3, <2>4, <2>5, StoresNoCall
  <2>7. /\ history' = Append(history, m) /\ DOMAIN session' = DOMAIN session
        /\ session'.active = session.active
    BY <2>1, StoreFacts
  <2>8. \A k \in DOMAIN m.answers :
           m.answers[k] # StandIn /\ (m.answers[k] \in {"none", "aborted"} => run[r].muted)
    <3> SUFFICES ASSUME NEW k \in DOMAIN m.answers
                 PROVE  m.answers[k] # StandIn /\ (m.answers[k] \in {"none", "aborted"} => run[r].muted)
      OBVIOUS
    <3>1. k \in 1 .. Len(run[r].plan) /\ k < run[r].at
      BY <1>1, <1>2, <2>2, <2>3 DEF ToolsSound
    <3>2. run[r].slots[k] = "done" /\ CallSound(run[r], k)
      BY <1>2, <3>1 DEF ToolsSound
    <3>3. QED
      BY <2>1, <2>3, <3>2 DEF CallSound
  <2>9. LastAsks(r, run[r], history) /\ Len(m.answers) = Len(run[r].plan)
    BY <1>2, <2>2, <2>3
  <2>10. QED
    BY <1>2, <2>1, <2>3, <2>6, <2>7, <2>8, <2>9, RunStores
<1>5. QED
  BY <1>3, <1>4

-----------------------------------------------------------------------------
\* The beginning and the end of a run

\* What is left of a run.
LEMMA LeftSound ==
    ASSUME NEW r, NEW rec, NEW h, RunSound(r, rec, h), NEW phase \in {"released", "dead"},
           phase = "released" => rec.phase = "exit"
    PROVE  LET new == Left(rec, phase) IN
           /\ RunSound(r, new, h) /\ new.phase = phase /\ new.muted = rec.muted
           /\ FinalKept(rec, new)
<1> DEFINE new == Left(rec, phase)
<1>1. /\ IsRun(new) /\ new.phase = phase /\ new.results = rec.results
      /\ new.muted = rec.muted /\ new.plan = <<>> /\ new.called = 0 /\ new.answers = <<>>
  BY NewRunFacts DEF Left, IsRun, Fields
<1> HIDE DEF new
<1>2. phase \notin Stoppable /\ phase # "idle" /\ phase \notin {"announce", "assistant"} \cup Tooling
      /\ phase \notin Tooling /\ phase \notin {"exit", "ended"} /\ phase \notin {"announce"} \cup Tooling
  BY PhaseSets DEF Stoppable, Working, Tooling
<1>3. CallsWithin(r, new, h)
  BY <1>1, <1>2 DEF RunSound, CallsWithin
<1>4. RunSound(r, new, h)
  BY <1>1, <1>2, <1>3 DEF RunSound
<1>5. FinalKept(rec, new)
  BY <1>1 DEF FinalKept
<1>6. QED
  BY <1>1, <1>4, <1>5 DEF new

LEMMA ReleaseKeeps ==
    ASSUME TurnInv, NEW r \in Runs, Release(r)
    PROVE  TurnInv' /\ AnswersKept
<1> DEFINE s == "released"
           rec == Left(run[r], s)
<1>1. /\ run[r].phase = "exit" /\ run' = [run EXCEPT ![r] = rec] /\ UNCHANGED <<agent, history>>
      /\ DOMAIN session' = DOMAIN session /\ session'.active = NoRun
  BY SessionShape DEF Release, InPhase, SetRun
<1>2. RunSound(r, run[r], history) /\ run[r].phase \in Working
  BY <1>1, PhaseSets DEF TurnInv
<1>3. RunSound(r, rec, history) /\ rec.phase = "released" /\ rec.muted = run[r].muted
      /\ FinalKept(run[r], rec)
  BY <1>1, <1>2, LeftSound
<1> HIDE DEF rec
<1>4. DOMAIN run' = Runs /\ run'[r] = rec /\ \A q \in Runs : q # r => run'[q] = run[q]
  BY <1>1 DEF TurnInv
<1>5. \A q \in Runs : RunSound(q, run'[q], history')
  BY <1>1, <1>3, <1>4 DEF TurnInv
<1>6. CountedRuns' = CountedRuns
  BY <1>1, <1>3, <1>4 DEF CountedRuns, Counted, Working
<1>7. AgentSound'
  BY <1>1, <1>6 DEF TurnInv, AgentSound
<1>8. \A q \in Runs : run'[q].phase \notin Working
  BY <1>2, <1>3, <1>4, ActiveIsAlone, PhaseSets
<1>9. SessionSound'
  BY <1>1, <1>8, SessionAssumption, SessionShape DEF SessionSound
<1>10. ResultsFollow'
  BY <1>1, <1>3, <1>4, HistoryIsMessages DEF TurnInv, ResultsFollow
<1>11. AnswersKept
  BY <1>3, <1>4 DEF AnswersKept, FinalKept
<1>12. QED
  BY <1>1, <1>4, <1>5, <1>7, <1>9, <1>10, <1>11 DEF TurnInv

LEMMA EndRunKeeps ==
    ASSUME TurnInv, NEW r \in Runs, EndRun(r)
    PROVE  TurnInv' /\ AnswersKept
<1> DEFINE rec == [run[r] EXCEPT !.phase = "ended"]
<1>1. /\ run[r].phase = "released" /\ run' = [run EXCEPT ![r] = rec] /\ UNCHANGED <<session, history>>
      /\ agent' = [agent EXCEPT !.count = @ - 1]
  BY DEF EndRun, InPhase, SetRun
<1>2. RunSound(r, run[r], history) /\ IsRun(run[r]) /\ run[r].answers = <<>>
  BY <1>1 DEF TurnInv, RunSound, Tooling
<1>3. /\ IsRun(rec) /\ rec.phase = "ended" /\ rec.results = run[r].results
      /\ rec.muted = run[r].muted /\ rec.called = run[r].called /\ rec.plan = run[r].plan
      /\ rec.answers = run[r].answers
  BY <1>2 DEF IsRun, Fields
<1> HIDE DEF rec
<1>4. RunSound(r, rec, history)
  <2>1. rec.phase \notin Stoppable \cup {"idle", "assistant", "announce"} \cup Tooling
        /\ rec.phase \notin {"announce"} \cup Tooling
    BY <1>3 DEF Stoppable, Working, Tooling
  <2>2. CallsWithin(r, rec, history)
    BY <1>2, <1>3, <2>1 DEF RunSound, CallsWithin
  <2>3. QED
    BY <1>1, <1>2, <1>3, <2>1, <2>2 DEF RunSound
<1>5. DOMAIN run' = Runs /\ run'[r] = rec /\ \A q \in Runs : q # r => run'[q] = run[q]
  BY <1>1 DEF TurnInv
<1>6. \A q \in Runs : RunSound(q, run'[q], history')
  BY <1>1, <1>4, <1>5 DEF TurnInv
<1>7. CountedRuns' = CountedRuns \ {r} /\ r \in CountedRuns
  BY <1>1, <1>3, <1>5 DEF CountedRuns, Counted, Working
<1>8. AgentSound'
  <2>1. /\ agent \in [closed : BOOLEAN, count : Nat, store : {"open", "closed"}]
        /\ IsFiniteSet(CountedRuns) /\ agent.count = Cardinality(CountedRuns)
        /\ (agent.store = "closed" => agent.count = 0)
    BY DEF TurnInv, AgentSound
  <2>2. /\ IsFiniteSet(CountedRuns \ {r})
        /\ Cardinality(CountedRuns \ {r}) = Cardinality(CountedRuns) - 1
    BY <1>7, <2>1, FS_RemoveElement
  <2>3. Cardinality(CountedRuns \ {r}) \in Nat
    BY <2>2, FS_CardinalityType
  <2>4. agent.store # "closed"
    BY <2>1, <2>2, <2>3
  <2>5. QED
    BY <1>1, <1>7, <2>1, <2>2, <2>3, <2>4 DEF AgentSound
<1>9. SessionSound'
  BY <1>1, <1>3, <1>5, PhaseSets DEF TurnInv, SessionSound, Working
<1>10. ResultsFollow'
  BY <1>1, <1>3, <1>5, HistoryIsMessages DEF TurnInv, ResultsFollow
<1>11. AnswersKept
  BY <1>3, <1>5 DEF AnswersKept, FinalKept
<1>12. QED
  BY <1>1, <1>5, <1>6, <1>8, <1>9, <1>10, <1>11 DEF TurnInv

LEMMA StartRunKeeps ==
    ASSUME TurnInv, NEW r \in Runs, StartRun(r)
    PROVE  TurnInv' /\ AnswersKept
<1>1. run[r].phase = "idle" /\ UNCHANGED history
  BY DEF StartRun, InPhase
<1>2. /\ RunSound(r, run[r], history) /\ IsRun(run[r]) /\ run[r].answers = <<>>
      /\ run[r].results = <<>> /\ Cardinality(CallsIn(r, history)) = 0 /\ run[r].called = 0
      /\ CallLimit \in Nat
  BY <1>1, Limits DEF TurnInv, RunSound, Tooling, CallsWithin
<1>3. ASSUME NEW rec, IsRun(rec), rec.muted = run[r].muted, rec.called = run[r].called,
             rec.plan = run[r].plan, rec.answers = <<>>, run' = [run EXCEPT ![r] = rec],
             \/ rec.phase = "ended" /\ rec.results = <<"error">>
             \/ rec.phase = "start" /\ rec.results = <<>>
      PROVE  /\ DOMAIN run' = Runs /\ run'[r] = rec /\ \A q \in Runs : q # r => run'[q] = run[q]
             /\ \A q \in Runs : RunSound(q, run'[q], history')
             /\ ResultsFollow' /\ AnswersKept
  <2>1. DOMAIN run' = Runs /\ run'[r] = rec /\ \A q \in Runs : q # r => run'[q] = run[q]
    BY <1>3 DEF TurnInv
  <2>2. rec.phase \notin {"announce"} \cup Tooling /\ rec.phase \notin {"assistant", "announce", "idle"}
        /\ rec.phase \notin {"exit", "released"}
        /\ (rec.phase = "ended" => rec.phase \notin Stoppable)
    BY <1>3 DEF Tooling, Stoppable, Working
  <2>3. CallsWithin(r, rec, history)
    BY <1>2, <1>3, <2>2 DEF CallsWithin
  <2>4. RunSound(r, rec, history)
    <3>1. rec.results = <<>> \/ \E s : rec.results = <<s>>
      BY <1>3
    <3>2. rec.phase \in Stoppable \cup {"idle"} => rec.results = <<>>
      BY <1>3, <2>2
    <3>3. rec.phase \in {"exit", "released", "ended"} => rec.results # <<>>
      <4>1. \A s : <<s>> # <<>>
        OBVIOUS
      <4>2. CASE rec.phase = "ended" /\ rec.results = <<"error">>
        BY <4>1, <4>2
      <4>3. CASE rec.phase = "start"
        BY <4>3
      <4>4. QED
        BY <1>3, <4>2, <4>3
    <3>4. rec.plan \in Seq(STRING) /\ rec.called \in Nat
      BY <1>2, <1>3 DEF RunSound
    <3>5. QED
      BY <1>3, <2>2, <2>3, <3>1, <3>2, <3>3, <3>4 DEF RunSound
  <2>5. \A q \in Runs : RunSound(q, run'[q], history')
    BY <1>1, <2>1, <2>4 DEF TurnInv
  <2>6. ResultsFollow'
    BY <1>1, <1>3, <2>1, HistoryIsMessages DEF TurnInv, ResultsFollow
  <2>7. AnswersKept
    BY <1>3, <2>1 DEF AnswersKept, FinalKept
  <2>8. QED
    BY <2>1, <2>5, <2>6, <2>7
<1>4. CASE session.active # NoRun \/ agent.closed
  <2> DEFINE rec == [run[r] EXCEPT !.phase = "ended", !.results = <<"error">>]
  <2>1. run' = [run EXCEPT ![r] = rec] /\ UNCHANGED <<agent, session>>
    BY <1>4 DEF StartRun, SetRun
  <2>2. /\ IsRun(rec) /\ rec.phase = "ended" /\ rec.results = <<"error">>
        /\ rec.muted = run[r].muted /\ rec.called = run[r].called /\ rec.plan = run[r].plan
        /\ rec.answers = <<>>
    BY <1>2 DEF IsRun, Fields
  <2> HIDE DEF rec
  <2>3. /\ DOMAIN run' = Runs /\ run'[r] = rec /\ \A q \in Runs : q # r => run'[q] = run[q]
        /\ \A q \in Runs : RunSound(q, run'[q], history')
        /\ ResultsFollow' /\ AnswersKept
    BY <1>3, <2>1, <2>2
  <2>4. CountedRuns' = CountedRuns
    BY <1>1, <2>2, <2>3 DEF CountedRuns, Counted, Working
  <2>5. AgentSound'
    BY <2>1, <2>4 DEF TurnInv, AgentSound
  <2>6. SessionSound'
    BY <1>1, <2>1, <2>2, <2>3 DEF TurnInv, SessionSound, Working
  <2>7. QED
    BY <1>1, <2>3, <2>5, <2>6 DEF TurnInv
<1>5. CASE session.active = NoRun /\ ~agent.closed
  <2> DEFINE rec == [run[r] EXCEPT !.phase = "start"]
  <2>1. /\ run' = [run EXCEPT ![r] = rec] /\ agent' = [agent EXCEPT !.count = @ + 1]
        /\ session' = [session EXCEPT !.active = r]
    BY <1>5 DEF StartRun, SetRun
  <2>2. /\ IsRun(rec) /\ rec.phase = "start" /\ rec.results = <<>>
        /\ rec.muted = run[r].muted /\ rec.called = run[r].called /\ rec.plan = run[r].plan
        /\ rec.answers = <<>>
    BY <1>2 DEF IsRun, Fields
  <2> HIDE DEF rec
  <2>3. /\ DOMAIN run' = Runs /\ run'[r] = rec /\ \A q \in Runs : q # r => run'[q] = run[q]
        /\ \A q \in Runs : RunSound(q, run'[q], history')
        /\ ResultsFollow' /\ AnswersKept
    BY <1>3, <2>1, <2>2
  <2>4. CountedRuns' = CountedRuns \cup {r} /\ r \notin CountedRuns
    BY <1>1, <2>2, <2>3 DEF CountedRuns, Counted, Working
  <2>5. AgentSound'
    <3>1. /\ agent \in [closed : BOOLEAN, count : Nat, store : {"open", "closed"}]
          /\ IsFiniteSet(CountedRuns) /\ agent.count = Cardinality(CountedRuns)
          /\ agent.store # "closed"
      BY <1>5 DEF TurnInv, AgentSound
    <3>2. /\ IsFiniteSet(CountedRuns \cup {r})
          /\ Cardinality(CountedRuns \cup {r}) = Cardinality(CountedRuns) + 1
      BY <2>4, <3>1, FS_AddElement
    <3>3. QED
      BY <2>1, <2>4, <3>1, <3>2 DEF AgentSound
  <2>6. SessionSound'
    <3>1. \A q \in Runs : run[q].phase \notin Working
      BY <1>5, SessionAssumption DEF TurnInv, SessionSound
    <3>2. session'.active = r /\ DOMAIN session' = DOMAIN session
      BY <2>1, SessionShape
    <3>3. run'[r].phase \in Working /\ \A q \in Runs : q # r => run'[q].phase \notin Working
      BY <2>2, <2>3, <3>1 DEF Working
    <3>4. QED
      BY <3>2, <3>3, SessionShape DEF SessionSound
  <2>7. QED
    BY <1>1, <2>3, <2>5, <2>6 DEF TurnInv
<1>6. QED
  BY <1>4, <1>5

LEMMA CloseKeepsRuns ==
    ASSUME TurnInv, CloseAgent \/ CloseStore
    PROVE  TurnInv' /\ AnswersKept
<1>1. UNCHANGED <<session, history, run>>
  BY DEF CloseAgent, CloseStore
<1>2. AgentSound'
  BY <1>1 DEF TurnInv, AgentSound, CountedRuns, CloseAgent, CloseStore
<1>3. SessionSound' /\ ResultsFollow' /\ AnswersKept
  BY <1>1 DEF TurnInv, SessionSound, ResultsFollow, AnswersKept, FinalKept
<1>4. QED
  BY <1>1, <1>2, <1>3 DEF TurnInv

LEMMA CrashKeeps ==
    ASSUME TurnInv, Crash
    PROVE  TurnInv' /\ AnswersKept
<1> DEFINE s == "dead"
<1>1. /\ run' = [r \in Runs |-> IF run[r].phase \in {"idle", "ended"} THEN run[r] ELSE Left(run[r], s)]
      /\ session' = Fresh(history) /\ agent' = [closed |-> FALSE, count |-> 0, store |-> "open"]
      /\ UNCHANGED history
  BY DEF Crash
<1>2. s \in {"released", "dead"} /\ s # "released" /\ s = "dead"
  OBVIOUS
<1> HIDE DEF s
<1>3. ASSUME NEW r \in Runs
      PROVE  /\ RunSound(r, run'[r], history) /\ run'[r].phase \in {"idle", "ended", "dead"}
             /\ run'[r].muted = run[r].muted /\ FinalKept(run[r], run'[r])
  <2>1. RunSound(r, run[r], history)
    BY DEF TurnInv
  <2>2. CASE run[r].phase \in {"idle", "ended"}
    BY <1>1, <2>1, <2>2 DEF FinalKept
  <2>3. CASE run[r].phase \notin {"idle", "ended"}
    BY <1>1, <1>2, <2>1, <2>3, LeftSound
  <2>4. QED
    BY <2>2, <2>3
<1>4. CountedRuns' = {}
  BY <1>3 DEF CountedRuns, Counted, Working
<1>5. AgentSound'
  BY <1>1, <1>4, FS_EmptySet DEF AgentSound
<1>6. SessionSound'
  <2>1. DOMAIN session' = {"active", "view", "skills"} /\ session'.active = NoRun
    BY <1>1 DEF Fresh
  <2>2. \A r \in Runs : run'[r].phase \notin Working
    BY <1>3 DEF Working
  <2>3. QED
    BY <2>1, <2>2, SessionAssumption DEF SessionSound
<1>7. ResultsFollow'
  BY <1>1, <1>3, HistoryIsMessages DEF TurnInv, ResultsFollow
<1>8. AnswersKept
  BY <1>3 DEF AnswersKept
<1>9. QED
  BY <1>1, <1>3, <1>5, <1>6, <1>7, <1>8 DEF TurnInv

-----------------------------------------------------------------------------
\* The specification

LEMMA InitIsSound ==
    ASSUME Init PROVE TurnInv
<1>1. /\ DOMAIN run = Runs /\ history = <<>> /\ agent = [closed |-> FALSE, count |-> 0, store |-> "open"]
      /\ session = [active |-> NoRun, view |-> <<>>, skills |-> FALSE]
      /\ \A r \in Runs : run[r] = NewRun
  BY DEF Init
<1>2. ASSUME NEW r PROVE CallsIn(r, history) = {}
  BY <1>1 DEF CallsIn
<1>3. ASSUME NEW r \in Runs PROVE RunSound(r, run[r], history)
  <2> DEFINE rec == run[r]
  <2>1. /\ IsRun(rec) /\ rec.phase = "idle" /\ rec.results = <<>> /\ rec.plan = <<>>
        /\ rec.called = 0 /\ rec.answers = <<>>
    BY <1>1, NewRunFacts
  <2> HIDE DEF rec
  <2>2. Cardinality(CallsIn(r, history)) = 0
    BY <1>2, FS_EmptySet
  <2>3. rec.phase \notin Stoppable /\ rec.phase \notin {"announce"} \cup Tooling
        /\ rec.phase \notin {"assistant", "announce"}
    BY <2>1 DEF Stoppable, Working, Tooling
  <2>4. CallsWithin(r, rec, history)
    BY <2>1, <2>2, <2>3, Limits DEF CallsWithin
  <2>5. RunSound(r, rec, history)
    BY <2>1, <2>3, <2>4 DEF RunSound
  <2>6. QED
    BY <2>5 DEF rec
<1>4. \A r \in Runs : run[r].phase = "idle"
  BY <1>1, NewRunFacts
<1>5. CountedRuns = {}
  BY <1>4 DEF CountedRuns, Counted, Working
<1>6. AgentSound
  BY <1>1, <1>5, FS_EmptySet DEF AgentSound
<1>7. SessionSound
  BY <1>1, <1>4, SessionAssumption DEF SessionSound, Working
<1>8. history \in Seq(Messages) /\ ResultsFollow
  BY <1>1 DEF ResultsFollow
<1>9. QED
  BY <1>1, <1>3, <1>6, <1>7, <1>8 DEF TurnInv

LEMMA StepKeeps ==
    ASSUME TurnInv, [Next]_svars
    PROVE  TurnInv' /\ AnswersKept
<1>1. CASE UNCHANGED svars
  <2>1. UNCHANGED <<agent, session, history, run>>
    BY <1>1 DEF svars
  <2>2. UNCHANGED <<agent, session, history, run>> /\ CountedRuns' = CountedRuns
    BY <2>1 DEF CountedRuns
  <2>3. AgentSound' /\ SessionSound' /\ ResultsFollow' /\ AnswersKept
    BY <2>2 DEF TurnInv, AgentSound, SessionSound, ResultsFollow, AnswersKept, FinalKept
  <2>4. QED
    BY <2>1, <2>3 DEF TurnInv
<1>2. ASSUME NEW r \in Runs, StartRun(r) \/ Stop(r) \/ Work(r)
      PROVE  TurnInv' /\ AnswersKept
  <2>1. CASE StartRun(r)
    BY <2>1, StartRunKeeps
  <2>2. CASE Stop(r)
    BY <2>2, StopKeeps
  <2>3. CASE Work(r)
    <3>1. CASE LoadRuntime(r) \/ AppendPrompt(r) \/ Turn(r) \/ Compact(r) \/ Install(r) \/ Request(r)
      BY <3>1, LoadRuntimeKeeps, AppendPromptKeeps, TurnKeeps, CompactKeeps, InstallKeeps, RequestKeeps
    <3>2. CASE \E plan \in Plans[r], stop \in {"end", "tool_use", "max_tokens"} : StreamAnswers(r, plan, stop)
      BY <3>2, StreamAnswersKeeps
    <3>3. CASE StreamFails(r) \/ AppendAssistant(r) \/ Announce(r) \/ Permit(r) \/ Resolve(r)
      BY <3>3, StreamFailsKeeps, AppendAssistantKeeps, AnnounceKeeps, PermitKeeps, ResolveKeeps
    <3>4. CASE \E i \in DOMAIN run[r].slots : StartCall(r, i) \/ EndCall(r, i) \/ Collect(r, i)
      BY <3>4, StartCallKeeps, EndCallKeeps, CollectKeeps
    <3>5. CASE Sweep(r) \/ NextBatch(r) \/ AppendResults(r) \/ Release(r) \/ EndRun(r)
      BY <3>5, SweepKeeps, NextBatchKeeps, AppendResultsKeeps, ReleaseKeeps, EndRunKeeps
    <3>6. QED
      BY <2>3, <3>1, <3>2, <3>3, <3>4, <3>5 DEF Work, Proceed, Hear
  <2>4. QED
    BY <1>2, <2>1, <2>2, <2>3
<1>3. CASE CloseAgent \/ CloseStore
  BY <1>3, CloseKeepsRuns
<1>4. CASE Crash
  BY <1>4, CrashKeeps
<1>5. QED
  BY <1>1, <1>2, <1>3, <1>4 DEF Next

LEMMA CountsHold ==
    ASSUME TurnInv PROVE RunsAccounted
<1>1. RunAccounting
  BY DEF TurnInv, AgentSound, SessionSound, CountedRuns, RunAccounting
<1>2. OneResult
  <2> SUFFICES ASSUME NEW r \in Runs
               PROVE  /\ Len(run[r].results) <= 1
                      /\ run[r].phase \in {"released", "ended"} /\ ~run[r].muted => Len(run[r].results) = 1
    BY DEF OneResult
  <2>1. RunSound(r, run[r], history)
    BY DEF TurnInv
  <2>2. CASE run[r].results = <<>>
    BY <2>1, <2>2 DEF RunSound
  <2>3. CASE \E s : run[r].results = <<s>>
    <3>1. Len(run[r].results) = 1
      BY <2>3
    <3>2. QED
      BY <3>1
  <2>4. QED
    BY <2>1, <2>2, <2>3 DEF RunSound
<1>3. QED
  BY <1>1, <1>2 DEF RunsAccounted

LEMMA AnswersHold ==
    ASSUME TurnInv PROVE AnswersFollowCalls
<1>1. ASSUME NEW r \in Runs, NEW i \in DOMAIN history
      PROVE  Cardinality({p \in (1..i) \X (1..CallLimit + 1) :
                            history[p[1]].by = r /\ p[2] <= history[p[1]].calls}) <= CallLimit
  <2> DEFINE S == {p \in (1..i) \X (1..CallLimit + 1) :
                     history[p[1]].by = r /\ p[2] <= history[p[1]].calls}
  <2>1. Len(history) \in Nat /\ DOMAIN history = 1 .. Len(history)
    BY HistoryIsMessages
  <2>2. S \subseteq CallsIn(r, history)
    BY <2>1 DEF CallsIn
  <2>3. IsFiniteSet(CallsIn(r, history)) /\ Cardinality(CallsIn(r, history)) \in Nat
    <3>1. IsFiniteSet((1 .. Len(history)) \X (1 .. CallLimit + 1))
      <4>1. IsFiniteSet(1 .. Len(history)) /\ IsFiniteSet(1 .. CallLimit + 1)
        BY <2>1, Limits, FS_Interval
      <4>2. QED
        BY <4>1, FS_Product
    <3>2. QED
      BY <3>1, FS_Subset, FS_CardinalityType DEF CallsIn
  <2>4. Cardinality(CallsIn(r, history)) <= CallLimit
    BY DEF TurnInv, RunSound, CallsWithin
  <2> HIDE DEF S
  <2>5. IsFiniteSet(S) /\ Cardinality(S) <= Cardinality(CallsIn(r, history)) /\ Cardinality(S) \in Nat
    BY <2>2, <2>3, FS_Subset, FS_CardinalityType
  <2>6. Cardinality(S) <= CallLimit
    BY <2>3, <2>4, <2>5, Limits
  <2>7. QED
    BY <2>6 DEF S
<1>2. ResultsFollow
  BY DEF TurnInv
<1>3. QED
  BY <1>1, <1>2 DEF AnswersFollowCalls, ResultsFollow

THEOREM TurnInvHolds == Spec => []TurnInv
<1>1. Init => TurnInv
  BY InitIsSound
<1>2. TurnInv /\ [Next]_svars => TurnInv'
  BY StepKeeps
<1>3. QED
  BY <1>1, <1>2, PTL DEF Spec

\* At most one run works on the session and it is the active one, the agent
\* waits for exactly the runs that have not unwound, and each run that has
\* unwound reported one result, or at most one when its stream was closed.
THEOREM RunsAreAccountedFor == Spec => []RunsAccounted
<1>1. TurnInv => RunsAccounted
  BY CountsHold
<1>2. QED
  BY <1>1, TurnInvHolds, PTL

\* Stored results answer the assistant message before them, one for each call
\* and within the run's limit, each as the call gave it: in a cancelled run a
\* stand-in may take its place, though the call had its result, but is not stored.
THEOREM AnswersMatchCalls == Spec => AnswersSound
<1>1. TurnInv => AnswersFollowCalls
  BY AnswersHold
<1>2. TurnInv /\ [Next]_svars =>
        [\A r \in Runs : \A i \in DOMAIN run[r].answers \cap DOMAIN run'[r].answers :
           run[r].answers[i] \in {"ok", "error"} /\ run'[r].answers[i] # run[r].answers[i] =>
              run'[r].answers[i] = StandIn /\ run[r].cancelled]_svars
  BY StepKeeps DEF AnswersKept, FinalKept
<1>3. QED
  BY <1>1, <1>2, TurnInvHolds, PTL DEF Spec, AnswersSound, AnswersAreFinal

-----------------------------------------------------------------------------
\* What the provider sees of the history

\* A view of f entries before m messages of the history from first on.
Shaped(view, f, first, m) ==
    /\ DOMAIN view = 1..f + m
    /\ f >= 1 => view[1] = Summary
    /\ f = 2 => view[2] = Replay
    /\ \A i \in f + 1..f + m : view[i] = first + i - f - 1

\* A view is a summary and a replay, one or none of them, and the messages of
\* the history from one on that begins a user turn.
ViewSound(view, h) ==
    \E f \in 0..2, first \in 1..Len(h) + 1 :
        /\ Shaped(view, f, first, Len(h) - first + 1)
        /\ first > 1 => f >= 1 /\ first <= Len(h) /\ h[first].kind = "user"

\* What has been found to be worth a compaction still is when it is installed.
WorthCompacting == KeepLastTurnsStart(StripReplay(session.view)) # 1

InstallSound(rec) ==
    rec.phase = "install" =>
        /\ rec.summary = Summary \/ (rec.summary = Truncated /\ rec.cancelled)
        /\ WorthCompacting

ViewInv ==
    /\ session.view \in Seq(Int) /\ ViewSound(session.view, history)
    /\ \A r \in Runs : InstallSound(run[r])

LEMMA LongerSequence ==
    ASSUME NEW S, NEW q \in Seq(S), NEW x \in S
    PROVE  /\ Len(q) \in Nat /\ DOMAIN q = 1 .. Len(q)
           /\ Append(q, x) \in Seq(S) /\ DOMAIN Append(q, x) = 1 .. Len(q) + 1
           /\ Append(q, x)[Len(q) + 1] = x
           /\ \A k \in 1 .. Len(q) : Append(q, x)[k] = q[k]
OBVIOUS

\* Positions, counted without the second.
LEMMA CountAll ==
    ASSUME NEW n \in Nat
    PROVE  /\ Cardinality(1..n) = n
           /\ \A i \in 1..n : Cardinality({j \in 1..n : j <= i}) = i
<1>1. \A i \in 1..n : {j \in 1..n : j <= i} = 1..i
  OBVIOUS
<1>2. \A i \in 0..n : Cardinality(1..i) = i
  BY FS_Interval
<1>3. ASSUME NEW i \in 1..n PROVE Cardinality({j \in 1..n : j <= i}) = i
  <2>1. {j \in 1..n : j <= i} = 1..i /\ i \in 0..n
    BY <1>1
  <2> QED BY <2>1, <1>2
<1> QED BY <1>2, <1>3

LEMMA CountOthers ==
    ASSUME NEW n \in Nat, n >= 2
    PROVE  /\ Cardinality((1..n) \ {2}) = n - 1
           /\ \A i \in (1..n) \ {2} : Cardinality({j \in (1..n) \ {2} : j <= i}) = IF i = 1 THEN 1 ELSE i - 1
<1>1. \A i \in 1..n : Cardinality(1..i) = i /\ IsFiniteSet(1..i)
  BY FS_Interval
<1>2. \A i \in 2..n : Cardinality((1..i) \ {2}) = i - 1
  <2> SUFFICES ASSUME NEW i \in 2..n PROVE Cardinality((1..i) \ {2}) = i - 1
    OBVIOUS
  <2>1. IsFiniteSet(1..i) /\ Cardinality(1..i) = i /\ 2 \in 1..i
    BY <1>1
  <2> QED BY <2>1, FS_RemoveElement
<1>3. \A i \in 2..n : {j \in (1..n) \ {2} : j <= i} = (1..i) \ {2}
  OBVIOUS
<1>4. {j \in (1..n) \ {2} : j <= 1} = 1..1 /\ Cardinality(1..1) = 1
  <2>1. 1 \in 1..n
    OBVIOUS
  <2>2. {j \in (1..n) \ {2} : j <= 1} = 1..1
    OBVIOUS
  <2> QED BY <2>1, <2>2, <1>1
<1>5. \A i \in (1..n) \ {2} : i = 1 \/ i \in 2..n
  OBVIOUS
<1>6. n \in 2..n
  OBVIOUS
<1> QED BY <1>2, <1>3, <1>4, <1>5, <1>6

\* Stripping a view without a replay leaves it, and of one whose second entry
\* is the replay the others.
LEMMA StripNothing ==
    ASSUME NEW view \in Seq(Int), \A i \in DOMAIN view : view[i] # Replay
    PROVE  DOMAIN StripReplay(view) = DOMAIN view /\ \A k \in DOMAIN view : StripReplay(view)[k] = view[k]
<1> DEFINE n == Len(view)
           others == {i \in DOMAIN view : view[i] # Replay}
           Count(i) == Cardinality({j \in others : j <= i})
           Place(k) == CHOOSE i \in others : Count(i) = k
<1>1. n \in Nat /\ DOMAIN view = 1..n /\ others = 1..n
  OBVIOUS
<1>2. StripReplay(view) = [k \in 1..Cardinality(others) |-> view[Place(k)]]
  BY DEF StripReplay
<1> HIDE DEF n, others
<1>3. Cardinality(others) = n /\ \A i \in others : Count(i) = i
  BY <1>1, CountAll
<1> HIDE DEF Count
<1>4. \A k \in 1..n : Place(k) = k
  BY <1>1, <1>3
<1> HIDE DEF Place
<1> QED BY <1>1, <1>2, <1>3, <1>4

LEMMA StripSecond ==
    ASSUME NEW view \in Seq(Int), Len(view) >= 2, view[2] = Replay,
           \A i \in DOMAIN view : i # 2 => view[i] # Replay
    PROVE  /\ DOMAIN StripReplay(view) = 1..Len(view) - 1
           /\ StripReplay(view)[1] = view[1]
           /\ \A k \in 2..Len(view) - 1 : StripReplay(view)[k] = view[k + 1]
<1> DEFINE n == Len(view)
           others == {i \in DOMAIN view : view[i] # Replay}
           Count(i) == Cardinality({j \in others : j <= i})
           Place(k) == CHOOSE i \in others : Count(i) = k
<1>1. n \in Nat /\ n >= 2 /\ DOMAIN view = 1..n /\ others = (1..n) \ {2}
  OBVIOUS
<1>2. StripReplay(view) = [k \in 1..Cardinality(others) |-> view[Place(k)]]
  BY DEF StripReplay
<1>a. n = Len(view)
  OBVIOUS
<1> HIDE DEF n, others
<1>3. /\ Cardinality(others) = n - 1
      /\ \A i \in others : Count(i) = IF i = 1 THEN 1 ELSE i - 1
  BY <1>1, CountOthers
<1> HIDE DEF Count
<1>4. Place(1) = 1
  <2>1. 1 \in others /\ Count(1) = 1
    BY <1>1, <1>3
  <2>2. \A i \in others : Count(i) = 1 => i = 1
    BY <1>1, <1>3
  <2> QED BY <2>1, <2>2
<1>5. \A k \in 2..n - 1 : Place(k) = k + 1
  <2> SUFFICES ASSUME NEW k \in 2..n - 1 PROVE Place(k) = k + 1
    OBVIOUS
  <2>1. k + 1 \in others /\ Count(k + 1) = k
    BY <1>1, <1>3
  <2>2. \A i \in others : Count(i) = k => i = k + 1
    BY <1>1, <1>3
  <2> QED BY <2>1, <2>2
<1> HIDE DEF Place
<1>6. DOMAIN StripReplay(view) = 1..n - 1 /\ \A k \in 1..n - 1 : StripReplay(view)[k] = view[Place(k)]
  BY <1>2, <1>3
<1>7. 1 \in 1..n - 1 /\ \A k \in 2..n - 1 : k \in 1..n - 1
  BY <1>1
<1>8. StripReplay(view)[1] = view[1] /\ \A k \in 2..n - 1 : StripReplay(view)[k] = view[k + 1]
  BY <1>4, <1>5, <1>6, <1>7
<1> QED BY <1>6, <1>8, <1>a

LEMMA StripShape ==
    ASSUME NEW view \in Seq(Int), NEW f \in 0..2, NEW first \in Nat \ {0}, NEW m \in Nat,
           Shaped(view, f, first, m)
    PROVE  Shaped(StripReplay(view), IF f = 0 THEN 0 ELSE 1, first, m)
<1>1. Summary = 0 /\ Replay = -2 /\ Summary # Replay
  BY DEF Summary, Replay
<1>2. \A i \in f + 1..f + m : view[i] = first + i - f - 1 /\ view[i] # Replay
  BY <1>1 DEF Shaped
<1>3. DOMAIN view = 1..f + m /\ Len(view) = f + m
  BY DEF Shaped
<1>4. CASE f < 2
  <2>1. \A i \in DOMAIN view : view[i] # Replay
    BY <1>1, <1>2, <1>3, <1>4 DEF Shaped
  <2>2. DOMAIN StripReplay(view) = DOMAIN view /\ \A k \in DOMAIN view : StripReplay(view)[k] = view[k]
    BY <2>1, StripNothing
  <2>3. CASE f = 0
    <3>1. DOMAIN StripReplay(view) = 1..0 + m
      BY <1>3, <2>2, <2>3
    <3>2. ASSUME NEW i \in 0 + 1..0 + m PROVE StripReplay(view)[i] = first + i - 0 - 1
      <4>1. i \in f + 1..f + m /\ i \in DOMAIN view
        BY <1>3, <2>3
      <4>2. view[i] = first + i - f - 1
        BY <1>2, <4>1
      <4> QED BY <2>2, <2>3, <4>1, <4>2
    <3> QED BY <2>3, <3>1, <3>2 DEF Shaped
  <2>4. CASE f = 1
    <3>1. DOMAIN StripReplay(view) = 1..1 + m
      BY <1>3, <2>2, <2>4
    <3>2. ASSUME NEW i \in 1 + 1..1 + m PROVE StripReplay(view)[i] = first + i - 1 - 1
      <4>1. i \in f + 1..f + m /\ i \in DOMAIN view
        BY <1>3, <2>4
      <4>2. view[i] = first + i - f - 1
        BY <1>2, <4>1
      <4> QED BY <2>2, <2>4, <4>1, <4>2
    <3>3. StripReplay(view)[1] = Summary
      BY <1>3, <2>2, <2>4 DEF Shaped
    <3> QED BY <2>4, <3>1, <3>2, <3>3 DEF Shaped
  <2> QED BY <1>4, <2>3, <2>4
<1>5. CASE f = 2
  <2>1. Len(view) >= 2 /\ view[2] = Replay /\ view[1] = Summary
    BY <1>3, <1>5 DEF Shaped
  <2>2. \A i \in DOMAIN view : i # 2 => view[i] # Replay
    BY <1>1, <1>2, <1>3, <1>5, <2>1
  <2>3. /\ DOMAIN StripReplay(view) = 1..Len(view) - 1 /\ StripReplay(view)[1] = view[1]
        /\ \A k \in 2..Len(view) - 1 : StripReplay(view)[k] = view[k + 1]
    BY <2>1, <2>2, StripSecond
  <2>4. \A i \in 2..1 + m : StripReplay(view)[i] = first + i - 2
    BY <1>2, <1>3, <1>5, <2>3
  <2> QED BY <1>3, <1>5, <2>1, <2>3, <2>4 DEF Shaped
<1> QED BY <1>4, <1>5

LEMMA StripIsFunction ==
    ASSUME NEW view
    PROVE  StripReplay(view) = [i \in DOMAIN StripReplay(view) |-> StripReplay(view)[i]]
BY DEF StripReplay

LEMMA StartsThere ==
    ASSUME NEW view, KeepLastTurnsStart(view) # 1
    PROVE  KeepLastTurnsStart(view) \in DOMAIN view /\ StartsUserTurn(view[KeepLastTurnsStart(view)])
BY DEF KeepLastTurnsStart

LEMMA RestOfSequence ==
    ASSUME NEW s \in Seq(Int), NEW a \in 1..Len(s)
    PROVE  /\ SubSeq(s, a, Len(s)) \in Seq(Int) /\ Len(SubSeq(s, a, Len(s))) = Len(s) - a + 1
           /\ \A k \in 1..Len(s) - a + 1 : SubSeq(s, a, Len(s))[k] = s[a + k - 1]
<1>1. SubSeq(s, a, Len(s)) \in Seq(Int)
  OBVIOUS
<1>2. Len(SubSeq(s, a, Len(s))) = Len(s) - a + 1
  OBVIOUS
<1>3. \A k \in 1..Len(s) - a + 1 : SubSeq(s, a, Len(s))[k] = s[a + k - 1]
  OBVIOUS
<1> QED BY <1>1, <1>2, <1>3

LEMMA PutBefore ==
    ASSUME NEW s \in Seq(Int), NEW x \in Int
    PROVE  /\ <<x>> \o s \in Seq(Int) /\ DOMAIN (<<x>> \o s) = 1..Len(s) + 1
           /\ (<<x>> \o s)[1] = x /\ \A k \in 2..Len(s) + 1 : (<<x>> \o s)[k] = s[k - 1]
OBVIOUS

LEMMA PutTwoBefore ==
    ASSUME NEW s \in Seq(Int), NEW x \in Int, NEW y \in Int
    PROVE  /\ <<x>> \o <<y>> \o s \in Seq(Int) /\ DOMAIN (<<x>> \o <<y>> \o s) = 1..Len(s) + 2
           /\ (<<x>> \o <<y>> \o s)[1] = x /\ (<<x>> \o <<y>> \o s)[2] = y
           /\ \A k \in 3..Len(s) + 2 : (<<x>> \o <<y>> \o s)[k] = s[k - 2]
OBVIOUS

\* A compaction cuts a sound view at a message that begins a user turn.
LEMMA CompactedSound ==
    ASSUME history \in Seq(Messages), session.view \in Seq(Int), ViewSound(session.view, history),
           WorthCompacting
    PROVE  LET v == CompactedView(StripReplay(session.view), Summary)
           IN  v \in Seq(Int) /\ ViewSound(v, history)
<1>1. PICK f \in 0..2 : \E first \in 1..Len(history) + 1 :
         /\ Shaped(session.view, f, first, Len(history) - first + 1)
         /\ first > 1 => f >= 1 /\ first <= Len(history) /\ history[first].kind = "user"
  BY DEF ViewSound
<1>2. PICK first \in 1..Len(history) + 1 :
         /\ Shaped(session.view, f, first, Len(history) - first + 1)
         /\ first > 1 => f >= 1 /\ first <= Len(history) /\ history[first].kind = "user"
  BY <1>1
<1> DEFINE n == Len(history)
           m == n - first + 1
           g == IF f = 0 THEN 0 ELSE 1
           s == StripReplay(session.view)
           start == KeepLastTurnsStart(s)
           rest == SubSeq(s, start, Len(s))
           v == CompactedView(s, Summary)
           e == IF session.skills THEN 2 ELSE 1
           from == first + start - g - 1
<1>3. n \in Nat /\ m \in Nat /\ g \in 0..1 /\ first \in Nat \ {0}
  OBVIOUS
<1>4. Shaped(s, g, first, m)
  BY <1>2, <1>3, StripShape
<1>5. start \in DOMAIN s /\ s[start] > 0 /\ history[s[start]].kind = "user"
  BY StartsThere DEF WorthCompacting, StartsUserTurn
<1>6. v = <<Summary>> \o (IF session.skills THEN <<Replay>> ELSE <<>>) \o rest
  BY DEF CompactedView
<1>n. n = Len(history) /\ m = n - first + 1
  OBVIOUS
<1> HIDE DEF n, m, g, s, start, v
<1>7. start \in g + 1..g + m /\ s[start] = from /\ DOMAIN s = 1..g + m
  <2>1. DOMAIN s = 1..g + m /\ (g = 1 => s[1] = 0) /\ \A i \in g + 1..g + m : s[i] = first + i - g - 1
    BY <1>3, <1>4 DEF Shaped, Summary
  <2>2. start \in g + 1..g + m
    BY <1>3, <1>5, <2>1
  <2> QED BY <2>1, <2>2
<1>8. s \in Seq(Int) /\ Len(s) = g + m
  <2>1. \A i \in 1..g + m : s[i] \in Int
    BY <1>3, <1>4 DEF Shaped, Summary
  <2>2. s = [i \in 1..g + m |-> s[i]]
    <3>1. s = [i \in DOMAIN s |-> s[i]]
      BY StripIsFunction DEF s
    <3> QED BY <1>7, <3>1
  <2>3. s \in [1..g + m -> Int] /\ g + m \in Nat
    BY <1>3, <2>1, <2>2
  <2>4. \A k \in Nat : \A q \in [1..k -> Int] : q \in Seq(Int) /\ Len(q) = k
    OBVIOUS
  <2> QED BY <2>3, <2>4
<1>9. /\ rest \in Seq(Int) /\ Len(rest) = g + m - start + 1
      /\ \A k \in 1..g + m - start + 1 : rest[k] = s[start + k - 1]
  BY <1>3, <1>7, <1>8, RestOfSequence
<1> HIDE DEF rest
<1>10. /\ v \in Seq(Int) /\ DOMAIN v = 1..Len(rest) + e /\ v[1] = Summary /\ (e = 2 => v[2] = Replay)
       /\ \A k \in e + 1..Len(rest) + e : v[k] = rest[k - e]
  <2>1. Summary \in Int /\ Replay \in Int
    BY DEF Summary, Replay
  <2>2. CASE session.skills
    BY <1>6, <1>9, <2>1, <2>2, PutTwoBefore
  <2>3. CASE ~session.skills
    <3>1. v = <<Summary>> \o rest
      BY <1>6, <1>9, <2>1, <2>3
    <3> QED BY <1>9, <2>1, <2>3, <3>1, PutBefore
  <2> QED BY <2>2, <2>3
<1> HIDE DEF e
<1>e. e \in 1..2
  BY DEF e
<1>11. from \in 1..n /\ Len(rest) = n - from + 1
  BY <1>3, <1>7, <1>9, <1>n
<1>12. \A k \in e + 1..e + n - from + 1 : v[k] = from + k - e - 1
  <2> SUFFICES ASSUME NEW k \in e + 1..e + n - from + 1 PROVE v[k] = from + k - e - 1
    OBVIOUS
  <2>1. v[k] = rest[k - e] /\ k - e \in 1..g + m - start + 1
    <3>1. Len(rest) = g + m - start + 1 /\ Len(rest) = n - from + 1 /\ Len(rest) \in Nat
      BY <1>9, <1>11
    <3>2. k \in e + 1..Len(rest) + e
      BY <1>3, <1>11, <1>e, <3>1
    <3>3. k - e \in 1..Len(rest)
      BY <1>e, <3>1, <3>2
    <3> QED BY <1>10, <3>1, <3>2, <3>3
  <2>2. rest[k - e] = s[start + (k - e) - 1]
    BY <2>1, <1>9
  <2>3. \A d \in 1..g + m - start + 1 : start + d - 1 \in g + 1..g + m
    BY <1>3, <1>7
  <2>4. s[start + (k - e) - 1] = first + (start + (k - e) - 1) - g - 1
    BY <1>3, <1>4, <2>1, <2>3 DEF Shaped
  <2> QED BY <1>3, <1>7, <1>e, <2>1, <2>2, <2>4
<1>13. DOMAIN v = 1..e + n - from + 1
  BY <1>3, <1>10, <1>11, <1>e
<1>14. history[from].kind = "user"
  BY <1>5, <1>7
<1> HIDE DEF from
<1>15. ViewSound(v, history)
  <2>1. /\ e >= 1 => v[1] = Summary
        /\ e = 2 => v[2] = Replay
        /\ from > 1 => e >= 1 /\ from <= n
    BY <1>10, <1>11, <1>e
  <2>2. e \in 0..2 /\ from \in 1..n + 1
    BY <1>3, <1>11, <1>e
  <2>3. Shaped(v, e, from, n - from + 1)
    <3>1. e + n - from + 1 = e + (n - from + 1)
      BY <1>3, <1>11, <1>e
    <3> QED BY <1>12, <1>13, <2>1, <3>1 DEF Shaped
  <2> QED BY <1>14, <2>1, <2>2, <2>3, <1>n DEF ViewSound
<1> QED BY <1>10, <1>15 DEF v, s

LEMMA WorthStays ==
    ASSUME UNCHANGED history, session'.view = session.view
    PROVE  WorthCompacting' = WorthCompacting
<1>1. \A v : KeepLastTurnsStart(v)' = KeepLastTurnsStart(v)
  BY DEF KeepLastTurnsStart, StartsUserTurn
<1>2. StripReplay(session.view)' = StripReplay(session.view)
  BY DEF StripReplay
<1> QED BY <1>1, <1>2 DEF WorthCompacting

\* A step of a run that leaves the view, and is not the beginning of a
\* compaction.
LEMMA ViewStays ==
    ASSUME ViewInv, UNCHANGED history, session'.view = session.view,
           \A q \in Runs : run'[q].phase = "install" =>
              /\ run[q].phase = "install" /\ run'[q].summary = run[q].summary
              /\ run[q].cancelled => run'[q].cancelled
    PROVE  ViewInv'
<1>1. WorthCompacting' = WorthCompacting
  BY WorthStays
<1>2. ASSUME NEW q \in Runs PROVE InstallSound(run[q])'
  BY <1>1 DEF ViewInv, InstallSound
<1> QED BY <1>2 DEF ViewInv

LEMMA RunGoesOn ==
    ASSUME TurnInv, ViewInv, NEW r \in Runs, NEW rec, run' = [run EXCEPT ![r] = rec],
           rec.phase # "install", UNCHANGED history, session'.view = session.view
    PROVE  ViewInv'
<1>1. run'[r] = rec /\ \A q \in Runs : q # r => run'[q] = run[q]
  BY DEF TurnInv
<1> QED BY <1>1, ViewStays

LEMMA RunFields ==
    ASSUME TurnInv, NEW r \in Runs
    PROVE  IsRun(run[r]) /\ DOMAIN session = {"active", "view", "skills"}
BY DEF TurnInv, RunSound, SessionSound

LEMMA EndedPhase ==
    ASSUME NEW rec, NEW subtype
    PROVE  Quit(rec).phase = "exit" /\ Ended(rec, subtype).phase = "exit"
BY DEF Quit, Ended, Left, NewRun

LEMMA RunStopsViews ==
    ASSUME TurnInv, ViewInv, NEW r \in Runs, RunStops(r), UNCHANGED history, session'.view = session.view
    PROVE  ViewInv'
<1>1. \A subtype : Ended(run[r], subtype).phase # "install"
  BY EndedPhase
<1>2. Quit(run[r]).phase # "install"
  BY EndedPhase
<1>3. CASE \E subtype : run' = [run EXCEPT ![r] = Ended(run[r], subtype)]
  BY <1>1, <1>3, RunGoesOn
<1>4. CASE run' = [run EXCEPT ![r] = Quit(run[r])]
  BY <1>2, <1>4, RunGoesOn
<1> QED BY <1>3, <1>4 DEF RunStops

\* Steps of the turn loop that leave the view.
LEMMA LoopViews ==
    ASSUME TurnInv, ViewInv, NEW r \in Runs,
           LoadRuntime(r) \/ Turn(r) \/ Request(r) \/ StreamFails(r) \/ Announce(r)
    PROVE  ViewInv'
<1>1. UNCHANGED <<session, history>>
  BY DEF LoadRuntime, Turn, Request, StreamFails, Announce, Stay
<1>2. IsRun(run[r])
  BY RunFields
<1>3. RunStops(r) \/ \E rec : run' = [run EXCEPT ![r] = rec] /\ rec.phase # "install"
  <2>1. CASE LoadRuntime(r)
    <3>1. [run[r] EXCEPT !.phase = "prompt"].phase # "install"
      BY <1>2 DEF IsRun, Fields
    <3> QED BY <2>1, <3>1 DEF LoadRuntime, SetRun, RunStops
  <2>2. CASE Turn(r)
    <3> DEFINE rec == [run[r] EXCEPT !.turn = @ + 1,
                          !.phase = IF Len(session.view) >= CompactAt THEN "compact" ELSE "request"]
    <3>1. rec.phase # "install"
      BY <1>2 DEF IsRun, Fields
    <3>2. RunStops(r) \/ run' = [run EXCEPT ![r] = rec]
      BY <2>2 DEF Turn, SetRun, RunStops
    <3> QED BY <3>1, <3>2
  <2>3. CASE Request(r)
    <3> DEFINE rec == [run[r] EXCEPT !.phase = "stream"]
    <3>1. rec.phase # "install"
      BY <1>2 DEF IsRun, Fields
    <3>2. RunStops(r) \/ run' = [run EXCEPT ![r] = rec]
      BY <2>3 DEF Request, SetRun, EndWith, RunStops
    <3> QED BY <3>1, <3>2
  <2>4. CASE StreamFails(r)
    <3> DEFINE again == [run[r] EXCEPT !.attempt = @ + 1]
               rec == [run[r] EXCEPT !.phase = "compact", !.forced = TRUE, !.attempt = 1]
    <3>1. rec.phase # "install" /\ again.phase = run[r].phase
      BY <1>2 DEF IsRun, Fields
    <3>2. run[r].phase = "stream"
      BY <2>4 DEF StreamFails, InPhase
    <3>3. RunStops(r) \/ run' = [run EXCEPT ![r] = rec] \/ run' = [run EXCEPT ![r] = again]
      BY <2>4 DEF StreamFails, SetRun, EndWith, RunStops
    <3> HIDE DEF rec, again
    <3> QED BY <3>1, <3>2, <3>3
  <2>5. CASE Announce(r)
    <3> DEFINE plan == run[r].plan
               rec == [run[r] EXCEPT !.phase = "permit", !.at = 1,
                         !.slots = [i \in DOMAIN plan |-> "new"],
                         !.answers = [i \in DOMAIN plan |-> IF plan[i] = "bad" THEN "error" ELSE "none"]]
    <3>1. rec.phase # "install"
      BY <1>2 DEF IsRun, Fields
    <3>2. RunStops(r) \/ run' = [run EXCEPT ![r] = rec]
      <4>1. run' = [run EXCEPT ![r] = IF run[r].muted THEN Quit(run[r])
                     ELSE IF run[r].stop # "tool_use"
                     THEN Ended(run[r], IF run[r].stop = "end" THEN "success" ELSE "incomplete")
                     ELSE rec]
        BY <2>5 DEF Announce, SetRun
      <4> HIDE DEF rec
      <4> QED BY <4>1 DEF RunStops
    <3> QED BY <3>1, <3>2
  <2> QED BY <2>1, <2>2, <2>3, <2>4, <2>5
<1>4. CASE RunStops(r)
  BY <1>1, <1>4, RunStopsViews
<1>5. ASSUME NEW rec, run' = [run EXCEPT ![r] = rec], rec.phase # "install" PROVE ViewInv'
  BY <1>1, <1>5, RunGoesOn
<1> QED BY <1>3, <1>4, <1>5

LEMMA StreamAnswersViews ==
    ASSUME TurnInv, ViewInv, NEW r \in Runs, NEW plan, NEW stop, StreamAnswers(r, plan, stop)
    PROVE  ViewInv'
<1> DEFINE answered == [run[r] EXCEPT !.used = @ + 1, !.called = @ + Len(plan),
                                   !.plan = plan, !.stop = stop,
                                   !.attempt = 1, !.forced = FALSE]
           rec == [answered EXCEPT !.phase = "assistant"]
<1>1. UNCHANGED <<session, history>>
  BY DEF StreamAnswers, Stay
<1>2. IsRun(run[r])
  BY RunFields
<1>3. rec.phase # "install"
  BY <1>2 DEF IsRun, Fields
<1>4. run' = [run EXCEPT ![r] = rec] \/ run' = [run EXCEPT ![r] = Ended(answered, "error")]
  BY DEF StreamAnswers, SetRun
<1>5. Ended(answered, "error").phase # "install"
  BY EndedPhase
<1> HIDE DEF rec, answered
<1> QED BY <1>1, <1>3, <1>4, <1>5, RunGoesOn

\* Steps of the tool batches: the run stays in its phases of tools.
LEMMA ToolViews ==
    ASSUME TurnInv, ViewInv, NEW r \in Runs,
           \/ Permit(r) \/ Resolve(r) \/ Sweep(r) \/ NextBatch(r)
           \/ \E i \in DOMAIN run[r].slots : StartCall(r, i) \/ EndCall(r, i) \/ Collect(r, i)
    PROVE  ViewInv'
<1>1. IsRun(run[r]) /\ DOMAIN session = {"active", "view", "skills"}
  BY RunFields
<1>2. UNCHANGED history /\ session'.view = session.view
  BY <1>1 DEF Permit, Resolve, Sweep, NextBatch, StartCall, EndCall, Collect, Stay
<1> DEFINE Losing(lost) == [run[r] EXCEPT !.lost = lost]
<1>3. ASSUME NEW base, base = run[r] \/ \E lost : base = Losing(lost), NEW i, NEW answer, NEW parallel
      PROVE  /\ \A next \in Delivered(base, i, answer, parallel) : next.phase = run[r].phase
             /\ Returned(base, i, answer, parallel).phase = run[r].phase
  BY <1>1, <1>3 DEF IsRun, Fields, Delivered, Returned
<1> HIDE DEF Losing
<1>4. \E rec : run' = [run EXCEPT ![r] = rec] /\ rec.phase # "install"
  <2>1. CASE Permit(r)
    <3> DEFINE open == {i \in Batch(r) : run[r].answers[i] = "none"}
               Rec(asked, denied) == [run[r] EXCEPT
                    !.phase = IF asked # {} /\ ~run[r].muted THEN "asking" ELSE "tools",
                    !.swept = FALSE,
                    !.answers = [i \in DOMAIN @ |-> IF i \in denied THEN "error" ELSE @[i]],
                    !.slots = [i \in DOMAIN @ |->
                                 IF i \in asked /\ ~run[r].muted THEN "asked"
                                 ELSE IF i \in open \ (asked \cup denied) THEN "ready"
                                 ELSE IF i \in Batch(r) THEN "done" ELSE @[i]]]
    <3>1. \E asked \in SUBSET open : \E denied \in SUBSET (open \ asked) :
             run' = [run EXCEPT ![r] = Rec(asked, denied)]
      BY <2>1, Zenon DEF Permit, SetRun, Unanswered
    <3>2. \A asked, denied : Rec(asked, denied).phase # "install"
      BY <1>1 DEF IsRun, Fields
    <3> HIDE DEF Rec
    <3>3. PICK asked, denied : run' = [run EXCEPT ![r] = Rec(asked, denied)]
      BY <3>1
    <3> QED BY <3>2, <3>3
  <2>2. CASE Resolve(r)
    <3> DEFINE asked == {i \in Batch(r) : run[r].slots[i] = "asked"}
               Rec(granted) == [run[r] EXCEPT !.phase = "tools",
                 !.answers = [i \in DOMAIN @ |-> IF i \in asked \ granted THEN "error" ELSE @[i]],
                 !.slots = [i \in DOMAIN @ |-> IF i \in granted THEN "ready"
                                               ELSE IF i \in asked THEN "done" ELSE @[i]]]
    <3>1. \E granted : run' = [run EXCEPT ![r] = Rec(granted)]
      BY <2>2 DEF Resolve, SetRun
    <3>2. \A granted : Rec(granted).phase # "install"
      BY <1>1 DEF IsRun, Fields
    <3> HIDE DEF Rec
    <3> QED BY <3>1, <3>2
  <2>3. CASE Sweep(r)
    <3> DEFINE Rec(seen) == [run[r] EXCEPT !.swept = TRUE,
                       !.answers = [i \in DOMAIN @ |-> IF i \in seen THEN StandIn ELSE @[i]]]
    <3>1. run[r].phase = "tools" /\ \E seen : run' = [run EXCEPT ![r] = Rec(seen)]
      BY <2>3 DEF Sweep, SetRun, InPhase
    <3>2. \A seen : Rec(seen).phase = run[r].phase
      BY <1>1 DEF IsRun, Fields
    <3> HIDE DEF Rec
    <3> QED BY <3>1, <3>2
  <2>4. CASE NextBatch(r)
    <3> DEFINE next == BatchEnd(run[r].plan, run[r].at) + 1
               rec == [run[r] EXCEPT !.at = next, !.lost = {},
                        !.phase = IF next <= Len(run[r].plan) THEN "permit" ELSE "answer"]
    <3>1. run' = [run EXCEPT ![r] = rec]
      BY <2>4 DEF NextBatch, SetRun
    <3>2. rec.phase # "install"
      BY <1>1 DEF IsRun, Fields
    <3> QED BY <3>1, <3>2
  <2>5. ASSUME NEW i, StartCall(r, i) PROVE \E rec : run' = [run EXCEPT ![r] = rec] /\ rec.phase # "install"
    <3> DEFINE begun == [run[r] EXCEPT !.slots[i] = "running"]
    <3>1. run[r].phase = "tools" /\ begun.phase = run[r].phase
      BY <1>1, <2>5 DEF StartCall, InPhase, IsRun, Fields
    <3>2. \/ \E answer, parallel : \E next \in Delivered(run[r], i, answer, parallel) : run' = [run EXCEPT ![r] = next]
          \/ run' = [run EXCEPT ![r] = begun]
          \/ \E lost, answer, parallel : run' = [run EXCEPT ![r] = Returned(Losing(lost), i, answer, parallel)]
      BY <2>5 DEF StartCall, SetRun, Losing
    <3> HIDE DEF begun
    <3>3. CASE \E answer, parallel : \E next \in Delivered(run[r], i, answer, parallel) : run' = [run EXCEPT ![r] = next]
      <4>1. PICK answer, parallel : \E next \in Delivered(run[r], i, answer, parallel) : run' = [run EXCEPT ![r] = next]
        BY <3>3
      <4>2. \A next \in Delivered(run[r], i, answer, parallel) : next.phase = run[r].phase
        BY <1>3
      <4> QED BY <3>1, <4>1, <4>2
    <3>4. CASE \E lost, answer, parallel : run' = [run EXCEPT ![r] = Returned(Losing(lost), i, answer, parallel)]
      <4>1. PICK lost, answer, parallel : run' = [run EXCEPT ![r] = Returned(Losing(lost), i, answer, parallel)]
        BY <3>4
      <4>2. Returned(Losing(lost), i, answer, parallel).phase = run[r].phase
        BY <1>3
      <4> QED BY <3>1, <4>1, <4>2
    <3> QED BY <3>1, <3>2, <3>3, <3>4
  <2>6. ASSUME NEW i, EndCall(r, i) PROVE \E rec : run' = [run EXCEPT ![r] = rec] /\ rec.phase # "install"
    <3> DEFINE par == Parallel(r)
    <3>1. run[r].phase = "tools"
      BY <2>6 DEF EndCall, InPhase
    <3>2. PICK answer : run' = [run EXCEPT ![r] = Returned(run[r], i, answer, par)]
      BY <2>6 DEF EndCall, SetRun
    <3> HIDE DEF par
    <3>3. Returned(run[r], i, answer, par).phase = run[r].phase
      BY <1>3
    <3> QED BY <3>1, <3>2, <3>3
  <2>7. ASSUME NEW i, Collect(r, i) PROVE \E rec : run' = [run EXCEPT ![r] = rec] /\ rec.phase # "install"
    <3> DEFINE answer == run[r].slots[i]
               yes == TRUE
    <3>1. run[r].phase = "tools"
      BY <2>7 DEF Collect, InPhase
    <3>2. PICK lost : \E next \in Delivered(Losing(lost), i, answer, yes) : run' = [run EXCEPT ![r] = next]
      BY <2>7 DEF Collect, SetRun, Losing
    <3> HIDE DEF answer, yes
    <3>3. \A next \in Delivered(Losing(lost), i, answer, yes) : next.phase = run[r].phase
      BY <1>3
    <3> QED BY <3>1, <3>2, <3>3
  <2> QED BY <2>1, <2>2, <2>3, <2>4, <2>5, <2>6, <2>7
<1> QED BY <1>2, <1>4, RunGoesOn

LEMMA OthersAreOutside ==
    ASSUME TurnInv, NEW r \in Runs, run[r].phase \in Working, NEW rec, run' = [run EXCEPT ![r] = rec],
           rec.phase # "install"
    PROVE  \A q \in Runs : InstallSound(run[q])'
<1>1. run'[r] = rec /\ \A q \in Runs : q # r => run'[q] = run[q]
  BY DEF TurnInv
<1>2. \A q \in Runs : q # r => run[q].phase \notin Working
  BY ActiveIsAlone
<1>3. "install" \in Working
  BY DEF Working
<1> QED BY <1>1, <1>2, <1>3 DEF InstallSound

\* A message that is stored is the last of the history and of the view.
LEMMA StoredSound ==
    ASSUME history \in Seq(Messages), ViewInv, NEW m \in Messages, DOMAIN session = {"active", "view", "skills"},
           Store(m)
    PROVE  session'.view \in Seq(Int) /\ ViewSound(session'.view, history')
<1> DEFINE n == Len(history)
           view == session.view
           longer == Append(view, n + 1)
           h == Append(history, m)
<1>1. n \in Nat /\ session'.view = longer /\ history' = h
  BY DEF Store
<1>2. PICK f \in 0..2 : \E first \in 1..n + 1 :
         /\ Shaped(view, f, first, n - first + 1)
         /\ first > 1 => f >= 1 /\ first <= n /\ history[first].kind = "user"
  BY DEF ViewInv, ViewSound
<1>3. PICK first \in 1..n + 1 :
         /\ Shaped(view, f, first, n - first + 1)
         /\ first > 1 => f >= 1 /\ first <= n /\ history[first].kind = "user"
  BY <1>2
<1>4. view \in Seq(Int)
  BY DEF ViewInv
<1>5. /\ Len(view) \in Nat /\ DOMAIN view = 1..Len(view)
      /\ longer \in Seq(Int) /\ DOMAIN longer = 1..Len(view) + 1 /\ longer[Len(view) + 1] = n + 1
      /\ \A k \in 1..Len(view) : longer[k] = view[k]
  BY <1>1, <1>4, LongerSequence
<1>6. Len(h) = n + 1 /\ \A k \in 1..n : h[k] = history[k]
  OBVIOUS
<1> HIDE DEF n, view, longer, h
<1>7. DOMAIN view = 1..f + (n - first + 1)
  BY <1>3 DEF Shaped
<1>8. Len(view) = f + (n - first + 1)
  <2>1. f + (n - first + 1) \in Nat
    BY <1>1
  <2>2. \A a, b \in Nat : 1..a = 1..b => a = b
    OBVIOUS
  <2> QED BY <1>5, <1>7, <2>1, <2>2
<1>9. Shaped(longer, f, first, n + 1 - first + 1)
  <2>1. DOMAIN longer = 1..f + (n + 1 - first + 1)
    BY <1>1, <1>5, <1>8
  <2>2. (f >= 1 => longer[1] = Summary) /\ (f = 2 => longer[2] = Replay)
    BY <1>1, <1>3, <1>5, <1>8 DEF Shaped
  <2>3. ASSUME NEW i \in f + 1..f + (n + 1 - first + 1) PROVE longer[i] = first + i - f - 1
    <3>1. CASE i \in f + 1..f + (n - first + 1)
      <4>1. view[i] = first + i - f - 1 /\ i \in 1..Len(view)
        BY <1>1, <1>3, <1>8, <3>1 DEF Shaped
      <4> QED BY <1>5, <4>1
    <3>2. CASE i = Len(view) + 1
      <4>1. longer[i] = n + 1
        BY <1>5, <3>2
      <4>2. first + i - f - 1 = n + 1
        BY <1>1, <1>8, <3>2
      <4> QED BY <4>1, <4>2
    <3>3. i \in f + 1..f + (n - first + 1) \/ i = Len(view) + 1
      BY <1>1, <1>8
    <3> QED BY <3>1, <3>2, <3>3
  <2> QED BY <2>1, <2>2, <2>3 DEF Shaped
<1>10. /\ first \in 1..Len(h) + 1
       /\ first > 1 => f >= 1 /\ first <= Len(h) /\ h[first].kind = "user"
  BY <1>1, <1>3, <1>6
<1>11. ViewSound(longer, h)
  <2>1. Shaped(longer, f, first, Len(h) - first + 1)
    <3>1. Len(h) - first + 1 = n + 1 - first + 1
      BY <1>1, <1>6
    <3> QED BY <1>9, <3>1
  <2> QED BY <1>10, <2>1 DEF ViewSound
<1> QED BY <1>1, <1>5, <1>11

LEMMA AppendsView ==
    ASSUME TurnInv, ViewInv, NEW r \in Runs, AppendPrompt(r) \/ AppendAssistant(r) \/ AppendResults(r)
    PROVE  ViewInv'
<1>1. IsRun(run[r]) /\ DOMAIN session = {"active", "view", "skills"} /\ history \in Seq(Messages)
  BY RunFields DEF TurnInv
<1>2. CASE StoreFails(r)
  <2>1. RunStops(r) /\ UNCHANGED <<session, history>>
    BY <1>2 DEF StoreFails, EndWith, SetRun, RunStops, Stay
  <2> QED BY <2>1, RunStopsViews
<1>3. CASE ~StoreFails(r)
  <2>1. /\ run[r].phase \in Working
        /\ \E m \in Messages : Store(m)
        /\ \E rec : run' = [run EXCEPT ![r] = rec] /\ rec.phase # "install"
    <3>1. CASE AppendPrompt(r)
      <4> DEFINE m == Message("user", r, 0, <<>>)
                 rec == [run[r] EXCEPT !.phase = "turn"]
      <4>1. run[r].phase \in Working /\ Store(m) /\ run' = [run EXCEPT ![r] = rec]
        BY <1>3, <3>1 DEF AppendPrompt, SetRun, InPhase, Working
      <4>2. m \in Messages
        BY DEF Message, Messages
      <4>3. rec.phase # "install"
        BY <1>1 DEF IsRun, Fields
      <4> QED BY <4>1, <4>2, <4>3
    <3>2. CASE AppendAssistant(r)
      <4> DEFINE m == Message("assistant", r, Len(run[r].plan), <<>>)
                 rec == [run[r] EXCEPT !.phase = "announce"]
      <4>1. run[r].phase \in Working /\ Store(m) /\ run' = [run EXCEPT ![r] = rec]
        BY <1>3, <3>2 DEF AppendAssistant, SetRun, InPhase, Working
      <4>2. Len(run[r].plan) \in Nat
        BY DEF TurnInv, RunSound
      <4>3. m \in Messages
        BY <4>2 DEF Message, Messages
      <4>4. rec.phase # "install"
        BY <1>1 DEF IsRun, Fields
      <4> QED BY <4>1, <4>3, <4>4
    <3>3. CASE AppendResults(r)
      <4> DEFINE m == Message("results", r, 0, run[r].answers)
                 rec == Onward(run[r])
      <4>1. run[r].phase = "answer" /\ Store(m) /\ run' = [run EXCEPT ![r] = rec]
        BY <1>3, <3>3 DEF AppendResults, SetRun, InPhase
      <4>2. run[r].answers \in Seq(Answers) /\ run[r].phase \in Working
        BY <4>1 DEF TurnInv, RunSound, ToolsSound, Tooling, Working
      <4>3. m \in Messages
        BY <4>2 DEF Message, Messages
      <4>4. rec.phase # "install"
        BY <1>1 DEF Onward, IsRun, Fields
      <4> QED BY <4>1, <4>2, <4>3, <4>4
    <3> QED BY <3>1, <3>2, <3>3
  <2>2. session'.view \in Seq(Int) /\ ViewSound(session'.view, history')
    BY <1>1, <2>1, StoredSound
  <2>3. \A q \in Runs : InstallSound(run[q])'
    BY <2>1, OthersAreOutside
  <2> QED BY <2>2, <2>3 DEF ViewInv
<1> QED BY <1>2, <1>3

LEMMA CompactViews ==
    ASSUME TurnInv, ViewInv, NEW r \in Runs, Compact(r) PROVE ViewInv'
<1> DEFINE skip == [run[r] EXCEPT !.phase = "request"]
           blank == [run[r] EXCEPT !.phase = "request", !.used = @ + 1]
           Rec(told) == [run[r] EXCEPT !.phase = "install", !.used = @ + 1, !.summary = told]
           Told(told) == told = Summary \/ (told = Truncated /\ run[r].cancelled)
<1>1. IsRun(run[r]) /\ UNCHANGED <<session, history>>
  BY RunFields DEF Compact, Stay
<1>2. \/ RunStops(r)
      \/ run' = [run EXCEPT ![r] = skip]
      \/ run' = [run EXCEPT ![r] = blank]
      \/ /\ ~Unchanged(StripReplay(session.view))
         /\ \E told : Told(told) /\ run' = [run EXCEPT ![r] = Rec(told)]
  BY DEF Compact, SetRun, EndWith, RunStops
<1>3. /\ skip.phase # "install" /\ blank.phase # "install"
      /\ \A told : /\ Rec(told).phase = "install" /\ Rec(told).cancelled = run[r].cancelled
                   /\ Rec(told).summary = told
  BY <1>1 DEF IsRun, Fields
<1> HIDE DEF skip, blank, Rec
<1>4. CASE RunStops(r)
  BY <1>1, <1>4, RunStopsViews
<1>5. CASE run' = [run EXCEPT ![r] = skip] \/ run' = [run EXCEPT ![r] = blank]
  BY <1>1, <1>3, <1>5, RunGoesOn
<1>6. CASE /\ ~Unchanged(StripReplay(session.view))
           /\ \E told : Told(told) /\ run' = [run EXCEPT ![r] = Rec(told)]
  <2>1. PICK told : Told(told) /\ run' = [run EXCEPT ![r] = Rec(told)]
    BY <1>6
  <2>2. run'[r] = Rec(told) /\ \A q \in Runs : q # r => run'[q] = run[q]
    BY <2>1 DEF TurnInv
  <2>3. WorthCompacting
    BY <1>6 DEF WorthCompacting, Unchanged
  <2>4. WorthCompacting' = WorthCompacting
    BY <1>1, WorthStays
  <2>5. ASSUME NEW q \in Runs PROVE InstallSound(run[q])'
    <3>1. CASE q = r
      BY <1>3, <2>1, <2>2, <2>3, <2>4, <3>1 DEF InstallSound
    <3>2. CASE q # r
      BY <2>2, <2>3, <2>4, <3>2 DEF ViewInv, InstallSound
    <3> QED BY <3>1, <3>2
  <2> QED BY <1>1, <2>5 DEF ViewInv
<1> QED BY <1>2, <1>4, <1>5, <1>6

LEMMA InstallViews ==
    ASSUME TurnInv, ViewInv, NEW r \in Runs, Install(r) PROVE ViewInv'
<1> DEFINE rec == [run[r] EXCEPT !.phase = "request", !.summary = 0]
           old == StripReplay(session.view)
           v == CompactedView(old, run[r].summary)
<1>1. /\ IsRun(run[r]) /\ DOMAIN session = {"active", "view", "skills"}
      /\ run[r].phase = "install" /\ UNCHANGED history /\ history \in Seq(Messages)
  BY RunFields DEF Install, InPhase, TurnInv
<1>2. \/ RunStops(r) /\ UNCHANGED session
      \/ /\ ~run[r].cancelled /\ session' = [session EXCEPT !.view = v]
         /\ run' = [run EXCEPT ![r] = IF run[r].muted THEN Quit(run[r]) ELSE rec]
  BY DEF Install, SetRun, RunStops
<1>3. rec.phase # "install"
  BY <1>1 DEF IsRun, Fields
<1> HIDE DEF rec
<1>4. CASE RunStops(r) /\ UNCHANGED session
  BY <1>1, <1>4, RunStopsViews
<1>5. CASE /\ ~run[r].cancelled /\ session' = [session EXCEPT !.view = v]
           /\ run' = [run EXCEPT ![r] = IF run[r].muted THEN Quit(run[r]) ELSE rec]
  <2>1. run[r].summary = Summary /\ WorthCompacting
    BY <1>1, <1>5 DEF ViewInv, InstallSound
  <2>2. CompactedView(old, Summary) \in Seq(Int) /\ ViewSound(CompactedView(old, Summary), history)
    BY <1>1, <2>1, CompactedSound DEF ViewInv
  <2>3. session'.view = v
    BY <1>1, <1>5
  <2>4. session'.view \in Seq(Int) /\ ViewSound(session'.view, history')
    BY <1>1, <2>1, <2>2, <2>3
  <2>5. run[r].phase \in Working
    BY <1>1 DEF Working
  <2>6. Quit(run[r]).phase # "install"
    BY EndedPhase
  <2>7. (IF run[r].muted THEN Quit(run[r]) ELSE rec).phase # "install"
    BY <1>3, <2>6
  <2>8. \A q \in Runs : InstallSound(run[q])'
    BY <1>5, <2>5, <2>7, OthersAreOutside
  <2> QED BY <2>4, <2>8 DEF ViewInv
<1> QED BY <1>2, <1>4, <1>5

LEMMA RunsComeAndGo ==
    ASSUME TurnInv, ViewInv, NEW r \in Runs, StartRun(r) \/ Release(r) \/ EndRun(r) PROVE ViewInv'
<1>1. IsRun(run[r]) /\ DOMAIN session = {"active", "view", "skills"}
  BY RunFields
<1>2. UNCHANGED history /\ session'.view = session.view
  BY <1>1 DEF StartRun, Release, EndRun
<1>3. \E rec : run' = [run EXCEPT ![r] = rec] /\ rec.phase # "install"
  <2> DEFINE refused == [run[r] EXCEPT !.phase = "ended", !.results = <<"error">>]
             begun == [run[r] EXCEPT !.phase = "start"]
             over == [run[r] EXCEPT !.phase = "ended"]
  <2>1. refused.phase # "install" /\ begun.phase # "install" /\ over.phase # "install"
    BY <1>1 DEF IsRun, Fields
  <2>2. Left(run[r], "released").phase # "install"
    BY DEF Left, NewRun
  <2>3. \/ run' = [run EXCEPT ![r] = refused] \/ run' = [run EXCEPT ![r] = begun]
        \/ run' = [run EXCEPT ![r] = over] \/ run' = [run EXCEPT ![r] = Left(run[r], "released")]
    BY DEF StartRun, Release, EndRun, SetRun
  <2> HIDE DEF refused, begun, over
  <2> QED BY <2>1, <2>2, <2>3
<1> QED BY <1>2, <1>3, RunGoesOn

LEMMA StopViews ==
    ASSUME TurnInv, ViewInv, NEW r \in Runs, Stop(r) PROVE ViewInv'
<1>1. IsRun(run[r]) /\ UNCHANGED <<session, history>>
  BY RunFields DEF Stop, Abort, CloseHandle, CloseWork, LifecycleCancel, StopReading, Fault, Stay
<1>2. \E rec : /\ run' = [run EXCEPT ![r] = rec] /\ rec.phase = run[r].phase
               /\ rec.summary = run[r].summary /\ (run[r].cancelled => rec.cancelled)
  <2> DEFINE Same(rec) == /\ rec.phase = run[r].phase /\ rec.summary = run[r].summary
                          /\ run[r].cancelled => rec.cancelled
             cancel == [run[r] EXCEPT !.cancelled = TRUE]
             closing == [run[r] EXCEPT !.muted = TRUE, !.closing = TRUE]
             both == [run[r] EXCEPT !.muted = run[r].cancelled, !.cancelled = TRUE]
             stuck == [run[r] EXCEPT !.stuck = TRUE]
  <2>1. Same(cancel) /\ Same(closing) /\ Same(both) /\ Same(stuck)
    BY <1>1 DEF IsRun, Fields
  <2>2. \/ run' = [run EXCEPT ![r] = cancel] \/ run' = [run EXCEPT ![r] = closing]
        \/ run' = [run EXCEPT ![r] = both] \/ run' = [run EXCEPT ![r] = stuck]
    BY DEF Stop, Abort, CloseHandle, CloseWork, LifecycleCancel, StopReading, SetRun
  <2> HIDE DEF cancel, closing, both, stuck
  <2> QED BY <2>1, <2>2
<1>3. \A q \in Runs : /\ run'[q].phase = run[q].phase /\ run'[q].summary = run[q].summary
                      /\ run[q].cancelled => run'[q].cancelled
  BY <1>2 DEF TurnInv
<1> QED BY <1>1, <1>3, ViewStays

\* After a crash the view is the whole history.
LEMMA CrashViews ==
    ASSUME TurnInv, ViewInv, Crash PROVE ViewInv'
<1>1. history \in Seq(Messages) /\ UNCHANGED history /\ session'.view = [i \in 1..Len(history) |-> i]
  BY DEF TurnInv, Crash, Fresh
<1>2. Len(history) \in Nat
  BY <1>1
<1>3. session'.view \in Seq(Int)
  BY <1>1, <1>2
<1>4. Shaped(session'.view, 0, 1, Len(history) - 1 + 1)
  BY <1>1, <1>2 DEF Shaped
<1>5. ViewSound(session'.view, history')
  <2>1. 1 \in 1..Len(history) + 1 /\ 0 \in 0..2 /\ ~(1 > 1)
    BY <1>2
  <2>2. ViewSound(session'.view, history)
    BY <1>4, <2>1 DEF ViewSound
  <2> QED BY <1>1, <2>2
<1>6. ASSUME NEW q \in Runs PROVE run'[q].phase # "install"
  <2>1. run'[q] = IF run[q].phase \in {"idle", "ended"} THEN run[q] ELSE Left(run[q], "dead")
    BY DEF Crash
  <2>2. Left(run[q], "dead").phase = "dead"
    BY DEF Left, NewRun
  <2> QED BY <2>1, <2>2
<1> QED BY <1>3, <1>5, <1>6 DEF ViewInv, InstallSound

LEMMA InitViews == Init => ViewInv
<1> SUFFICES ASSUME Init PROVE ViewInv
  OBVIOUS
<1>1. session.view = <<>> /\ history = <<>> /\ \A r \in Runs : run[r].phase = "idle"
  BY DEF Init, NewRun
<1>2. Shaped(<<>>, 0, 1, 0) /\ Len(<<>>) = 0
  BY DEF Shaped
<1>3. ViewSound(<<>>, <<>>)
  BY <1>2 DEF ViewSound
<1> QED BY <1>1, <1>3 DEF ViewInv, InstallSound

LEMMA ViewStepKeeps == TurnInv /\ ViewInv /\ [Next]_svars => ViewInv'
<1> SUFFICES ASSUME TurnInv, ViewInv, [Next]_svars PROVE ViewInv'
  OBVIOUS
<1>1. CASE UNCHANGED svars
  BY <1>1, ViewStays DEF svars
<1>2. ASSUME NEW r \in Runs, Work(r) PROVE ViewInv'
  <2>1. CASE LoadRuntime(r) \/ Turn(r) \/ Request(r) \/ StreamFails(r) \/ Announce(r)
    BY <2>1, LoopViews
  <2>2. CASE AppendPrompt(r) \/ AppendAssistant(r) \/ AppendResults(r)
    BY <2>2, AppendsView
  <2>3. CASE Compact(r) \/ Install(r) \/ Release(r) \/ EndRun(r)
    BY <2>3, CompactViews, InstallViews, RunsComeAndGo
  <2>4. CASE \E plan \in Plans[r], stop \in {"end", "tool_use", "max_tokens"} : StreamAnswers(r, plan, stop)
    BY <2>4, StreamAnswersViews
  <2>5. CASE \/ Permit(r) \/ Resolve(r) \/ Sweep(r) \/ NextBatch(r)
             \/ \E i \in DOMAIN run[r].slots : StartCall(r, i) \/ EndCall(r, i) \/ Collect(r, i)
    BY <2>5, ToolViews
  <2> QED BY <1>2, <2>1, <2>2, <2>3, <2>4, <2>5 DEF Work, Proceed, Hear
<1>3. ASSUME NEW r \in Runs, StartRun(r) \/ Stop(r) PROVE ViewInv'
  BY <1>3, RunsComeAndGo, StopViews
<1>4. CASE CloseAgent \/ CloseStore
  BY <1>4, ViewStays DEF CloseAgent, CloseStore
<1>5. CASE Crash
  BY <1>5, CrashViews
<1> QED BY <1>1, <1>2, <1>3, <1>4, <1>5 DEF Next

LEMMA Joined ==
    ASSUME NEW p \in Seq(Int), NEW q \in Seq(Int)
    PROVE  /\ p \o q \in Seq(Int) /\ Len(p \o q) = Len(p) + Len(q)
           /\ \A k \in 1..Len(p) : (p \o q)[k] = p[k]
           /\ \A k \in Len(p) + 1..Len(p) + Len(q) : (p \o q)[k] = q[k - Len(p)]
OBVIOUS

LEMMA ViewHolds == ASSUME history \in Seq(Messages), ViewInv PROVE ViewFaithful
<1>1. PICK f \in 0..2 : \E first \in 1..Len(history) + 1 :
         /\ Shaped(session.view, f, first, Len(history) - first + 1)
         /\ first > 1 => f >= 1 /\ first <= Len(history) /\ history[first].kind = "user"
  BY DEF ViewInv, ViewSound
<1>2. PICK first \in 1..Len(history) + 1 :
         /\ Shaped(session.view, f, first, Len(history) - first + 1)
         /\ first > 1 => f >= 1 /\ first <= Len(history) /\ history[first].kind = "user"
  BY <1>1
<1> DEFINE n == Len(history)
           m == n - first + 1
           view == session.view
           tail == [i \in 1..m |-> first + i - 1]
           front == IF f = 0 THEN <<>> ELSE IF f = 1 THEN <<Summary>> ELSE <<Summary, Replay>>
<1>3. n \in Nat /\ m \in Nat /\ view \in Seq(Int) /\ Shaped(view, f, first, m)
  BY <1>2 DEF ViewInv
<1>4. front \in {<<>>, <<Summary>>, <<Summary, Replay>>} /\ (f >= 1 => front # <<>>)
  OBVIOUS
<1> HIDE DEF n, m, view
<1>5. tail \in Seq(Int) /\ Len(tail) = m /\ \A k \in 1..m : tail[k] = first + k - 1
  BY <1>3
<1>6. front \in Seq(Int) /\ Len(front) = f
  BY DEF Summary, Replay
<1>7. Len(view) = f + m /\ DOMAIN view = 1..f + m
  BY <1>3 DEF Shaped
<1> DEFINE whole == front \o tail
<1>8. /\ whole \in Seq(Int) /\ Len(whole) = f + m
      /\ \A k \in 1..f : whole[k] = front[k]
      /\ \A k \in f + 1..f + m : whole[k] = tail[k - f]
  <2> HIDE DEF front, tail
  <2> QED BY <1>5, <1>6, Joined
<1>9. \A k \in 1..f + m : view[k] = whole[k]
  <2>1. \A k \in 1..f : view[k] = front[k]
    BY <1>3 DEF Shaped
  <2>2. \A k \in f + 1..f + m : view[k] = tail[k - f]
    BY <1>3, <1>5 DEF Shaped
  <2>3. \A k \in 1..f + m : k \in 1..f \/ k \in f + 1..f + m
    BY <1>3
  <2> QED BY <1>8, <2>1, <2>2, <2>3
<1> HIDE DEF whole, tail, front
<1>10. view = whole
  BY <1>3, <1>7, <1>8, <1>9
<1> QED BY <1>2, <1>4, <1>10 DEF ViewFaithful, whole, tail, m, n, view

-----------------------------------------------------------------------------
(* ViewInv is inductive, relative to TurnInv: a view is a front and the rest *)
(* of the history, and what is about to be installed stands for a view worth *)
(* compacting and is, unless the run was cancelled, what the provider told   *)
(* until its stream ended.                                                   *)
THEOREM ViewInvHolds == Spec => []ViewInv
<1>1. Init => ViewInv
  BY InitViews
<1>2. TurnInv /\ ViewInv /\ [Next]_svars => ViewInv'
  BY ViewStepKeeps
<1> QED BY <1>1, <1>2, TurnInvHolds, PTL DEF Spec

(* The provider sees a suffix of the durable history that begins with a user *)
(* turn, behind one summary of the rest (compaction.go): what the provider   *)
(* told until its stream ended of itself, which need not be all it had to    *)
(* say, and never what a cancelled run had read of it, whatever is aborted,  *)
(* closed or crashes meanwhile.                                              *)
THEOREM HistoryIsSeenFaithfully == Spec => []ViewFaithful
<1>1. TurnInv /\ ViewInv => ViewFaithful
  BY ViewHolds DEF TurnInv
<1> QED BY <1>1, TurnInvHolds, ViewInvHolds, PTL

-----------------------------------------------------------------------------
\* The stream of a turn: what is relied on

WireEvents ==
    [type : {"message_start", "text_delta"}]
       \cup [type : {"tool_use_start", "tool_use_input_delta", "tool_use_end"}, id : CallIds \cup {NoId}]
       \cup [type : {"message_end"}, stop : {"end_turn", "tool_use"}]
       \cup [type : {"error"}, retryable : BOOLEAN]
Plain(e) == e.type \notin {"tool_use_start", "tool_use_input_delta"}
Loose(p) == \A k \in 1 .. Len(p) : Plain(p[k])

\* The fragments of call id that a message holds.
Held(m, id) == IF id \in m.started THEN m.input[id] ELSE 0

\* What the server said is what the message holds and what waits to be taken.
Accounted(m, s, p) ==
    \/ /\ Loose(p) /\ (~s.odd => s.started = m.started)
       /\ \A d \in CallIds : s.said[d] = Held(m, d)
    \/ \E id \in CallIds :
          /\ p = ToolEvents("tool_use_start", id)
          /\ ~s.odd => s.started = m.started \cup {id}
          /\ \A d \in CallIds : s.said[d] = Held(m, d)
    \/ \E id \in CallIds \cup {NoId} :
          /\ p = ToolEvents("tool_use_input_delta", id)
          /\ ~s.odd => s.started = m.started
          /\ \A d \in CallIds : s.said[d] = IF d = id THEN Held(m, d) + 1 ELSE Held(m, d)

\* A message has one call for each that has ended, with all of its fragments.
MessageSound(m) ==
    /\ m.started \subseteq CallIds /\ m.ended \subseteq m.started
    /\ DOMAIN m.input = CallIds \cup {NoId} /\ \A d \in CallIds : m.input[d] \in Nat
    /\ m.content \in Seq([id : CallIds, input : Nat])
    /\ {m.content[k].id : k \in DOMAIN m.content} = m.ended
    /\ \A k, l \in DOMAIN m.content : m.content[k].id = m.content[l].id => k = l
    /\ \A k \in DOMAIN m.content : m.content[k].input = m.input[m.content[k].id]

\* The adapter remembers the owners of the indexes; it has seen an index
\* without an owner only of an odd server.
SlotsSound(a, s) ==
    /\ DOMAIN s.owner = Indexes /\ DOMAIN a.slots = Indexes /\ DOMAIN s.said = CallIds
    /\ \A i \in Indexes :
          /\ s.owner[i] \in CallIds \cup {NoId}
          /\ IF s.owner[i] = NoId THEN a.slots[i] \in {NoId, Unset} ELSE a.slots[i] = s.owner[i]
          /\ a.slots[i] = NoId => s.odd

ShownSound ==
    /\ shown \subseteq {turn.attempt}
    /\ turn.at = "waiting" => shown = {}
    /\ turn.at = "streaming" /\ shown # {} => msg.committed

StreamInv ==
    /\ DOMAIN turn = {"kind", "production", "attempt", "at", "outcome"}
    /\ DOMAIN server = DOMAIN Silent /\ DOMAIN msg = DOMAIN Empty
    /\ DOMAIN adapter = {"at", "pending", "slots", "stop", "over"}
    /\ turn.production \in BOOLEAN /\ stopped \in BOOLEAN
    /\ SlotsSound(adapter, server) /\ adapter.pending \in Seq(WireEvents)
    /\ adapter.stop \in {"end_turn", "tool_use"}
    /\ adapter.at = "stopped" /\ ~stopped => adapter.pending = <<>>
    /\ turn.production /\ turn.at = "streaming" /\ ~stopped =>
          MessageSound(msg) /\ Accounted(msg, server, adapter.pending)
    /\ turn.outcome = "message" => turn.at = "done" /\ adapter.at = "stopped"
    /\ CallsAreWhole
    /\ ShownSound

-----------------------------------------------------------------------------
\* What a server sends

LEMMA StreamConstants ==
    /\ NoId \notin CallIds /\ Unset \notin CallIds /\ NoId # Unset
    /\ CallIds \subseteq STRING
BY StreamAssumption DEF NoId, Unset

LEMMA OneEvent ==
    ASSUME NEW e \in WireEvents
    PROVE  /\ <<e>> \in Seq(WireEvents) /\ Len(<<e>>) = 1 /\ Head(<<e>>) = e /\ <<e>> # <<>>
           /\ Tail(<<e>>) = <<>> /\ (Plain(e) => Loose(<<e>>))
BY DEF Loose

LEMMA NoEvent == <<>> \in Seq(WireEvents) /\ Loose(<<>>)
BY DEF Loose

LEMMA EventFacts ==
    /\ [type |-> "message_start"] \in WireEvents /\ Plain([type |-> "message_start"])
    /\ [type |-> "text_delta"] \in WireEvents /\ Plain([type |-> "text_delta"])
    /\ \A stop \in {"end_turn", "tool_use"} :
          LET e == [type |-> "message_end", stop |-> stop] IN e \in WireEvents /\ Plain(e)
    /\ \A b \in BOOLEAN :
          LET e == [type |-> "error", retryable |-> b] IN e \in WireEvents /\ Plain(e)
    /\ \A id \in CallIds \cup {NoId} :
          LET e == [type |-> "tool_use_end", id |-> id] IN e \in WireEvents /\ Plain(e)
BY DEF WireEvents, Plain

LEMMA ToolEventFacts ==
    ASSUME NEW id \in CallIds \cup {NoId}, NEW type \in {"tool_use_start", "tool_use_input_delta", "tool_use_end"}
    PROVE  /\ ToolEvents(type, id) \in Seq(WireEvents) /\ ToolEvents(type, id) # <<>>
           /\ Head(ToolEvents(type, id)) = [type |-> type, id |-> id]
           /\ Tail(ToolEvents(type, id)) = <<>>
           /\ type = "tool_use_end" => Loose(ToolEvents(type, id))
<1>1. [type |-> type, id |-> id] \in WireEvents
  BY DEF WireEvents
<1>2. type = "tool_use_end" => Plain([type |-> type, id |-> id])
  BY DEF Plain
<1> QED BY <1>1, <1>2, OneEvent DEF ToolEvents

LEMMA WaitingNothing ==
    ASSUME NEW m, NEW s
    PROVE  Accounted(m, s, <<>>) <=>
              (~s.odd => s.started = m.started) /\ \A d \in CallIds : s.said[d] = Held(m, d)
BY NoEvent, ToolEventFacts DEF Accounted

LEMMA WaitingLoose ==
    ASSUME NEW m, NEW s, NEW p, Loose(p)
    PROVE  Accounted(m, s, <<>>) => Accounted(m, s, p)
<1>1. Accounted(m, s, <<>>) => (~s.odd => s.started = m.started) /\ \A d \in CallIds : s.said[d] = Held(m, d)
  BY WaitingNothing
<1> QED BY <1>1 DEF Accounted

\* What a server sends, and what the adapter makes of it, is accounted for.
LEMMA SentIsAccounted ==
    ASSUME StreamInv, adapter.at = "running", adapter.pending = <<>>,
           UNCHANGED <<turn, msg, stopped, shown>>,
           DOMAIN server' = DOMAIN Silent,
           DOMAIN adapter' = {"at", "pending", "slots", "stop", "over"}, adapter'.at = "running",
           SlotsSound(adapter', server'), adapter'.pending \in Seq(WireEvents),
           adapter'.stop \in {"end_turn", "tool_use"},
           Accounted(msg, server, <<>>) => Accounted(msg, server', adapter'.pending)
    PROVE  StreamInv'
<1>1. turn.outcome # "message"
  BY DEF StreamInv
<1>2. CallsAreWhole'
  BY <1>1 DEF CallsAreWhole
<1>3. ShownSound'
  BY DEF StreamInv, ShownSound
<1>4. (turn.production /\ turn.at = "streaming" /\ ~stopped =>
          MessageSound(msg) /\ Accounted(msg, server, adapter.pending))'
  BY DEF StreamInv
<1> QED BY <1>1, <1>2, <1>3, <1>4 DEF StreamInv

LEMMA SlotFacts ==
    ASSUME StreamInv, NEW i \in Indexes
    PROVE  /\ server.owner[i] \in CallIds \cup {NoId} /\ adapter.slots[i] \in CallIds \cup {NoId, Unset}
           /\ IdAt(i) = server.owner[i]
           /\ adapter.slots[i] = NoId => server.odd
           /\ server.owner[i] = NoId <=> adapter.slots[i] \in {NoId, Unset}
BY StreamConstants DEF StreamInv, SlotsSound, IdAt

LEMMA SentFacts ==
    ASSUME StreamInv, NEW s, Says(s)
    PROVE  /\ adapter.at = "running" /\ adapter.pending = <<>> /\ UNCHANGED <<turn, msg, stopped, shown>>
           /\ server' = [s EXCEPT !.sent = s.sent + 1]
BY DEF Says

LEMMA TranslateFacts ==
    ASSUME StreamInv, adapter.at = "running", NEW p, NEW slots, NEW stop, Translate(p, slots, stop)
    PROVE  /\ DOMAIN adapter' = {"at", "pending", "slots", "stop", "over"}
           /\ adapter'.at = "running" /\ adapter'.pending = p /\ adapter'.slots = slots
           /\ adapter'.stop = stop
BY DEF StreamInv, Translate

LEMMA SendStartKeeps ==
    ASSUME StreamInv, NEW i \in Indexes, NEW id \in CallIds, SendStart(i, id) PROVE StreamInv'
<1> DEFINE old == server
           next == [server EXCEPT !.owner[i] = id, !.started = @ \cup {id},
                                  !.odd = @ \/ server.owner[i] # NoId]
           p == IF turn.kind = "chat" /\ adapter.slots[i] # Unset
                THEN <<>> ELSE ToolEvents("tool_use_start", id)
<1>1. /\ Says(next) /\ Translate(p, [adapter.slots EXCEPT ![i] = id], adapter.stop)
  BY DEF SendStart
<1>2. /\ adapter.at = "running" /\ adapter.pending = <<>> /\ UNCHANGED <<turn, msg, stopped, shown>>
      /\ server' = [next EXCEPT !.sent = next.sent + 1]
  BY <1>1, SentFacts
<1>3. /\ DOMAIN server' = DOMAIN Silent /\ server'.owner = [server.owner EXCEPT ![i] = id]
      /\ server'.started = server.started \cup {id} /\ server'.said = server.said
      /\ server'.odd = (server.odd \/ server.owner[i] # NoId)
  BY <1>2 DEF StreamInv, Silent
<1>4. /\ DOMAIN adapter' = {"at", "pending", "slots", "stop", "over"} /\ adapter'.at = "running"
      /\ adapter'.pending = p /\ adapter'.slots = [adapter.slots EXCEPT ![i] = id]
      /\ adapter'.stop \in {"end_turn", "tool_use"}
  BY <1>1, <1>2, TranslateFacts DEF StreamInv
<1>5. p \in Seq(WireEvents)
  BY NoEvent, ToolEventFacts
<1>6. SlotsSound(adapter', server')
  <2>1. /\ DOMAIN server.owner = Indexes /\ DOMAIN adapter.slots = Indexes /\ DOMAIN server.said = CallIds
        /\ \A j \in Indexes : server.owner[j] \in CallIds \cup {NoId}
    BY DEF StreamInv, SlotsSound
  <2>2. /\ server'.owner[i] = id /\ adapter'.slots[i] = id /\ id # NoId
        /\ \A j \in Indexes : j # i => server'.owner[j] = server.owner[j] /\ adapter'.slots[j] = adapter.slots[j]
    BY <2>1, <1>3, <1>4, StreamConstants
  <2>3. ASSUME NEW j \in Indexes, j # i
        PROVE  /\ IF server'.owner[j] = NoId THEN adapter'.slots[j] \in {NoId, Unset} ELSE adapter'.slots[j] = server'.owner[j]
               /\ adapter'.slots[j] = NoId => server'.odd
    <3>1. /\ IF server.owner[j] = NoId THEN adapter.slots[j] \in {NoId, Unset} ELSE adapter.slots[j] = server.owner[j]
          /\ adapter.slots[j] = NoId => server.odd
      BY DEF StreamInv, SlotsSound
    <3> QED BY <2>2, <2>3, <3>1, <1>3
  <2>4. DOMAIN server'.owner = Indexes /\ DOMAIN adapter'.slots = Indexes /\ DOMAIN server'.said = CallIds
    BY <2>1, <1>3, <1>4
  <2>5. \A j \in Indexes : server'.owner[j] \in CallIds \cup {NoId}
    BY <2>1, <2>2
  <2> QED BY <2>2, <2>3, <2>4, <2>5 DEF SlotsSound
<1>7. ASSUME Accounted(msg, server, <<>>) PROVE Accounted(msg, server', p)
  <2>1. (~server.odd => server.started = msg.started) /\ \A d \in CallIds : server.said[d] = Held(msg, d)
    BY <1>7, WaitingNothing
  <2>2. CASE p = <<>> /\ server'.odd
    BY <2>1, <2>2, <1>3, WaitingNothing
  <2>3. CASE p = ToolEvents("tool_use_start", id)
    BY <2>1, <2>3, <1>3 DEF Accounted
  <2>4. adapter.slots[i] # Unset => server'.odd
    BY <1>3, SlotFacts
  <2> QED BY <2>2, <2>3, <2>4
<1> HIDE DEF next, p
<1> QED BY <1>2, <1>3, <1>4, <1>5, <1>6, <1>7, SentIsAccounted

LEMMA SendDeltaKeeps ==
    ASSUME StreamInv, NEW i \in Indexes, SendDelta(i) PROVE StreamInv'
<1> DEFINE id == server.owner[i]
           next == IF id = NoId THEN [server EXCEPT !.odd = TRUE] ELSE [server EXCEPT !.said[id] = @ + 1]
           slots == IF turn.kind = "chat" THEN [adapter.slots EXCEPT ![i] = IdAt(i)] ELSE adapter.slots
           p == IF turn.kind = "chat" /\ IdAt(i) = NoId THEN <<>>
                ELSE ToolEvents("tool_use_input_delta", IdAt(i))
<1>1. Says(next) /\ Translate(p, slots, adapter.stop)
  BY DEF SendDelta
<1>2. /\ adapter.at = "running" /\ adapter.pending = <<>> /\ UNCHANGED <<turn, msg, stopped, shown>>
      /\ server' = [next EXCEPT !.sent = next.sent + 1]
  BY <1>1, SentFacts
<1>3. /\ DOMAIN server' = DOMAIN Silent /\ server'.owner = server.owner
      /\ server'.started = server.started
      /\ DOMAIN server.said = CallIds /\ DOMAIN server'.said = CallIds
      /\ \A d \in CallIds : server'.said[d] = IF d = id THEN server.said[d] + 1 ELSE server.said[d]
      /\ server'.odd = IF id = NoId THEN TRUE ELSE server.odd
  BY <1>2, StreamConstants DEF StreamInv, Silent, SlotsSound
<1>4. /\ DOMAIN adapter' = {"at", "pending", "slots", "stop", "over"} /\ adapter'.at = "running"
      /\ adapter'.pending = p /\ adapter'.slots = slots
      /\ adapter'.stop \in {"end_turn", "tool_use"}
  BY <1>1, <1>2, TranslateFacts DEF StreamInv
<1>a. id \in CallIds \cup {NoId} /\ IdAt(i) = id
  BY SlotFacts
<1>5. p \in Seq(WireEvents)
  BY <1>a, NoEvent, ToolEventFacts
<1>6. SlotsSound(adapter', server')
  BY <1>3, <1>4, <1>a, StreamConstants DEF StreamInv, SlotsSound
<1>7. ASSUME Accounted(msg, server, <<>>) PROVE Accounted(msg, server', p)
  <2>1. (~server.odd => server.started = msg.started) /\ \A d \in CallIds : server.said[d] = Held(msg, d)
    BY <1>7, WaitingNothing
  <2>2. CASE p = <<>> /\ id = NoId
    <3>1. \A d \in CallIds : d # id
      BY <2>2, StreamConstants
    <3>2. server'.odd = TRUE /\ \A d \in CallIds : server'.said[d] = server.said[d]
      BY <2>2, <3>1, <1>3
    <3>3. Accounted(msg, server', <<>>)
      BY <2>1, <3>2, WaitingNothing
    <3> QED BY <2>2, <3>3
  <2>3. CASE p = ToolEvents("tool_use_input_delta", id)
    <3>1. ~server'.odd => server'.started = msg.started
      BY <2>1, <1>3
    <3>2. \A d \in CallIds : server'.said[d] = IF d = id THEN Held(msg, d) + 1 ELSE Held(msg, d)
      <4> SUFFICES ASSUME NEW d \in CallIds
                   PROVE  server'.said[d] = IF d = id THEN Held(msg, d) + 1 ELSE Held(msg, d)
        OBVIOUS
      <4>1. server.said[d] = Held(msg, d)
        BY <2>1
      <4> QED BY <4>1, <1>3
    <3> QED BY <3>1, <3>2, <2>3, <1>a DEF Accounted
  <2> QED BY <2>2, <2>3, <1>a
<1> HIDE DEF next, p, slots
<1> QED BY <1>2, <1>3, <1>4, <1>5, <1>6, <1>7, SentIsAccounted

\* What the server says of neither a call nor its arguments.
LEMMA SaysLittle ==
    ASSUME StreamInv, NEW s \in {server, [server EXCEPT !.finished = TRUE]}, Says(s),
           NEW p \in Seq(WireEvents), Loose(p), NEW stop \in {"end_turn", "tool_use"},
           Translate(p, adapter.slots, stop)
    PROVE  StreamInv'
<1>1. /\ adapter.at = "running" /\ adapter.pending = <<>> /\ UNCHANGED <<turn, msg, stopped, shown>>
      /\ server' = [s EXCEPT !.sent = s.sent + 1]
  BY SentFacts
<1>2. /\ DOMAIN server' = DOMAIN Silent /\ server'.owner = server.owner
      /\ server'.started = server.started /\ server'.said = server.said /\ server'.odd = server.odd
  BY <1>1 DEF StreamInv, Silent
<1>3. /\ DOMAIN adapter' = {"at", "pending", "slots", "stop", "over"} /\ adapter'.at = "running"
      /\ adapter'.pending = p /\ adapter'.slots = adapter.slots /\ adapter'.stop = stop
  BY <1>1, TranslateFacts
<1>4. SlotsSound(adapter', server')
  BY <1>2, <1>3 DEF StreamInv, SlotsSound
<1>5. ASSUME Accounted(msg, server, <<>>) PROVE Accounted(msg, server', p)
  <2>1. Accounted(msg, server', <<>>)
    BY <1>2, <1>5, WaitingNothing
  <2> QED BY <2>1, WaitingLoose
<1> QED BY <1>1, <1>2, <1>3, <1>4, <1>5, SentIsAccounted

LEMMA SendStopKeeps ==
    ASSUME StreamInv, NEW i \in Indexes, SendStop(i) PROVE StreamInv'
<1> DEFINE p == IF turn.kind = "anthropic" /\ IdAt(i) = NoId THEN <<>> ELSE ToolEvents("tool_use_end", IdAt(i))
<1>1. Says(server) /\ Translate(p, adapter.slots, adapter.stop)
  BY DEF SendStop
<1>2. p \in Seq(WireEvents) /\ Loose(p)
  BY SlotFacts, NoEvent, ToolEventFacts
<1>3. adapter.stop \in {"end_turn", "tool_use"}
  BY DEF StreamInv
<1> HIDE DEF p
<1> QED BY <1>1, <1>2, <1>3, SaysLittle

LEMMA SendTextKeeps ==
    ASSUME StreamInv, SendText \/ SendOpen PROVE StreamInv'
<1>1. adapter.stop \in {"end_turn", "tool_use"}
  BY DEF StreamInv
<1>2. \A e \in {[type |-> "text_delta"], [type |-> "message_start"]} :
         <<e>> \in Seq(WireEvents) /\ Loose(<<e>>)
  BY EventFacts, OneEvent
<1>3. CASE SendText
  BY <1>1, <1>2, <1>3, SaysLittle DEF SendText
<1>4. CASE SendOpen
  BY <1>1, <1>2, <1>4, SaysLittle DEF SendOpen
<1> QED BY <1>3, <1>4

\* The calls the chat adapter ends are those it has an id for.
LEMMA ChatEndsFacts ==
    ASSUME StreamInv
    PROVE  ChatEnds(adapter.slots) \in Seq(WireEvents) /\ Loose(ChatEnds(adapter.slots))
<1> DEFINE seen == Cardinality({i \in Indexes : adapter.slots[i] # Unset})
           EndAt(i) == IF i < seen /\ adapter.slots[i] \notin {NoId, Unset}
                       THEN ToolEvents("tool_use_end", adapter.slots[i]) ELSE <<>>
           S == {e \in WireEvents : Plain(e)}
<1>1. ChatEnds(adapter.slots) = EndAt(0) \o EndAt(1)
  BY DEF ChatEnds
<1>2. ASSUME NEW i \in Indexes PROVE EndAt(i) \in Seq(S)
  <2>1. CASE adapter.slots[i] \in CallIds
    <3>1. [type |-> "tool_use_end", id |-> adapter.slots[i]] \in S
      BY <2>1, EventFacts
    <3>2. \A e \in S : <<e>> \in Seq(S)
      OBVIOUS
    <3>3. ToolEvents("tool_use_end", adapter.slots[i]) \in Seq(S)
      BY <3>1, <3>2 DEF ToolEvents
    <3> QED BY <3>3
  <2>2. CASE adapter.slots[i] \in {NoId, Unset}
    BY <2>2
  <2> QED BY <2>1, <2>2, SlotFacts
<1> HIDE DEF EndAt
<1>3. EndAt(0) \in Seq(S) /\ EndAt(1) \in Seq(S)
  BY <1>2 DEF Indexes
<1>4. ChatEnds(adapter.slots) \in Seq(S)
  BY <1>1, <1>3
<1> QED BY <1>4 DEF Loose

LEMMA SendFinishKeeps ==
    ASSUME StreamInv, NEW reason \in {"end_turn", "tool_use"}, SendFinish(reason) PROVE StreamInv'
<1> DEFINE p == CASE turn.kind = "chat" -> ChatEnds(adapter.slots)
                  [] turn.kind = "custom" -> <<[type |-> "message_end", stop |-> reason]>>
                  [] OTHER -> <<>>
<1>1. Says([server EXCEPT !.finished = TRUE]) /\ Translate(p, adapter.slots, reason)
  BY DEF SendFinish
<1>2. p \in Seq(WireEvents) /\ Loose(p)
  <2>1. CASE turn.kind = "chat"
    BY <2>1, ChatEndsFacts
  <2>2. CASE turn.kind = "custom"
    BY <2>2, EventFacts, OneEvent
  <2>3. CASE turn.kind \notin {"chat", "custom"}
    BY <2>3, NoEvent
  <2> QED BY <2>1, <2>2, <2>3
<1> HIDE DEF p
<1> QED BY <1>1, <1>2, SaysLittle

LEMMA BodyEnds ==
    ASSUME StreamInv, CloseBody \/ FailBody PROVE StreamInv'
<1>1. /\ adapter.at = "running" /\ adapter.pending = <<>>
      /\ UNCHANGED <<turn, server, msg, stopped, shown>>
  BY DEF CloseBody, FailBody
<1>2. \E p \in Seq(WireEvents) : Loose(p) /\ adapter' = [adapter EXCEPT !.over = TRUE, !.pending = p]
  <2>1. adapter.stop \in {"end_turn", "tool_use"}
    BY DEF StreamInv
  <2>2. CASE CloseBody
    BY <2>1, <2>2, EventFacts, OneEvent, NoEvent DEF CloseBody
  <2>3. CASE FailBody
    BY <2>3, EventFacts, OneEvent DEF FailBody
  <2> QED BY <2>2, <2>3
<1>3. PICK p \in Seq(WireEvents) : Loose(p) /\ adapter' = [adapter EXCEPT !.over = TRUE, !.pending = p]
  BY <1>2
<1>4. /\ DOMAIN adapter' = {"at", "pending", "slots", "stop", "over"} /\ adapter'.at = "running"
      /\ adapter'.pending = p /\ adapter'.slots = adapter.slots
      /\ adapter'.stop \in {"end_turn", "tool_use"}
  BY <1>1, <1>3 DEF StreamInv
<1>5. SlotsSound(adapter', server') /\ DOMAIN server' = DOMAIN Silent
  BY <1>1, <1>4 DEF StreamInv, SlotsSound
<1>6. Accounted(msg, server, <<>>) => Accounted(msg, server', p)
  BY <1>1, <1>3, WaitingLoose
<1> QED BY <1>1, <1>3, <1>4, <1>5, <1>6, SentIsAccounted

\* The turn has ended, or its context has: nothing is accounted for any more.
LEMMA AdapterStopsKeeps == ASSUME StreamInv, AdapterStops PROVE StreamInv'
<1>1. /\ DOMAIN adapter' = {"at", "pending", "slots", "stop", "over"} /\ adapter'.at = "stopped"
      /\ adapter'.pending = <<>> /\ adapter'.slots = adapter.slots /\ adapter'.stop = adapter.stop
      /\ UNCHANGED <<turn, server, msg, stopped, shown>>
      /\ stopped \/ adapter.pending = <<>>
  BY DEF StreamInv, AdapterStops
<1>2. SlotsSound(adapter', server')
  BY <1>1 DEF StreamInv, SlotsSound
<1>3. CallsAreWhole'
  BY <1>1 DEF StreamInv, CallsAreWhole
<1>4. ShownSound'
  BY <1>1 DEF StreamInv, ShownSound
<1>5. (turn.production /\ turn.at = "streaming" /\ ~stopped =>
          MessageSound(msg) /\ Accounted(msg, server, adapter.pending))'
  BY <1>1 DEF StreamInv
<1> QED BY <1>1, <1>2, <1>3, <1>4, <1>5, NoEvent DEF StreamInv

LEMMA StopRunKeeps == ASSUME StreamInv, StopRun PROVE StreamInv'
<1>1. stopped' = TRUE /\ UNCHANGED <<turn, server, adapter, msg, shown>>
  BY DEF StopRun
<1>2. CallsAreWhole' /\ ShownSound' /\ SlotsSound(adapter', server')
  BY <1>1 DEF StreamInv, CallsAreWhole, ShownSound
<1> QED BY <1>1, <1>2 DEF StreamInv

\* The turn ends without a message, or waits for the next attempt.
LEMMA TurnStops ==
    ASSUME StreamInv, turn.at \in {"streaming", "waiting"}, UNCHANGED <<server, msg, stopped, shown>>,
           DOMAIN turn' = DOMAIN turn, turn'.production = turn.production, turn'.attempt = turn.attempt,
           turn'.at \in {"done", "waiting"}, turn'.outcome # "message",
           turn'.at = "waiting" => shown = {},
           DOMAIN adapter' = DOMAIN adapter, adapter'.at = adapter.at, adapter'.slots = adapter.slots,
           adapter'.stop = adapter.stop, adapter'.pending \in Seq(WireEvents),
           adapter.pending = <<>> => adapter'.pending = <<>>
    PROVE  StreamInv'
<1>1. CallsAreWhole'
  BY DEF CallsAreWhole
<1>2. ShownSound'
  BY DEF StreamInv, ShownSound
<1>3. SlotsSound(adapter', server')
  BY DEF StreamInv, SlotsSound
<1> QED BY <1>1, <1>2, <1>3 DEF StreamInv

LEMMA RefuseKeeps == ASSUME StreamInv, Refuse PROVE StreamInv'
<1>1. /\ turn.at = "streaming" /\ turn'.at = "done" /\ turn'.outcome = "error" /\ DOMAIN turn' = DOMAIN turn
      /\ turn'.production = turn.production /\ turn'.attempt = turn.attempt
      /\ DOMAIN adapter' = DOMAIN adapter /\ adapter'.at = adapter.at /\ adapter'.slots = adapter.slots
      /\ adapter'.stop = adapter.stop /\ adapter'.pending = Tail(adapter.pending)
      /\ adapter.pending # <<>> /\ UNCHANGED <<server, msg, stopped, shown>>
  BY DEF StreamInv, Refuse, Ends
<1>2. adapter'.pending \in Seq(WireEvents)
  BY <1>1 DEF StreamInv
<1> QED BY <1>1, <1>2, TurnStops

LEMMA AttemptFailsKeeps == ASSUME StreamInv, AttemptFails PROVE StreamInv'
<1>1. /\ turn.at = "streaming" /\ DOMAIN turn' = DOMAIN turn
      /\ turn'.production = turn.production /\ turn'.attempt = turn.attempt
      /\ DOMAIN adapter' = DOMAIN adapter /\ adapter'.at = adapter.at /\ adapter'.slots = adapter.slots
      /\ adapter'.stop = adapter.stop /\ adapter'.pending = <<>>
      /\ UNCHANGED <<server, msg, stopped, shown>>
  BY DEF StreamInv, AttemptFails, Ends
<1>2. \/ turn'.at = "waiting" /\ turn'.outcome = turn.outcome /\ ~msg.committed
      \/ turn'.at = "done" /\ turn'.outcome = "error"
  BY DEF StreamInv, AttemptFails, Ends, MayRetry
<1>3. turn.outcome # "message"
  BY <1>1 DEF StreamInv
<1>4. turn'.at = "waiting" => shown = {}
  BY <1>1, <1>2 DEF StreamInv, ShownSound
<1> QED BY <1>1, <1>2, <1>3, <1>4, NoEvent, TurnStops

LEMMA AbortedKeeps == ASSUME StreamInv, Aborted PROVE StreamInv'
<1>1. /\ turn.at \in {"streaming", "waiting"} /\ turn'.at = "done" /\ turn'.outcome = "abort"
      /\ DOMAIN turn' = DOMAIN turn
      /\ turn'.production = turn.production /\ turn'.attempt = turn.attempt
      /\ UNCHANGED <<server, adapter, msg, stopped, shown>>
  BY DEF StreamInv, Aborted, Ends
<1>2. adapter.pending \in Seq(WireEvents)
  BY DEF StreamInv
<1> QED BY <1>1, <1>2, TurnStops

\* A message that is accepted in production is complete.
LEMMA StreamEndsKeeps == ASSUME StreamInv, StreamEnds PROVE StreamInv'
<1>1. /\ turn.at = "streaming" /\ adapter.at = "stopped" /\ ~stopped /\ adapter.pending = <<>>
      /\ turn'.at = "done" /\ DOMAIN turn' = DOMAIN turn /\ turn'.production = turn.production
      /\ turn'.attempt = turn.attempt /\ UNCHANGED <<server, adapter, msg, stopped, shown>>
  BY DEF StreamInv, StreamEnds, Ends
<1>2. turn.production /\ turn'.outcome = "message" => msg.started = msg.ended
  BY DEF StreamInv, StreamEnds, Ends
<1>3. CallsAreWhole'
  <2>a. SUFFICES ASSUME turn.production, turn'.outcome = "message" PROVE CallsAreWhole'
    BY <1>1 DEF CallsAreWhole
  <2>1. MessageSound(msg) /\ Accounted(msg, server, <<>>)
    BY <1>1, <2>a DEF StreamInv
  <2>2. (~server.odd => server.started = msg.started) /\ \A d \in CallIds : server.said[d] = Held(msg, d)
    BY <2>1, WaitingNothing
  <2>3. {msg.content[k].id : k \in DOMAIN msg.content} = msg.started
    BY <1>2, <2>a, <2>1 DEF MessageSound
  <2>4. \A k, l \in DOMAIN msg.content : msg.content[k].id = msg.content[l].id => k = l
    BY <2>1 DEF MessageSound
  <2>5. ASSUME NEW k \in DOMAIN msg.content PROVE msg.content[k].input = server.said[msg.content[k].id]
    <3>1. msg.content[k].id \in msg.started /\ msg.started \subseteq CallIds
      BY <2>1, <2>3 DEF MessageSound
    <3>2. msg.content[k].input = msg.input[msg.content[k].id]
      BY <2>1 DEF MessageSound
    <3> QED BY <3>1, <3>2, <2>2 DEF Held
  <2> QED BY <1>1, <2>2, <2>3, <2>4, <2>5 DEF CallsAreWhole
<1>4. ShownSound' /\ SlotsSound(adapter', server')
  BY <1>1 DEF StreamInv, ShownSound
<1> QED BY <1>1, <1>3, <1>4 DEF StreamInv

\* Nothing is held of an attempt that begins.
LEMMA FreshAttempt ==
    ASSUME NEW kind, NEW s \in {Silent, [Silent EXCEPT !.sent = server.sent]}
    PROVE  LET a == FreshStream(kind) IN
           /\ DOMAIN s = DOMAIN Silent /\ DOMAIN a = {"at", "pending", "slots", "stop", "over"}
               /\ a.at = "running" /\ a.pending \in Seq(WireEvents) /\ a.stop \in {"end_turn", "tool_use"}
               /\ SlotsSound(a, s) /\ MessageSound(Empty) /\ Accounted(Empty, s, a.pending)
<1> DEFINE a == FreshStream(kind)
<1>1. /\ DOMAIN s = DOMAIN Silent /\ DOMAIN a = {"at", "pending", "slots", "stop", "over"}
      /\ a.at = "running" /\ a.stop \in {"end_turn", "tool_use"}
      /\ s.owner = [i \in Indexes |-> NoId] /\ s.said = [id \in CallIds |-> 0] /\ s.started = {}
      /\ s.odd = FALSE /\ a.slots = [i \in Indexes |-> Unset]
  BY DEF FreshStream, Silent
<1>2. a.pending \in Seq(WireEvents) /\ Loose(a.pending)
  <2>1. a.pending = IF kind = "custom" THEN <<>> ELSE <<[type |-> "message_start"]>>
    BY DEF FreshStream
  <2> QED BY <2>1, NoEvent, EventFacts, OneEvent
<1>3. SlotsSound(a, s)
  BY <1>1, StreamConstants DEF SlotsSound
<1>4. /\ Empty.started = {} /\ Empty.ended = {} /\ Empty.content = <<>>
      /\ Empty.input = [id \in CallIds \cup {NoId} |-> 0]
  BY DEF Empty
<1>5. MessageSound(Empty)
  BY <1>4 DEF MessageSound
<1> HIDE DEF a
<1>6. Accounted(Empty, s, <<>>)
  BY <1>1, <1>4, WaitingNothing DEF Held
<1>7. Accounted(Empty, s, a.pending)
  BY <1>2, <1>6, WaitingLoose
<1> QED BY <1>1, <1>2, <1>3, <1>5, <1>7 DEF a

LEMMA NextAttemptKeeps == ASSUME StreamInv, NextAttempt PROVE StreamInv'
<1>1. /\ turn.at = "waiting" /\ turn'.at = "streaming" /\ DOMAIN turn' = DOMAIN turn
      /\ turn'.production = turn.production /\ turn'.outcome = turn.outcome /\ turn.outcome # "message"
      /\ adapter' = FreshStream(turn.kind) /\ server' = [Silent EXCEPT !.sent = server.sent]
      /\ msg' = Empty /\ UNCHANGED <<stopped, shown>>
  BY DEF StreamInv, NextAttempt
<1>2. /\ DOMAIN server' = DOMAIN Silent /\ DOMAIN adapter' = {"at", "pending", "slots", "stop", "over"}
      /\ adapter'.at = "running" /\ adapter'.pending \in Seq(WireEvents)
      /\ adapter'.stop \in {"end_turn", "tool_use"} /\ SlotsSound(adapter', server')
      /\ MessageSound(msg') /\ Accounted(msg', server', adapter'.pending)
  BY <1>1, FreshAttempt
<1>3. shown = {}
  BY <1>1 DEF StreamInv, ShownSound
<1>4. CallsAreWhole'
  BY <1>1 DEF CallsAreWhole
<1>5. ShownSound'
  BY <1>1, <1>3 DEF ShownSound
<1> QED BY <1>1, <1>2, <1>4, <1>5 DEF StreamInv

LEMMA StreamInitSound == StreamInit => StreamInv
<1> SUFFICES ASSUME NEW kind \in Adapters, NEW production \in BOOLEAN, StreamStarts(kind, production)
             PROVE  StreamInv
  BY DEF StreamInit
<1>1. /\ turn = [kind |-> kind, production |-> production, attempt |-> 1, at |-> "streaming", outcome |-> "none"]
      /\ server = Silent /\ adapter = FreshStream(kind) /\ msg = Empty /\ stopped = FALSE /\ shown = {}
  BY DEF StreamStarts
<1>3. /\ DOMAIN server = DOMAIN Silent /\ DOMAIN adapter = {"at", "pending", "slots", "stop", "over"}
      /\ adapter.at = "running" /\ adapter.pending \in Seq(WireEvents)
      /\ adapter.stop \in {"end_turn", "tool_use"} /\ SlotsSound(adapter, server)
      /\ MessageSound(msg) /\ Accounted(msg, server, adapter.pending)
  BY <1>1, FreshAttempt
<1>4. CallsAreWhole /\ ShownSound
  BY <1>1 DEF CallsAreWhole, ShownSound
<1> QED BY <1>1, <1>3, <1>4 DEF StreamInv

-----------------------------------------------------------------------------
\* What the session assembles

\* The fields of the message an event makes of another.
LEMMA AssembledFields ==
    ASSUME NEW m, DOMAIN m = DOMAIN Empty, NEW e \in WireEvents, e.type # "error"
    PROVE  LET n == Assembled(m, e) IN
           /\ DOMAIN n = DOMAIN Empty
           /\ n.committed = (m.committed \/ e.type \notin {"message_start", "message_end", "tool_use_end"})
           /\ n.started = IF e.type = "tool_use_start" THEN m.started \cup {e.id} ELSE m.started
           /\ n.ended = IF e.type = "tool_use_end" THEN m.ended \cup {e.id} ELSE m.ended
           /\ n.content = IF e.type = "tool_use_end"
                          THEN Append(m.content, [id |-> e.id, input |-> m.input[e.id]]) ELSE m.content
           /\ n.input = IF e.type = "tool_use_start" THEN [m.input EXCEPT ![e.id] = 0]
                        ELSE IF e.type = "tool_use_input_delta" THEN [m.input EXCEPT ![e.id] = m.input[e.id] + 1]
                        ELSE m.input
<1>1. e.type \in {"message_start", "text_delta", "tool_use_start", "tool_use_input_delta", "tool_use_end", "message_end"}
  BY DEF WireEvents
<1>2. CASE e.type = "message_start"
  BY <1>2 DEF Assembled, Empty
<1>3. CASE e.type = "text_delta"
  BY <1>3 DEF Assembled, Empty
<1>4. CASE e.type = "tool_use_start"
  BY <1>4 DEF Assembled, Empty
<1>5. CASE e.type = "tool_use_input_delta"
  BY <1>5 DEF Assembled, Empty
<1>6. CASE e.type = "tool_use_end"
  BY <1>6 DEF Assembled, Empty
<1>7. CASE e.type = "message_end"
  BY <1>7 DEF Assembled, Empty
<1> QED BY <1>1, <1>2, <1>3, <1>4, <1>5, <1>6, <1>7

\* An event in order keeps a message sound, and adds to it what it carries.
LEMMA AssembledSound ==
    ASSUME NEW m, DOMAIN m = DOMAIN Empty, NEW e \in WireEvents, e.type # "error"
    PROVE  MessageSound(m) /\ ~BreaksProtocol(m, e) =>
              LET n == Assembled(m, e) IN
              /\ MessageSound(n)
              /\ n.started = IF e.type = "tool_use_start" THEN m.started \cup {e.id} ELSE m.started
              /\ e.type # "tool_use_input_delta" => \A d \in CallIds : Held(n, d) = Held(m, d)
              /\ e.type = "tool_use_input_delta" =>
                    \A d \in CallIds : Held(n, d) = IF d = e.id THEN Held(m, d) + 1 ELSE Held(m, d)
<1> DEFINE n == Assembled(m, e)
<1>1. /\ n.started = IF e.type = "tool_use_start" THEN m.started \cup {e.id} ELSE m.started
      /\ n.ended = IF e.type = "tool_use_end" THEN m.ended \cup {e.id} ELSE m.ended
      /\ n.content = IF e.type = "tool_use_end"
                     THEN Append(m.content, [id |-> e.id, input |-> m.input[e.id]]) ELSE m.content
      /\ n.input = IF e.type = "tool_use_start" THEN [m.input EXCEPT ![e.id] = 0]
                   ELSE IF e.type = "tool_use_input_delta" THEN [m.input EXCEPT ![e.id] = m.input[e.id] + 1]
                   ELSE m.input
  BY AssembledFields
<1> HIDE DEF n
<1>2. CASE ~(MessageSound(m) /\ ~BreaksProtocol(m, e))
  BY <1>2 DEF n
<1>a. CASE MessageSound(m) /\ ~BreaksProtocol(m, e)
  <2>1. /\ m.started \subseteq CallIds /\ m.ended \subseteq m.started
        /\ DOMAIN m.input = CallIds \cup {NoId} /\ \A d \in CallIds : m.input[d] \in Nat
        /\ m.content \in Seq([id : CallIds, input : Nat])
        /\ {m.content[k].id : k \in DOMAIN m.content} = m.ended
        /\ \A k, l \in DOMAIN m.content : m.content[k].id = m.content[l].id => k = l
        /\ \A k \in DOMAIN m.content : m.content[k].input = m.input[m.content[k].id]
    BY <1>a DEF MessageSound
  <2>2. CASE e.type = "tool_use_start"
    <3>1. e.id \in CallIds /\ e.id \notin m.started
      BY <1>a, <2>2 DEF BreaksProtocol, WireEvents
    <3>2. /\ n.started = m.started \cup {e.id} /\ n.ended = m.ended /\ n.content = m.content
          /\ DOMAIN n.input = DOMAIN m.input /\ n.input[e.id] = 0
          /\ \A d \in CallIds : d # e.id => n.input[d] = m.input[d]
      BY <1>1, <2>1, <2>2, <3>1
    <3>3. \A k \in DOMAIN m.content : m.content[k].id # e.id /\ m.content[k].id \in CallIds
      BY <2>1, <3>1
    <3>4. \A k \in DOMAIN n.content : n.content[k].input = n.input[n.content[k].id]
      <4> SUFFICES ASSUME NEW k \in DOMAIN m.content PROVE m.content[k].input = n.input[m.content[k].id]
        BY <3>2
      <4>1. n.input[m.content[k].id] = m.input[m.content[k].id]
        BY <3>2, <3>3
      <4> QED BY <2>1, <4>1
    <3>5. MessageSound(n)
      <4>1. n.started \subseteq CallIds /\ n.ended \subseteq n.started /\ DOMAIN n.input = CallIds \cup {NoId}
        BY <2>1, <3>1, <3>2
      <4>2. \A d \in CallIds : n.input[d] \in Nat
        BY <2>1, <3>1, <3>2
      <4> QED BY <2>1, <3>2, <3>4, <4>1, <4>2 DEF MessageSound
    <3>6. \A d \in CallIds : Held(n, d) = Held(m, d)
      BY <3>1, <3>2 DEF Held
    <3> QED BY <2>2, <3>2, <3>5, <3>6 DEF n
  <2>3. CASE e.type = "tool_use_input_delta"
    <3>1. e.id \in m.started /\ e.id \notin m.ended /\ e.id \in CallIds
      BY <1>a, <2>1, <2>3 DEF BreaksProtocol
    <3>2. /\ n.started = m.started /\ n.ended = m.ended /\ n.content = m.content
          /\ DOMAIN n.input = DOMAIN m.input /\ n.input[e.id] = m.input[e.id] + 1
          /\ \A d \in CallIds : d # e.id => n.input[d] = m.input[d]
      BY <1>1, <2>1, <2>3, <3>1
    <3>3. \A k \in DOMAIN m.content : m.content[k].id # e.id /\ m.content[k].id \in CallIds
      BY <2>1, <3>1
    <3>4. \A k \in DOMAIN n.content : n.content[k].input = n.input[n.content[k].id]
      <4> SUFFICES ASSUME NEW k \in DOMAIN m.content PROVE m.content[k].input = n.input[m.content[k].id]
        BY <3>2
      <4>1. n.input[m.content[k].id] = m.input[m.content[k].id]
        BY <3>2, <3>3
      <4> QED BY <2>1, <4>1
    <3>5. MessageSound(n)
      <4>1. \A d \in CallIds : n.input[d] \in Nat
        BY <2>1, <3>1, <3>2
      <4> QED BY <2>1, <3>2, <3>4, <4>1 DEF MessageSound
    <3>6. \A d \in CallIds : Held(n, d) = IF d = e.id THEN Held(m, d) + 1 ELSE Held(m, d)
      BY <3>1, <3>2 DEF Held
    <3> QED BY <2>3, <3>2, <3>5, <3>6 DEF n
  <2>4. CASE e.type = "tool_use_end"
    <3> DEFINE x == [id |-> e.id, input |-> m.input[e.id]]
               S == [id : CallIds, input : Nat]
               q == m.content
               len == Len(q)
               longer == Append(q, x)
    <3>1. e.id \in m.started /\ e.id \notin m.ended /\ e.id \in CallIds
      BY <1>a, <2>1, <2>4 DEF BreaksProtocol
    <3>2. x \in S /\ q \in Seq(S) /\ x.id = e.id /\ x.input = m.input[e.id]
      BY <2>1, <3>1
    <3>3. /\ n.started = m.started /\ n.ended = m.ended \cup {e.id} /\ n.content = longer /\ n.input = m.input
      BY <1>1, <2>4
    <3> HIDE DEF x, S
    <3>4. /\ len \in Nat /\ DOMAIN q = 1 .. len
          /\ longer \in Seq(S) /\ DOMAIN longer = 1 .. len + 1 /\ longer[len + 1] = x
          /\ \A k \in 1 .. len : longer[k] = q[k]
      BY <3>2, LongerSequence
    <3> HIDE DEF longer, len
    <3>5. \A k \in 1 .. len : q[k].id \in m.ended /\ q[k].input = m.input[q[k].id]
      BY <2>1, <3>4
    <3>6. {longer[k].id : k \in 1 .. len + 1} = m.ended \cup {e.id}
      <4>1. {q[k].id : k \in 1 .. len} = m.ended
        BY <2>1, <3>4
      <4>2. \A k \in 1 .. len + 1 : k \in 1 .. len \/ k = len + 1
        BY <3>4
      <4>3. len + 1 \in 1 .. len + 1 /\ 1 .. len \subseteq 1 .. len + 1
        BY <3>4
      <4> QED BY <4>1, <4>2, <4>3, <3>2, <3>4
    <3>7. ASSUME NEW k \in 1 .. len + 1, NEW l \in 1 .. len + 1, longer[k].id = longer[l].id PROVE k = l
      <4>1. \A j \in 1 .. len + 1 : j \in 1 .. len \/ j = len + 1
        BY <3>4
      <4>2. \A j \in 1 .. len : longer[j].id # e.id
        BY <3>1, <3>4, <3>5
      <4>3. longer[len + 1].id = e.id
        BY <3>2, <3>4
      <4>4. CASE k \in 1 .. len /\ l \in 1 .. len
        <5>1. q[k].id = q[l].id
          BY <3>4, <3>7, <4>4
        <5> QED BY <2>1, <3>4, <4>4, <5>1
      <4> QED BY <3>7, <4>1, <4>2, <4>3, <4>4
    <3>8. \A k \in 1 .. len + 1 : longer[k].input = m.input[longer[k].id]
      <4>1. \A j \in 1 .. len + 1 : j \in 1 .. len \/ j = len + 1
        BY <3>4
      <4> QED BY <3>2, <3>4, <3>5, <4>1
    <3>9. MessageSound(n)
      <4>1. n.content \in Seq([id : CallIds, input : Nat])
        BY <3>3, <3>4 DEF S
      <4>2. DOMAIN n.content = 1 .. len + 1
        BY <3>3, <3>4
      <4>3. n.ended \subseteq n.started
        BY <2>1, <3>1, <3>3
      <4>4. {n.content[k].id : k \in DOMAIN n.content} = n.ended
        BY <3>3, <3>6, <4>2
      <4>5. \A k, l \in DOMAIN n.content : n.content[k].id = n.content[l].id => k = l
        BY <3>3, <3>7, <4>2
      <4>6. \A k \in DOMAIN n.content : n.content[k].input = n.input[n.content[k].id]
        BY <3>3, <3>8, <4>2
      <4>7. DOMAIN n.input = CallIds \cup {NoId} /\ (\A d \in CallIds : n.input[d] \in Nat) /\ n.started \subseteq CallIds
        BY <2>1, <3>3
      <4> QED BY <4>1, <4>3, <4>4, <4>5, <4>6, <4>7 DEF MessageSound
    <3>10. \A d \in CallIds : Held(n, d) = Held(m, d)
      BY <3>3 DEF Held
    <3> QED BY <2>4, <3>3, <3>9, <3>10 DEF n
  <2>5. CASE e.type \notin {"tool_use_start", "tool_use_input_delta", "tool_use_end"}
    <3>1. n.started = m.started /\ n.ended = m.ended /\ n.content = m.content /\ n.input = m.input
      BY <1>1, <2>5
    <3>2. MessageSound(n) /\ \A d \in CallIds : Held(n, d) = Held(m, d)
      BY <2>1, <3>1 DEF MessageSound, Held
    <3> QED BY <2>5, <3>1, <3>2 DEF n
  <2> QED BY <2>2, <2>3, <2>4, <2>5
<1> QED BY <1>2, <1>a

LEMMA TakenInOrder ==
    ASSUME NEW m, DOMAIN m = DOMAIN Empty, NEW s, NEW p \in Seq(WireEvents), p # <<>>, Head(p).type # "error"
    PROVE  MessageSound(m) /\ Accounted(m, s, p) /\ ~BreaksProtocol(m, Head(p)) =>
              MessageSound(Assembled(m, Head(p))) /\ Accounted(Assembled(m, Head(p)), s, Tail(p))
<1>a. SUFFICES ASSUME MessageSound(m), Accounted(m, s, p), ~BreaksProtocol(m, Head(p))
               PROVE  MessageSound(Assembled(m, Head(p))) /\ Accounted(Assembled(m, Head(p)), s, Tail(p))
  OBVIOUS
<1> DEFINE e == Head(p)
           n == Assembled(m, e)
<1>1. e \in WireEvents /\ e.type # "error"
  OBVIOUS
<1>2. /\ MessageSound(n)
      /\ n.started = IF e.type = "tool_use_start" THEN m.started \cup {e.id} ELSE m.started
      /\ e.type # "tool_use_input_delta" => \A d \in CallIds : Held(n, d) = Held(m, d)
      /\ e.type = "tool_use_input_delta" =>
            \A d \in CallIds : Held(n, d) = IF d = e.id THEN Held(m, d) + 1 ELSE Held(m, d)
  BY <1>a, <1>1, AssembledSound
<1> HIDE DEF n
<1>3. CASE /\ Loose(p) /\ (~s.odd => s.started = m.started)
           /\ \A d \in CallIds : s.said[d] = Held(m, d)
  <2>1. Plain(e) /\ Loose(Tail(p))
    BY <1>3 DEF Loose
  <2>2. e.type # "tool_use_start" /\ e.type # "tool_use_input_delta"
    BY <2>1 DEF Plain
  <2>3. Accounted(n, s, <<>>)
    BY <1>2, <1>3, <2>2, WaitingNothing
  <2>4. Accounted(n, s, Tail(p))
    BY <2>1, <2>3, WaitingLoose
  <2> QED BY <1>2, <2>4 DEF n
<1>4. ASSUME NEW id \in CallIds, p = ToolEvents("tool_use_start", id),
             ~s.odd => s.started = m.started \cup {id},
             \A d \in CallIds : s.said[d] = Held(m, d)
      PROVE  Accounted(n, s, Tail(p))
  <2>1. e.type = "tool_use_start" /\ e.id = id /\ Tail(p) = <<>>
    BY <1>4, ToolEventFacts
  <2>2. \A d \in CallIds : s.said[d] = Held(n, d)
    BY <1>2, <1>4, <2>1
  <2>3. ~s.odd => s.started = n.started
    BY <1>2, <1>4, <2>1
  <2> QED BY <2>1, <2>2, <2>3, WaitingNothing
<1>5. ASSUME NEW id \in CallIds \cup {NoId}, p = ToolEvents("tool_use_input_delta", id),
             ~s.odd => s.started = m.started,
             \A d \in CallIds : s.said[d] = IF d = id THEN Held(m, d) + 1 ELSE Held(m, d)
      PROVE  Accounted(n, s, Tail(p))
  <2>1. e.type = "tool_use_input_delta" /\ e.id = id /\ Tail(p) = <<>>
    BY <1>5, ToolEventFacts
  <2>2. \A d \in CallIds : s.said[d] = Held(n, d)
    BY <1>2, <1>5, <2>1
  <2>3. ~s.odd => s.started = n.started
    BY <1>2, <1>5, <2>1
  <2> QED BY <2>1, <2>2, <2>3, WaitingNothing
<1>6. Accounted(n, s, Tail(p))
  BY <1>a, <1>2, <1>3, <1>4, <1>5 DEF Accounted, n
<1> QED BY <1>2, <1>6 DEF n

LEMMA TakeKeeps == ASSUME StreamInv, Take PROVE StreamInv'
<1> DEFINE p == adapter.pending
           e == Head(p)
<1>1. /\ turn.at = "streaming" /\ p # <<>> /\ e.type # "error" /\ ~Refuses(msg, e)
      /\ DOMAIN adapter' = DOMAIN adapter /\ adapter'.pending = Tail(p) /\ adapter'.at = adapter.at
      /\ adapter'.slots = adapter.slots /\ adapter'.stop = adapter.stop
      /\ msg' = Assembled(msg, e) /\ UNCHANGED <<turn, server, stopped>>
      /\ shown' = IF e.type \in {"text_delta", "tool_use_input_delta"} THEN shown \cup {turn.attempt} ELSE shown
  BY DEF StreamInv, Take
<1>2. p \in Seq(WireEvents) /\ Tail(p) \in Seq(WireEvents) /\ e \in WireEvents
  BY <1>1 DEF StreamInv
<1>3. /\ DOMAIN msg' = DOMAIN Empty
      /\ msg'.committed = (msg.committed \/ e.type \notin {"message_start", "message_end", "tool_use_end"})
  <2>1. DOMAIN msg = DOMAIN Empty
    BY DEF StreamInv
  <2>2. LET n == Assembled(msg, e) IN
        /\ DOMAIN n = DOMAIN Empty
        /\ n.committed = (msg.committed \/ e.type \notin {"message_start", "message_end", "tool_use_end"})
    BY <1>1, <1>2, <2>1, AssembledFields
  <2> QED BY <1>1, <2>2
<1>4. (turn.production /\ turn.at = "streaming" /\ ~stopped =>
          MessageSound(msg) /\ Accounted(msg, server, adapter.pending))'
  <2>a. SUFFICES ASSUME turn.production, ~stopped
                 PROVE  MessageSound(msg') /\ Accounted(msg', server, Tail(p))
    BY <1>1
  <2>1. MessageSound(msg) /\ Accounted(msg, server, p)
    BY <1>1, <2>a DEF StreamInv
  <2>2. ~BreaksProtocol(msg, e)
    BY <1>1, <2>a DEF Refuses
  <2>3. DOMAIN msg = DOMAIN Empty
    BY DEF StreamInv
  <2> QED BY <1>1, <1>2, <2>1, <2>2, <2>3, TakenInOrder
<1>5. ShownSound'
  <2>1. shown \subseteq {turn.attempt} /\ (shown # {} => msg.committed)
    BY <1>1 DEF StreamInv, ShownSound
  <2>2. shown' \subseteq {turn.attempt}
    BY <1>1, <2>1
  <2>3. shown' # {} => msg'.committed
    BY <1>1, <1>3, <2>1
  <2> QED BY <1>1, <2>2, <2>3 DEF ShownSound
<1>6. turn.outcome # "message"
  BY <1>1 DEF StreamInv
<1>7. CallsAreWhole'
  BY <1>1, <1>6 DEF CallsAreWhole
<1>8. SlotsSound(adapter', server')
  BY <1>1 DEF StreamInv, SlotsSound
<1>9. adapter.at = "stopped" /\ ~stopped => p = <<>>
  BY DEF StreamInv
<1> QED BY <1>1, <1>2, <1>3, <1>4, <1>5, <1>6, <1>7, <1>8, <1>9 DEF StreamInv

LEMMA StreamStepKeeps == StreamInv /\ [StreamNext]_streamVars => StreamInv'
<1> SUFFICES ASSUME StreamInv, [StreamNext]_streamVars PROVE StreamInv'
  OBVIOUS
<1>1. ASSUME ServerActs PROVE StreamInv'
  <2>1. CASE \E i \in Indexes : (\E id \in CallIds : SendStart(i, id)) \/ SendDelta(i) \/ SendStop(i)
    BY <2>1, SendStartKeeps, SendDeltaKeeps, SendStopKeeps
  <2>2. CASE SendText \/ SendOpen
    BY <2>2, SendTextKeeps
  <2>3. CASE CloseBody \/ FailBody
    BY <2>3, BodyEnds
  <2>4. CASE \E reason \in {"end_turn", "tool_use"} : SendFinish(reason)
    BY <2>4, SendFinishKeeps
  <2> QED BY <1>1, <2>1, <2>2, <2>3, <2>4 DEF ServerActs
<1>2. ASSUME AdapterStops \/ Take \/ Refuse \/ AttemptFails \/ NextAttempt \/ StreamEnds \/ Aborted \/ StopRun
      PROVE  StreamInv'
  BY <1>2, AdapterStopsKeeps, TakeKeeps, RefuseKeeps, AttemptFailsKeeps, NextAttemptKeeps,
     StreamEndsKeeps, AbortedKeeps, StopRunKeeps
<1>3. ASSUME UNCHANGED streamVars PROVE StreamInv'
  <2>1. UNCHANGED <<turn, server, adapter, msg, stopped, shown>>
    BY <1>3 DEF streamVars
  <2> QED BY <2>1 DEF StreamInv, CallsAreWhole, ShownSound
<1> QED BY <1>1, <1>2, <1>3 DEF StreamNext

-----------------------------------------------------------------------------
(* StreamInv is inductive (ProviderStream): what the server has said of      *)
(* each call is what the message holds of it and what the adapter has still  *)
(* to hand over.                                                             *)
THEOREM StreamInvHolds == StreamSpec => []StreamInv
<1>1. StreamInit => StreamInv
  BY StreamInitSound
<1>2. StreamInv /\ [StreamNext]_streamVars => StreamInv'
  BY StreamStepKeeps
<1> QED BY <1>1, <1>2, PTL DEF StreamSpec

(* What the consumer sees and the session stores is what one attempt of the  *)
(* provider said: an accepted message holds every call with all of its       *)
(* arguments, and no retry begins behind partial output (loop.go             *)
(* streamTurnAttempt, streamTurn).                                           *)
THEOREM OneAttemptIsTold == StreamSpec => []StreamFaithful
<1>1. StreamInv => StreamFaithful
  BY DEF StreamInv, ShownSound, StreamFaithful, OneAttemptShown
<1> QED BY <1>1, StreamInvHolds, PTL
====
