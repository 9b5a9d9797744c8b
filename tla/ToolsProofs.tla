----------------------------- MODULE ToolsProofs -----------------------------
(***************************************************************************)
(* Proofs about what stands around a tool call. CronManager: for any       *)
(* number of jobs and minutes and any expressions. Approvals: for any      *)
(* approvals, people and tenants, both stores and any bounds. ToolHost:    *)
(* for any servers and callers, any processes and users, and any bounds.   *)
(* ToolGate: for any sessions, rules and calls, and any answers of a user. *)
(* EvaluationRunner: for any suites, runners and replies.                  *)
(***************************************************************************)
EXTENDS CronManager, Approvals, ToolHost, ToolGate, EvaluationRunner, Induction

-----------------------------------------------------------------------------
\* Scheduled jobs

LoopPcs == {"none", "sleeping", "awake", "firing", "appending", "fired", "ended"}

LoopType ==
    [pc : LoopPcs, next : Minutes \cup {NoMinute}, schedule : SUBSET Minutes,
     cancelled : BOOLEAN, deleted : BOOLEAN, since : Minutes, fires : Nat, late : BOOLEAN]

\* The minutes a job's expression matched after its creation and before m.
MatchedBefore(r, m) == {x \in r.schedule : r.since < x /\ x < m}

\* A job that waits for a minute, or has been woken by it, has not fired for it.
FiresCounted(r, now) ==
    /\ r.since <= now
    /\ r.fires <= Cardinality(MatchedBefore(r, now + 1))
    /\ r.pc \in {"sleeping", "awake", "firing", "appending"} =>
          /\ r.next \in r.schedule
          /\ r.since < r.next
          /\ r.fires <= Cardinality(MatchedBefore(r, r.next))
    /\ r.pc \in {"awake", "firing", "appending"} => r.next <= now

\* A deletion that has returned has cancelled the context.
DeletedIsCancelled(r) == ~r.late /\ (r.deleted => r.cancelled)

CronInv ==
    /\ minute \in Minutes
    /\ created \in Nat
    /\ jobs \subseteq Jobs
    /\ deleting \in Jobs \cup {0}
    /\ cronEnded \in BOOLEAN
    /\ loop \in [Jobs -> LoopType]
    /\ \A j \in Jobs : FiresCounted(loop[j], minute) /\ DeletedIsCancelled(loop[j])

-----------------------------------------------------------------------------
\* A set of numbers that is not empty has a least one.
LEMMA MinimumExists ==
    ASSUME NEW S, S \subseteq Nat, S # {}
    PROVE  Min(S) \in S /\ \A y \in S : Min(S) <= y
BY LeastExists DEF Min

LEMMA NextCronTimeIsLater ==
    ASSUME NEW s \in SUBSET Minutes, NEW now \in Minutes,
           NextCronTime(s, now) # NoMinute
    PROVE  NextCronTime(s, now) \in s /\ NextCronTime(s, now) > now
<1> DEFINE later == {m \in s : m > now}
<1>1. later # {} /\ later \subseteq Nat
  <2>1. Minutes \subseteq Nat
    BY CronAssumption DEF Minutes
  <2>2. later # {}
    BY DEF NextCronTime
  <2>3. QED
    BY <2>1, <2>2
<1>2. Min(later) \in later
  <2> HIDE DEF later
  <2>1. QED
    BY <1>1, MinimumExists
<1>3. NextCronTime(s, now) = Min(later)
  BY <1>1 DEF NextCronTime
<1>4. QED
  BY <1>2, <1>3

LEMMA NextCronTimeType ==
    ASSUME NEW s \in SUBSET Minutes, NEW now \in Minutes
    PROVE  NextCronTime(s, now) \in Minutes \cup {NoMinute}
<1>1. CASE NextCronTime(s, now) = NoMinute
  BY <1>1
<1>2. CASE NextCronTime(s, now) # NoMinute
  BY <1>2, NextCronTimeIsLater
<1>3. QED
  BY <1>1, <1>2

-----------------------------------------------------------------------------
\* Counting the matched minutes.

LEMMA MatchedFinite ==
    ASSUME NEW r \in LoopType, NEW m
    PROVE  /\ IsFiniteSet(MatchedBefore(r, m))
           /\ Cardinality(MatchedBefore(r, m)) \in Nat
<1>1. MatchedBefore(r, m) \in SUBSET (0 .. MaxMinute)
  BY DEF MatchedBefore, LoopType, Minutes
<1>2. IsFiniteSet(0 .. MaxMinute)
  BY CronAssumption, FS_Interval
<1>3. IsFiniteSet(MatchedBefore(r, m))
  BY <1>1, <1>2, FS_Subset
<1>4. QED
  BY <1>3, FS_CardinalityType

LEMMA MatchedGrows ==
    ASSUME NEW r \in LoopType, NEW m \in Int, NEW n \in Int, m <= n
    PROVE  Cardinality(MatchedBefore(r, m)) <= Cardinality(MatchedBefore(r, n))
<1>1. \A x \in r.schedule : x \in Int
  BY CronAssumption DEF LoopType, Minutes
<1>2. MatchedBefore(r, m) \in SUBSET MatchedBefore(r, n)
  BY <1>1 DEF MatchedBefore
<1>3. QED
  BY <1>2, MatchedFinite, FS_Subset

LEMMA OneMoreMatched ==
    ASSUME NEW r \in LoopType, NEW m \in r.schedule, NEW n \in Int, r.since < m, m < n
    PROVE  Cardinality(MatchedBefore(r, m)) + 1 <= Cardinality(MatchedBefore(r, n))
<1>1. /\ \A x \in r.schedule : x \in Int
      /\ m \in Int
  BY CronAssumption DEF LoopType, Minutes
<1>2. m \notin MatchedBefore(r, m)
  BY <1>1 DEF MatchedBefore
<1>3. MatchedBefore(r, m) \cup {m} \in SUBSET MatchedBefore(r, n)
  BY <1>1 DEF MatchedBefore
<1>4. Cardinality(MatchedBefore(r, m) \cup {m}) = Cardinality(MatchedBefore(r, m)) + 1
  BY <1>2, MatchedFinite, FS_AddElement
<1>5. QED
  BY <1>3, <1>4, MatchedFinite, FS_Subset

\* What counts the fires does not depend on the other fields of a job.
LEMMA MatchedDependsOn ==
    ASSUME NEW r, NEW q, r.schedule = q.schedule, r.since = q.since, NEW m
    PROVE  MatchedBefore(r, m) = MatchedBefore(q, m)
BY DEF MatchedBefore

-----------------------------------------------------------------------------
LEMMA NoLoopHolds ==
    /\ NoLoop \in LoopType
    /\ \A now \in Minutes : FiresCounted(NoLoop, now) /\ DeletedIsCancelled(NoLoop)
<1>1. NoLoop \in LoopType
  BY CronAssumption DEF NoLoop, LoopType, LoopPcs, Minutes
<1>2. \A now \in Minutes : Cardinality(MatchedBefore(NoLoop, now + 1)) \in Nat
  BY <1>1, MatchedFinite
<1>3. /\ NoLoop.fires = 0 /\ NoLoop.since = 0 /\ NoLoop.pc = "none"
      /\ ~NoLoop.late /\ ~NoLoop.deleted
  BY DEF NoLoop
<1>4. \A now \in Minutes : now \in Nat
  BY CronAssumption DEF Minutes
<1>5. QED
  BY <1>1, <1>2, <1>3, <1>4 DEF FiresCounted, DeletedIsCancelled

LEMMA CronInitHolds == CronInit => CronInv
<1> SUFFICES ASSUME CronInit
             PROVE  CronInv
  OBVIOUS
<1>1. 0 \in Minutes
  BY CronAssumption DEF Minutes
<1>2. QED
  BY <1>1, NoLoopHolds DEF CronInit, CronInv

\* A step of one job leaves every other job as it was.
LEMMA OneJobMoves ==
    ASSUME CronInv, NEW j \in Jobs, NEW r \in LoopType, loop' = [loop EXCEPT ![j] = r],
           minute' = minute, FiresCounted(r, minute), DeletedIsCancelled(r)
    PROVE  /\ loop' \in [Jobs -> LoopType]
           /\ \A i \in Jobs : FiresCounted(loop'[i], minute') /\ DeletedIsCancelled(loop'[i])
<1>1. \A i \in Jobs : loop'[i] = IF i = j THEN r ELSE loop[i]
  BY DEF CronInv
<1>2. QED
  BY <1>1 DEF CronInv

-----------------------------------------------------------------------------
\* One lemma for each step of a job that does more than move its counter.

LEMMA CreateKeeps == CronInv /\ CronCreate => CronInv'
<1> SUFFICES ASSUME CronInv, CronCreate
             PROVE  CronInv'
  OBVIOUS
<1> DEFINE j == created + 1
           First(s) == NextCronTime(s, minute)
           New(s) == [NoLoop EXCEPT !.pc = IF First(s) = NoMinute THEN "ended" ELSE "sleeping",
                                    !.next = First(s), !.schedule = s, !.since = minute]
<1>1. j \in Jobs
  BY CronAssumption DEF CronCreate, CronInv, Jobs
<1>2. PICK s \in Schedules : loop' = [loop EXCEPT ![j] = New(s)] /\ created' = j /\ jobs' = jobs \cup {j}
  BY DEF CronCreate
<1>3. s \in SUBSET Minutes /\ minute \in Minutes /\ minute \in Nat
  BY CronAssumption DEF CronInv, Minutes
<1>4. First(s) \in Minutes \cup {NoMinute}
  BY <1>3, NextCronTimeType
<1>5. New(s) \in LoopType
  BY <1>3, <1>4, NoLoopHolds DEF LoopType, LoopPcs
<1>6. /\ New(s).pc = IF First(s) = NoMinute THEN "ended" ELSE "sleeping"
      /\ New(s).next = First(s) /\ New(s).schedule = s /\ New(s).since = minute
      /\ New(s).fires = 0 /\ ~New(s).late /\ ~New(s).deleted
  BY DEF NoLoop
<1>7. \A m : Cardinality(MatchedBefore(New(s), m)) \in Nat
  BY <1>5, MatchedFinite
<1>8. First(s) # NoMinute => First(s) \in s /\ First(s) > minute
  BY <1>3, NextCronTimeIsLater
<1>9. FiresCounted(New(s), minute)
  <2> HIDE DEF New
  <2>1. QED
    BY <1>3, <1>6, <1>7, <1>8 DEF FiresCounted
<1>10. DeletedIsCancelled(New(s))
  BY <1>6 DEF DeletedIsCancelled
<1>11. UNCHANGED <<minute, cronEnded, deleting>>
  BY DEF CronCreate
<1>12. QED
  <2> HIDE DEF New
  <2>1. /\ loop' \in [Jobs -> LoopType]
        /\ \A i \in Jobs : FiresCounted(loop'[i], minute') /\ DeletedIsCancelled(loop'[i])
    BY <1>1, <1>2, <1>5, <1>9, <1>10, <1>11, OneJobMoves
  <2>2. created' \in Nat /\ jobs' \subseteq Jobs
    BY <1>1, <1>2 DEF CronInv
  <2>3. QED
    BY <2>1, <2>2, <1>11 DEF CronInv

LEMMA WakeKeeps ==
    ASSUME CronInv, NEW j \in Jobs, Wake(j)
    PROVE  CronInv'
<1> DEFINE r == loop[j]
<1>1. r \in LoopType /\ FiresCounted(r, minute) /\ DeletedIsCancelled(r)
  BY DEF CronInv
<1>2. UNCHANGED <<minute, jobs, created, cronEnded, deleting>> /\ r.pc = "sleeping"
  BY DEF Wake
<1>3. CASE loop' = [loop EXCEPT ![j].pc = "ended"]
  <2> DEFINE q == [r EXCEPT !.pc = "ended"]
  <2>1. q \in LoopType
    BY <1>1 DEF LoopType, LoopPcs
  <2>2. FiresCounted(q, minute) /\ DeletedIsCancelled(q)
    BY <1>1, <1>2 DEF FiresCounted, DeletedIsCancelled, MatchedBefore, LoopType
  <2>3. loop' = [loop EXCEPT ![j] = q]
    BY <1>3
  <2>4. QED
    BY <2>1, <2>2, <2>3, <1>2, OneJobMoves DEF CronInv
<1>4. CASE minute >= loop[j].next /\ loop' = [loop EXCEPT ![j].pc = "awake"]
  <2> DEFINE q == [r EXCEPT !.pc = "awake"]
  <2>1. q \in LoopType
    BY <1>1 DEF LoopType, LoopPcs
  <2>2. FiresCounted(q, minute) /\ DeletedIsCancelled(q)
    <3>1. r.next \in Int /\ minute \in Int
      BY <1>1, CronAssumption DEF LoopType, Minutes, NoMinute, CronInv
    <3>2. QED
      BY <3>1, <1>1, <1>2, <1>4 DEF FiresCounted, DeletedIsCancelled, MatchedBefore, LoopType
  <2>3. loop' = [loop EXCEPT ![j] = q]
    BY <1>4
  <2>4. QED
    BY <2>1, <2>2, <2>3, <1>2, OneJobMoves DEF CronInv
<1>5. QED
  BY <1>3, <1>4 DEF Wake

\* A goroutine that ends keeps what is counted.
LEMMA EndingKeeps ==
    ASSUME CronInv, NEW j \in Jobs, loop' = [loop EXCEPT ![j].pc = "ended"],
           UNCHANGED <<minute, jobs, created, cronEnded, deleting>>
    PROVE  CronInv'
<1> DEFINE r == loop[j]
           q == [r EXCEPT !.pc = "ended"]
<1>1. r \in LoopType /\ FiresCounted(r, minute) /\ DeletedIsCancelled(r)
  BY DEF CronInv
<1>2. q \in LoopType
  BY <1>1 DEF LoopType, LoopPcs
<1>3. FiresCounted(q, minute) /\ DeletedIsCancelled(q)
  BY <1>1 DEF FiresCounted, DeletedIsCancelled, MatchedBefore, LoopType
<1>4. loop' = [loop EXCEPT ![j] = q]
  OBVIOUS
<1>5. QED
  BY <1>2, <1>3, <1>4, OneJobMoves DEF CronInv

LEMMA CheckRegisteredKeeps ==
    ASSUME CronInv, NEW j \in Jobs, CheckRegistered(j)
    PROVE  CronInv'
<1> DEFINE r == loop[j]
           q == [r EXCEPT !.pc = "firing"]
<1>1. r \in LoopType /\ FiresCounted(r, minute) /\ DeletedIsCancelled(r) /\ r.pc = "awake"
  BY DEF CronInv, CheckRegistered
<1>2. UNCHANGED <<minute, jobs, created, cronEnded, deleting>>
  BY DEF CheckRegistered
<1>3. CASE j \notin jobs
  <2>1. loop' = [loop EXCEPT ![j].pc = "ended"]
    BY <1>3 DEF CheckRegistered
  <2>2. QED
    BY <2>1, <1>2, EndingKeeps
<1>4. CASE j \in jobs
  <2>1. q \in LoopType
    BY <1>1 DEF LoopType, LoopPcs
  <2>2. FiresCounted(q, minute) /\ DeletedIsCancelled(q)
    BY <1>1 DEF FiresCounted, DeletedIsCancelled, MatchedBefore, LoopType
  <2>3. loop' = [loop EXCEPT ![j] = q]
    BY <1>4 DEF CheckRegistered
  <2>4. QED
    BY <2>1, <2>2, <2>3, <1>2, OneJobMoves DEF CronInv
<1>5. QED
  BY <1>3, <1>4

\* The append is refused when the context is cancelled, so a job whose deletion
\* has returned does not begin one.
LEMMA BeginFireKeeps ==
    ASSUME CronInv, NEW j \in Jobs, BeginFire(j)
    PROVE  CronInv'
<1> DEFINE r == loop[j]
           q == [r EXCEPT !.pc = "appending", !.late = @ \/ r.deleted]
<1>1. r \in LoopType /\ FiresCounted(r, minute) /\ DeletedIsCancelled(r) /\ r.pc = "firing"
  BY DEF CronInv, BeginFire
<1>2. UNCHANGED <<minute, jobs, created, cronEnded, deleting>>
  BY DEF BeginFire
<1>3. CASE Cancelled(j)
  <2>1. loop' = [loop EXCEPT ![j].pc = "ended"]
    BY <1>3 DEF BeginFire
  <2>2. QED
    BY <2>1, <1>2, EndingKeeps
<1>4. CASE ~Cancelled(j)
  <2>1. q \in LoopType
    BY <1>1 DEF LoopType, LoopPcs
  <2>2. ~r.deleted /\ ~r.late
    BY <1>1, <1>4 DEF Cancelled, DeletedIsCancelled
  <2>3. FiresCounted(q, minute) /\ DeletedIsCancelled(q)
    BY <1>1, <2>2 DEF FiresCounted, DeletedIsCancelled, MatchedBefore, LoopType
  <2>4. loop' = [loop EXCEPT ![j] = q]
    BY <1>4, <1>1 DEF BeginFire, CronInv
  <2>5. QED
    BY <2>1, <2>3, <2>4, <1>2, OneJobMoves DEF CronInv
<1>5. QED
  BY <1>3, <1>4

LEMMA FireKeeps ==
    ASSUME CronInv, NEW j \in Jobs, Fire(j)
    PROVE  CronInv'
<1> DEFINE r == loop[j]
           q == [r EXCEPT !.pc = "fired", !.fires = @ + 1]
<1>1. r \in LoopType /\ FiresCounted(r, minute) /\ DeletedIsCancelled(r) /\ r.pc = "appending"
  BY DEF CronInv, Fire
<1>2. UNCHANGED <<minute, jobs, created, cronEnded, deleting>>
  BY DEF Fire
<1>3. CASE loop' = [loop EXCEPT ![j].pc = "ended"]
  BY <1>2, <1>3, EndingKeeps
<1>4. CASE loop' = [loop EXCEPT ![j].pc = "fired", ![j].fires = @ + 1]
  <2>1. q \in LoopType
    <3>1. r.fires + 1 \in Nat
      BY <1>1 DEF LoopType
    <3>2. [r EXCEPT !.pc = "fired"] \in LoopType
      BY <1>1 DEF LoopType, LoopPcs
    <3>3. \A p \in LoopType, n \in Nat : [p EXCEPT !.fires = n] \in LoopType
      BY DEF LoopType
    <3>4. q = [[r EXCEPT !.pc = "fired"] EXCEPT !.fires = r.fires + 1]
      BY <1>1 DEF LoopType
    <3>5. QED
      BY <3>1, <3>2, <3>3, <3>4
  <2>2. /\ q.schedule = r.schedule /\ q.since = r.since /\ q.pc = "fired"
        /\ q.fires = r.fires + 1 /\ q.late = r.late /\ q.deleted = r.deleted
        /\ q.cancelled = r.cancelled
    BY <1>1 DEF LoopType
  <2>3. r.next \in Int /\ minute \in Int /\ r.next < minute + 1
    BY <1>1, CronAssumption DEF FiresCounted, LoopType, Minutes, NoMinute, CronInv
  <2>4. /\ r.next \in r.schedule /\ r.since < r.next
        /\ r.fires <= Cardinality(MatchedBefore(r, r.next))
    BY <1>1 DEF FiresCounted
  <2>5. Cardinality(MatchedBefore(r, r.next)) + 1 <= Cardinality(MatchedBefore(r, minute + 1))
    BY <1>1, <2>3, <2>4, OneMoreMatched
  <2>6. /\ Cardinality(MatchedBefore(r, r.next)) \in Nat
        /\ Cardinality(MatchedBefore(r, minute + 1)) \in Nat
        /\ r.fires \in Nat
    BY <1>1, MatchedFinite DEF LoopType
  <2>7. MatchedBefore(q, minute + 1) = MatchedBefore(r, minute + 1)
    BY <2>2, MatchedDependsOn
  <2>8. q.fires <= Cardinality(MatchedBefore(q, minute + 1))
    BY <2>2, <2>4, <2>5, <2>6, <2>7
  <2>9. FiresCounted(q, minute) /\ DeletedIsCancelled(q)
    <3> HIDE DEF q
    <3>1. QED
      BY <1>1, <2>2, <2>8 DEF FiresCounted, DeletedIsCancelled
  <2>10. loop' = [loop EXCEPT ![j] = q]
    BY <1>4 DEF CronInv
  <2>11. QED
    BY <2>1, <2>9, <2>10, <1>2, OneJobMoves DEF CronInv
<1>5. QED
  BY <1>3, <1>4 DEF Fire

LEMMA RescheduleKeeps ==
    ASSUME CronInv, NEW j \in Jobs, Reschedule(j)
    PROVE  CronInv'
<1> DEFINE r == loop[j]
           due == NextCronTime(r.schedule, minute)
           q == [r EXCEPT !.pc = IF due = NoMinute THEN "ended" ELSE "sleeping", !.next = due]
<1>1. r \in LoopType /\ FiresCounted(r, minute) /\ DeletedIsCancelled(r) /\ r.pc = "fired"
  BY DEF CronInv, Reschedule
<1>2. UNCHANGED <<minute, jobs, created, cronEnded, deleting>>
  BY DEF Reschedule
<1>3. r.schedule \in SUBSET Minutes /\ minute \in Minutes /\ minute \in Int /\ r.since \in Int
  BY <1>1, CronAssumption DEF LoopType, CronInv, Minutes
<1>4. due \in Minutes \cup {NoMinute}
  BY <1>3, NextCronTimeType
<1>5. due # NoMinute => due \in r.schedule /\ due > minute
  BY <1>3, NextCronTimeIsLater
<1>6. due \in Int
  BY <1>4, CronAssumption DEF Minutes, NoMinute
<1> HIDE DEF due
<1>7. q \in LoopType
  BY <1>1, <1>4 DEF LoopType, LoopPcs
<1>8. /\ q.schedule = r.schedule /\ q.since = r.since /\ q.next = due
      /\ q.pc = IF due = NoMinute THEN "ended" ELSE "sleeping"
      /\ q.fires = r.fires /\ q.late = r.late /\ q.deleted = r.deleted
      /\ q.cancelled = r.cancelled
  BY <1>1 DEF LoopType
<1>9. \A m : MatchedBefore(q, m) = MatchedBefore(r, m)
  <2> HIDE DEF q
  <2>1. QED
    BY <1>8 DEF MatchedBefore
<1>10. due # NoMinute => r.fires <= Cardinality(MatchedBefore(r, due))
  <2> SUFFICES ASSUME due # NoMinute
               PROVE  r.fires <= Cardinality(MatchedBefore(r, due))
    OBVIOUS
  <2>1. minute + 1 <= due
    BY <1>3, <1>5, <1>6
  <2>2. Cardinality(MatchedBefore(r, minute + 1)) <= Cardinality(MatchedBefore(r, due))
    BY <2>1, <1>1, <1>3, <1>6, MatchedGrows
  <2>3. /\ Cardinality(MatchedBefore(r, minute + 1)) \in Nat
        /\ Cardinality(MatchedBefore(r, due)) \in Nat
        /\ r.fires \in Nat
    BY <1>1, MatchedFinite DEF LoopType
  <2>4. QED
    BY <2>2, <2>3, <1>1 DEF FiresCounted
<1>11. FiresCounted(q, minute) /\ DeletedIsCancelled(q)
  <2> HIDE DEF q
  <2>1. QED
    BY <1>1, <1>3, <1>5, <1>6, <1>8, <1>9, <1>10 DEF FiresCounted, DeletedIsCancelled
<1>12. loop' = [loop EXCEPT ![j] = q]
  BY DEF Reschedule, CronInv, due
<1>13. QED
  BY <1>7, <1>11, <1>12, <1>2, OneJobMoves DEF CronInv

LEMMA MinuteKeeps == CronInv /\ Minute => CronInv'
<1> SUFFICES ASSUME CronInv, Minute
             PROVE  CronInv'
  OBVIOUS
<1>1. minute' = minute + 1 /\ UNCHANGED <<jobs, created, cronEnded, loop, deleting>>
  BY DEF Minute
<1>2. minute' \in Minutes /\ minute \in Int
  BY CronAssumption DEF Minute, CronInv, Minutes
<1>3. ASSUME NEW j \in Jobs
      PROVE  FiresCounted(loop[j], minute')
  <2> DEFINE r == loop[j]
  <2>1. r \in LoopType /\ FiresCounted(r, minute)
    BY DEF CronInv
  <2>2. r.since \in Int /\ r.next \in Int /\ r.fires \in Nat
    BY <2>1, CronAssumption DEF LoopType, Minutes, NoMinute
  <2>3. Cardinality(MatchedBefore(r, minute + 1)) <= Cardinality(MatchedBefore(r, minute + 2))
    BY <2>1, <1>2, MatchedGrows
  <2>4. /\ Cardinality(MatchedBefore(r, minute + 1)) \in Nat
        /\ Cardinality(MatchedBefore(r, minute + 2)) \in Nat
    BY <2>1, MatchedFinite
  <2>5. minute' + 1 = minute + 2
    BY <1>1, <1>2
  <2>6. QED
    BY <1>1, <1>2, <2>1, <2>2, <2>3, <2>4, <2>5 DEF FiresCounted
<1>4. QED
  BY <1>1, <1>2, <1>3 DEF CronInv

LEMMA DeleteKeeps == CronInv /\ CronDelete => CronInv'
BY DEF CronInv, CronDelete

\* The deletion cancels the context before it returns.
LEMMA DeleteReturnsKeeps == CronInv /\ CronDeleteReturns => CronInv'
<1> SUFFICES ASSUME CronInv, CronDeleteReturns
             PROVE  CronInv'
  OBVIOUS
<1> DEFINE r == loop[deleting]
           q == [r EXCEPT !.cancelled = TRUE, !.deleted = TRUE]
<1>1. deleting \in Jobs
  BY DEF CronInv, CronDeleteReturns
<1>2. r \in LoopType /\ FiresCounted(r, minute) /\ DeletedIsCancelled(r)
  BY <1>1 DEF CronInv
<1>3. q \in LoopType
  BY <1>2 DEF LoopType
<1>4. FiresCounted(q, minute) /\ DeletedIsCancelled(q)
  BY <1>2 DEF FiresCounted, DeletedIsCancelled, MatchedBefore, LoopType
<1>5. loop' = [loop EXCEPT ![deleting] = q] /\ UNCHANGED <<minute, jobs, created, cronEnded>>
      /\ deleting' = 0
  BY <1>1 DEF CronDeleteReturns, CronInv
<1>6. QED
  BY <1>1, <1>3, <1>4, <1>5, OneJobMoves DEF CronInv

LEMMA CloseKeeps == CronInv /\ CronClose => CronInv'
<1> SUFFICES ASSUME CronInv, CronClose
             PROVE  CronInv'
  OBVIOUS
<1>1. /\ loop' = [j \in Jobs |-> [loop[j] EXCEPT !.cancelled = @ \/ j \in jobs]]
      /\ jobs' = {} /\ cronEnded' = TRUE /\ UNCHANGED <<minute, created, deleting>>
  BY DEF CronClose
<1>2. ASSUME NEW j \in Jobs
      PROVE  loop'[j] \in LoopType /\ FiresCounted(loop'[j], minute) /\ DeletedIsCancelled(loop'[j])
  <2> DEFINE r == loop[j]
             q == [r EXCEPT !.cancelled = @ \/ j \in jobs]
  <2>1. r \in LoopType /\ FiresCounted(r, minute) /\ DeletedIsCancelled(r)
    BY DEF CronInv
  <2>2. (r.cancelled \/ j \in jobs) \in BOOLEAN
    BY <2>1 DEF LoopType
  <2>3. q \in LoopType
    BY <2>1, <2>2 DEF LoopType
  <2>4. FiresCounted(q, minute) /\ DeletedIsCancelled(q)
    BY <2>1 DEF FiresCounted, DeletedIsCancelled, MatchedBefore, LoopType
  <2>5. loop'[j] = q
    BY <1>1
  <2>6. QED
    BY <2>3, <2>4, <2>5
<1>3. loop' \in [Jobs -> LoopType]
  BY <1>1, <1>2
<1>4. QED
  BY <1>1, <1>2, <1>3 DEF CronInv

-----------------------------------------------------------------------------
LEMMA CronNextHolds == CronInv /\ [CronNext]_cronVars => CronInv'
<1> SUFFICES ASSUME CronInv, [CronNext]_cronVars
             PROVE  CronInv'
  OBVIOUS
<1>1. CASE CronCreate
  BY <1>1, CreateKeeps
<1>2. CASE CronDelete
  BY <1>2, DeleteKeeps
<1>3. CASE CronDeleteReturns
  BY <1>3, DeleteReturnsKeeps
<1>4. CASE CronClose
  BY <1>4, CloseKeeps
<1>5. CASE Minute
  BY <1>5, MinuteKeeps
<1>6. ASSUME NEW j \in Jobs, CronLoop(j)
      PROVE  CronInv'
  BY <1>6, WakeKeeps, CheckRegisteredKeeps, BeginFireKeeps, FireKeeps, RescheduleKeeps DEF CronLoop
<1>7. CASE UNCHANGED cronVars
  BY <1>7 DEF cronVars, CronInv
<1>8. QED
  BY <1>1, <1>2, <1>3, <1>4, <1>5, <1>6, <1>7 DEF CronNext

\* However long its goroutine is kept waiting and wherever a deletion falls, a
\* job fires at most once for each minute its expression matched, and begins no
\* append after its deletion has returned (tools/cron.go).
THEOREM JobsFireOnSchedule == CronSpec => []FiresOnSchedule
<1>1. CronInv => FiresOnSchedule
  <2> SUFFICES ASSUME CronInv, NEW j \in Jobs
               PROVE  /\ ~loop[j].late
                      /\ loop[j].fires <=
                            Cardinality({m \in loop[j].schedule : loop[j].since < m /\ m <= minute})
    BY DEF FiresOnSchedule, OneFirePerMinute, NoFireAfterDeletion
  <2>1. loop[j] \in LoopType /\ FiresCounted(loop[j], minute) /\ DeletedIsCancelled(loop[j])
    BY DEF CronInv
  <2>2. minute \in Int /\ \A m \in loop[j].schedule : m \in Int
    BY <2>1, CronAssumption DEF CronInv, LoopType, Minutes
  <2>3. {m \in loop[j].schedule : loop[j].since < m /\ m <= minute}
          = MatchedBefore(loop[j], minute + 1)
    BY <2>2 DEF MatchedBefore
  <2>4. QED
    BY <2>1, <2>3 DEF FiresCounted, DeletedIsCancelled
<1>2. QED
  BY CronInitHolds, CronNextHolds, <1>1, PTL DEF CronSpec

-----------------------------------------------------------------------------
\* Approvals

ApprovalType == [status : Statuses \cup {"none"}, by : People \cup {Nobody},
                 tenant : {Tenant(p) : p \in People} \cup {"none"}, due : Nat,
                 decider : People \cup {Nobody}, at : Nat, request : Nat]

DecisionType == [operation : Operations \cup {"none"}, id : ApprovalIds \cup {"none"}]

\* What an actor has been authorized for is still theirs to do: the row of the
\* SQLite store is there, and its requester is not changed.
AuthorizedStands(p) ==
    decision[p] # Idle =>
        /\ decision[p].operation \in Operations
        /\ decision[p].id \in ApprovalIds
        /\ p \in MayDecide
        /\ durable =>
              /\ approvals[decision[p].id].status # "none"
              /\ decision[p].operation = "granted" /\ RequireDistinctApprover =>
                    approvals[decision[p].id].by # p

\* Requests are numbered in the order in which they are made.
RequestsCounted == \A a \in ApprovalIds : approvals[a].request <= requests

Types ==
    /\ durable \in BOOLEAN
    /\ approvals \in [ApprovalIds -> ApprovalType]
    /\ requests \in Nat /\ clock \in Nat
    /\ decision \in [People -> DecisionType]

ApprovalsInv ==
    /\ Types
    /\ RequestsCounted
    /\ \A p \in People : AuthorizedStands(p)
    /\ NobodyGrantsTheirOwn

LEMMA InvInit == ApprovalsInit => ApprovalsInv
  BY ApprovalsAssumption
  DEF ApprovalsInit, ApprovalsStart, ApprovalsInv, Types, RequestsCounted, AuthorizedStands,
      NobodyGrantsTheirOwn, NoApproval, Idle, ApprovalType, DecisionType, Statuses, Operations

\* The row a request leaves.
LEMMA Requested ==
    ASSUME ApprovalsInv, NEW p \in People, NEW a \in ApprovalIds, Request(p, a)
    PROVE  ApprovalsInv'
<1>1. PICK due \in {0} \cup (clock + 1 .. MaxTime) :
         approvals' = [approvals EXCEPT ![a] = RequestedBy(p, due)]
  BY DEF Request
<1> DEFINE new == RequestedBy(p, due)
<1>2. approvals' = [approvals EXCEPT ![a] = new]
  BY <1>1
<1>3. due \in Nat /\ requests \in Nat /\ requests' = requests + 1
  BY DEF Request, ApprovalsInv, Types
<1>4. new \in ApprovalType
  BY <1>3 DEF RequestedBy, ApprovalType, Statuses
<1>5. UNCHANGED <<durable, clock, decision>>
  BY DEF Request
<1>6. new.status = "pending" /\ new.request = requests + 1
  BY DEF RequestedBy
<1> HIDE DEF new
<1>7. Types'
  BY <1>2, <1>3, <1>4, <1>5 DEF ApprovalsInv, Types
<1>8. RequestsCounted'
  BY <1>2, <1>3, <1>6, <1>7 DEF ApprovalsInv, RequestsCounted, Types, ApprovalType
<1>9. \A q \in People : AuthorizedStands(q)'
  <2> SUFFICES ASSUME NEW q \in People
               PROVE  AuthorizedStands(q)'
    OBVIOUS
  <2>1. durable => approvals[a].status = "none"
    BY DEF Request
  <2>2. QED
    BY <2>1, <1>2, <1>5 DEF ApprovalsInv, Types, AuthorizedStands
<1>10. NobodyGrantsTheirOwn'
  BY <1>2, <1>5, <1>6 DEF ApprovalsInv, NobodyGrantsTheirOwn, Types
<1>11. QED
  BY <1>7, <1>8, <1>9, <1>10 DEF ApprovalsInv

\* The row a transition leaves, whoever makes it.
Transitioned(row, status, p) == [row EXCEPT !.status = status, !.decider = p, !.at = clock]

LEMMA TransitionType ==
    ASSUME NEW row \in ApprovalType, NEW status \in Statuses, NEW p \in People, clock \in Nat
    PROVE  /\ Transitioned(row, status, p) \in ApprovalType
           /\ Transitioned(row, status, p).status = status
           /\ Transitioned(row, status, p).decider = p
           /\ Transitioned(row, status, p).by = row.by
           /\ Transitioned(row, status, p).tenant = row.tenant
           /\ Transitioned(row, status, p).request = row.request
  BY DEF Transitioned, ApprovalType

LEMMA TransitionKeeps ==
    ASSUME ApprovalsInv, NEW p \in People, NEW a \in ApprovalIds, NEW status \in Statuses \ {"pending"},
           Transition(p, a, status),
           status = "granted" =>
              p \in MayDecide /\ (durable /\ RequireDistinctApprover => approvals[a].by # p),
           UNCHANGED <<durable, requests, clock>>,
           \A q \in People : decision'[q] \in {decision[q], Idle},
           decision' \in [People -> DecisionType]
    PROVE  ApprovalsInv'
<1> DEFINE new == Transitioned(approvals[a], status, p)
<1>1. approvals' = [approvals EXCEPT ![a] = new] /\ approvals[a].status = "pending"
  BY DEF Transition, Transitioned
<1>2. approvals[a] \in ApprovalType /\ clock \in Nat
  BY DEF ApprovalsInv, Types
<1>3. /\ new \in ApprovalType
      /\ new.status = status /\ new.decider = p
      /\ new.by = approvals[a].by /\ new.tenant = approvals[a].tenant
      /\ new.request = approvals[a].request
  BY <1>2, TransitionType
<1>4. approvals[a].tenant = Tenant(p)
  BY DEF Transition, Visible
<1> HIDE DEF new
<1>5. Types'
  BY <1>1, <1>3 DEF ApprovalsInv, Types
<1>6. RequestsCounted'
  BY <1>1, <1>3 DEF ApprovalsInv, RequestsCounted, Types
<1>7. \A q \in People : AuthorizedStands(q)'
  <2> SUFFICES ASSUME NEW q \in People
               PROVE  AuthorizedStands(q)'
    OBVIOUS
  <2>1. CASE decision'[q] = Idle
    BY <2>1 DEF AuthorizedStands
  <2>2. CASE decision'[q] = decision[q]
    <3>1. AuthorizedStands(q)
      BY DEF ApprovalsInv
    <3>2. status # "none"
      BY DEF Statuses
    <3>3. QED
      BY <2>2, <3>1, <3>2, <1>1, <1>3 DEF AuthorizedStands, ApprovalsInv, Types
  <2>3. QED
    BY <2>1, <2>2
<1>8. NobodyGrantsTheirOwn'
  BY <1>1, <1>3, <1>4 DEF ApprovalsInv, NobodyGrantsTheirOwn, Types
<1>9. QED
  BY <1>5, <1>6, <1>7, <1>8 DEF ApprovalsInv

LEMMA InvNext == ApprovalsInv /\ [ApprovalsNext]_approvalVars => ApprovalsInv'
<1> SUFFICES ASSUME ApprovalsInv, [ApprovalsNext]_approvalVars
             PROVE  ApprovalsInv'
  OBVIOUS
<1>1. ASSUME NEW p \in People, NEW a \in ApprovalIds, Request(p, a)
      PROVE  ApprovalsInv'
  BY <1>1, Requested
<1>2. ASSUME NEW p \in People, NEW a \in ApprovalIds, Expire(p, a)
      PROVE  ApprovalsInv'
  <2>1. decision' \in [People -> DecisionType] /\ \A q \in People : decision'[q] = decision[q]
    BY <1>2 DEF Expire, ApprovalsInv, Types
  <2>2. "expired" \in Statuses \ {"pending"}
    BY DEF Statuses
  <2>3. Transition(p, a, "expired") /\ UNCHANGED <<durable, requests, clock>>
    BY <1>2 DEF Expire
  <2>4. QED
    BY <2>1, <2>2, <2>3, TransitionKeeps
<1>3. ASSUME NEW p \in People, NEW a \in ApprovalIds, NEW operation \in Operations,
             Authorize(p, a, operation)
      PROVE  ApprovalsInv'
  <2> DEFINE new == [operation |-> operation, id |-> a]
  <2>1. decision' = [decision EXCEPT ![p] = new] /\ new \in DecisionType
    BY <1>3 DEF Authorize, DecisionType
  <2>2. UNCHANGED <<durable, approvals, requests, clock>>
    BY <1>3 DEF Authorize
  <2>3. /\ approvals[a].status # "none" /\ p \in MayDecide
        /\ operation = "granted" /\ RequireDistinctApprover => approvals[a].by # p
    BY <1>3 DEF Authorize, Visible, Authorized
  <2>4. new.operation = operation /\ new.id = a
    OBVIOUS
  <2> HIDE DEF new
  <2>5. Types' /\ RequestsCounted' /\ NobodyGrantsTheirOwn'
    BY <2>1, <2>2 DEF ApprovalsInv, Types, RequestsCounted, NobodyGrantsTheirOwn
  <2>6. \A q \in People : AuthorizedStands(q)'
    BY <2>1, <2>2, <2>3, <2>4 DEF ApprovalsInv, Types, AuthorizedStands
  <2>7. QED
    BY <2>5, <2>6 DEF ApprovalsInv
<1>4. ASSUME NEW p \in People, Decide(p)
      PROVE  ApprovalsInv'
  <2> DEFINE d == decision[p]
  <2>1. /\ d # Idle /\ decision' = [decision EXCEPT ![p] = Idle]
        /\ UNCHANGED <<durable, requests, clock>>
        /\ Transition(p, d.id, d.operation) \/ UNCHANGED approvals
    BY <1>4 DEF Decide
  <2>2. Idle \in DecisionType
    BY DEF Idle, DecisionType
  <2>3. decision' \in [People -> DecisionType]
        /\ \A q \in People : decision'[q] \in {decision[q], Idle}
    BY <2>1, <2>2 DEF ApprovalsInv, Types
  <2>4. /\ d.operation \in Operations /\ d.id \in ApprovalIds /\ p \in MayDecide
        /\ durable /\ RequireDistinctApprover =>
              (d.operation = "granted" => approvals[d.id].by # p)
    BY <2>1 DEF ApprovalsInv, AuthorizedStands
  <2>5. CASE Transition(p, d.id, d.operation)
    <3>1. d.operation \in Statuses \ {"pending"}
      BY <2>4 DEF Operations, Statuses
    <3>2. QED
      BY <3>1, <2>1, <2>3, <2>4, <2>5, TransitionKeeps
  <2>6. CASE UNCHANGED approvals
    <3>1. Types' /\ RequestsCounted' /\ NobodyGrantsTheirOwn'
      BY <2>1, <2>3, <2>6 DEF ApprovalsInv, Types, RequestsCounted, NobodyGrantsTheirOwn
    <3>2. \A q \in People : AuthorizedStands(q)'
      BY <2>1, <2>3, <2>6 DEF ApprovalsInv, AuthorizedStands
    <3>3. QED
      BY <3>1, <3>2 DEF ApprovalsInv
  <2>7. QED
    BY <2>1, <2>5, <2>6
<1>5. CASE Tick
  BY <1>5 DEF Tick, ApprovalsInv, Types, RequestsCounted, AuthorizedStands, NobodyGrantsTheirOwn
<1>6. CASE UNCHANGED approvalVars
  BY <1>6 DEF approvalVars, ApprovalsInv, Types, RequestsCounted, AuthorizedStands,
              NobodyGrantsTheirOwn
<1>7. QED
  BY <1>1, <1>2, <1>3, <1>4, <1>5, <1>6 DEF ApprovalsNext

\* A row that is decided is left alone by every step but a later request under
\* its id in the memory store.
Stand == \A a \in ApprovalIds :
            approvals[a].status \notin {"none", "pending"} =>
               \/ approvals'[a] = approvals[a]
               \/ ~durable /\ approvals'[a].request > approvals[a].request

LEMMA TransitionStands ==
    ASSUME ApprovalsInv, NEW p, NEW a, NEW status, Transition(p, a, status)
    PROVE  Stand
  BY DEF Transition, Stand, ApprovalsInv, Types

LEMMA NextStands == ApprovalsInv /\ [ApprovalsNext]_approvalVars => Stand
<1> SUFFICES ASSUME ApprovalsInv, [ApprovalsNext]_approvalVars
             PROVE  Stand
  OBVIOUS
<1>1. ASSUME NEW p \in People, NEW a \in ApprovalIds, Request(p, a)
      PROVE  Stand
  <2>1. CASE durable
    BY <1>1, <2>1 DEF Request, Stand, ApprovalsInv, Types
  <2>2. CASE ~durable
    <3>1. PICK due \in {0} \cup (clock + 1 .. MaxTime) :
             approvals' = [approvals EXCEPT ![a] = RequestedBy(p, due)]
      BY <1>1 DEF Request
    <3>2. approvals'[a].request = requests + 1 /\ \A b \in ApprovalIds \ {a} : approvals'[b] = approvals[b]
      BY <3>1 DEF RequestedBy, ApprovalsInv, Types
    <3>3. approvals[a].request <= requests /\ requests \in Nat /\ approvals[a].request \in Nat
      BY DEF ApprovalsInv, RequestsCounted, Types, ApprovalType
    <3>4. requests + 1 > approvals[a].request
      BY <3>3
    <3>5. QED
      BY <3>2, <3>4, <2>2 DEF Stand
  <2>3. QED
    BY <2>1, <2>2
<1>2. ASSUME NEW p \in People, NEW a \in ApprovalIds, Expire(p, a)
      PROVE  Stand
  BY <1>2, TransitionStands DEF Expire
<1>3. ASSUME NEW p \in People, NEW a \in ApprovalIds, NEW operation \in Operations,
             Authorize(p, a, operation)
      PROVE  Stand
  BY <1>3 DEF Authorize, Stand
<1>4. ASSUME NEW p \in People, Decide(p)
      PROVE  Stand
  <2>1. CASE Transition(p, decision[p].id, decision[p].operation)
    BY <2>1, TransitionStands
  <2>2. CASE UNCHANGED approvals
    BY <2>2 DEF Stand
  <2>3. QED
    BY <1>4, <2>1, <2>2 DEF Decide
<1>5. CASE Tick
  BY <1>5 DEF Tick, Stand
<1>6. CASE UNCHANGED approvalVars
  BY <1>6 DEF approvalVars, Stand
<1>7. QED
  BY <1>1, <1>2, <1>3, <1>4, <1>5, <1>6 DEF ApprovalsNext

\* Whoever decides, and whatever happens between the authorization of a
\* decision and the decision: a decided approval keeps its decision, and in the
\* SQLite store whoever granted one might, and did not grant a request of their
\* own where distinct approvers are required
\* (policy/approval_authorization.go, policy/policy.go transitionLocked).
THEOREM DecisionsAreKept == ApprovalsSpec => ApprovalsStand
<1>1. ApprovalsInv => NobodyGrantsTheirOwn
  BY DEF ApprovalsInv
<1>2. ApprovalsInv /\ [ApprovalsNext]_approvalVars => [Stand]_approvalVars
  BY NextStands
<1>3. QED
  BY InvInit, InvNext, <1>1, <1>2, PTL DEF ApprovalsSpec, ApprovalsStand, DecisionsStand, Stand

-----------------------------------------------------------------------------
\* Background processes

ProcessFields == {"status", "shell", "child", "cmd", "waiter", "signalled"}
Goroutines == Users \cup {Closer}

\* A command is only cleared once its group was killed or its end was seen.
ClearedIsOver(p) ==
    /\ DOMAIN p = ProcessFields
    /\ p.cmd \in BOOLEAN /\ p.signalled \in BOOLEAN
    /\ p.cmd \/ p.signalled \/ p.waiter = "finished"

\* Whoever has process i in hand, or what became of it.
Accounted(i) ==
    \/ process[i].shell = "none" \/ process[i].waiter \in {"returned", "finished"}
    \/ i \in procs
    \/ \E u \in Users : user[u].id = i /\ user[u].pc \in {"register", "kill"}
    \/ i \in user[Closer].left
    \/ process[i].signalled

\* Numbers of spawns under way are fresh: no goroutine waits for them yet.
Spawning(u) == user[u].pc \in {"start", "register"}
SpawnInv ==
    /\ spawned \in Nat
    /\ \A i \in Processes : i > spawned => process[i].waiter = "none"
    /\ \A u \in Users : Spawning(u) =>
          /\ user[u].id \in 1 .. spawned
          /\ user[u].id \in Processes => process[user[u].id].waiter = "none"
          /\ \A v \in Users : v # u /\ Spawning(v) => user[v].id # user[u].id

\* Close holds what it has collected until it returns.
ProcInv ==
    /\ DOMAIN process = Processes /\ DOMAIN user = Goroutines
    /\ \A i \in Processes : ClearedIsOver(process[i]) /\ Accounted(i)
    /\ \A u \in Goroutines : DOMAIN user[u] = {"pc", "id", "left"}
    /\ user[Closer].pc # "close" => user[Closer].left = {}

LEMMA ProcInitHolds == ProcInit => ProcInv /\ SpawnInv
<1> SUFFICES ASSUME ProcInit PROVE ProcInv /\ SpawnInv
  OBVIOUS
<1>1. DOMAIN Unstarted = ProcessFields /\ Unstarted.cmd = TRUE /\ Unstarted.signalled = FALSE
      /\ Unstarted.shell = "none" /\ Unstarted.waiter = "none"
  BY DEF Unstarted, ProcessFields
<1>2. DOMAIN NotInUse = {"pc", "id", "left"} /\ NotInUse.left = {}
      /\ NotInUse.pc = "idle"
  BY DEF NotInUse
<1>3. ProcInv
  BY <1>1, <1>2 DEF ProcInit, ProcInv, ClearedIsOver, Accounted, Goroutines
<1>4. SpawnInv
  BY <1>1, <1>2 DEF ProcInit, SpawnInv, Spawning
<1>5. QED
  BY <1>3, <1>4

\* A step that changes process i only, in the hands of whoever had it.
LEMMA OneProcessChanges ==
    ASSUME ProcInv, NEW i, NEW p,
           process' = [process EXCEPT ![i] = p], procs' = procs, user' = user,
           i \in Processes =>
              /\ ClearedIsOver(p)
              /\ \/ p.shell = "none" \/ p.waiter \in {"returned", "finished"} \/ p.signalled
                 \/ /\ process[i].shell # "none"
                    /\ process[i].waiter \notin {"returned", "finished"}
                    /\ ~process[i].signalled
    PROVE  ProcInv'
<1>1. DOMAIN process' = Processes /\ DOMAIN user' = Goroutines
  BY DEF ProcInv
<1>2. ASSUME NEW j \in Processes
      PROVE  ClearedIsOver(process'[j]) /\ Accounted(j)'
  <2>1. CASE j = i
    BY <2>1 DEF ProcInv, Accounted
  <2>2. CASE j # i
    BY <2>2 DEF ProcInv, Accounted
  <2>3. QED
    BY <2>1, <2>2
<1>3. QED
  BY <1>1, <1>2 DEF ProcInv, ClearedIsOver

\* The steps of a process and its goroutine.
LEMMA ProcessStepKeeps ==
    ASSUME ProcInv, NEW i \in Processes,
           Wait(i) \/ ShellExits(i) \/ ChildExits(i) \/ ContextKills(i)
    PROVE  ProcInv'
<1>1. ClearedIsOver(process[i]) /\ DOMAIN process[i] = ProcessFields
  BY DEF ProcInv, ClearedIsOver
<1>2. CASE WaitBegin(i)
  <2> DEFINE p == [process[i] EXCEPT !.waiter = IF process[i].cmd THEN "waiting" ELSE "panicked"]
  <2>1. process' = [process EXCEPT ![i] = p] /\ procs' = procs /\ user' = user
        /\ process[i].waiter = "created"
    BY <1>2 DEF WaitBegin
  <2>2. DOMAIN p = ProcessFields /\ p.cmd = process[i].cmd /\ p.signalled = process[i].signalled
        /\ p.shell = process[i].shell
    BY <1>1 DEF ProcessFields
  <2> HIDE DEF p
  <2>3. ClearedIsOver(p)
    BY <1>1, <2>1, <2>2 DEF ClearedIsOver
  <2>4. QED
    BY <2>1, <2>2, <2>3, OneProcessChanges
<1>3. CASE WaitReturns(i)
  <2> DEFINE p == [process[i] EXCEPT !.waiter = "returned"]
  <2>1. process' = [process EXCEPT ![i] = p] /\ procs' = procs /\ user' = user
        /\ process[i].waiter = "waiting"
    BY <1>3 DEF WaitReturns
  <2>2. DOMAIN p = ProcessFields /\ p.cmd = process[i].cmd /\ p.signalled = process[i].signalled
        /\ p.waiter = "returned"
    BY <1>1 DEF ProcessFields
  <2> HIDE DEF p
  <2>3. ClearedIsOver(p)
    BY <1>1, <2>1, <2>2 DEF ClearedIsOver
  <2>4. QED
    BY <2>1, <2>2, <2>3, OneProcessChanges
<1>4. CASE WaitRecords(i)
  <2>1. PICK s \in {"done", "error"} : process' =
           [process EXCEPT ![i] = [process[i] EXCEPT !.waiter = "finished", !.status = s,
                                                     !.cmd = FALSE]]
    BY <1>4 DEF WaitRecords
  <2> DEFINE p == [process[i] EXCEPT !.waiter = "finished", !.status = s, !.cmd = FALSE]
  <2>2. process' = [process EXCEPT ![i] = p] /\ procs' = procs /\ user' = user
    BY <1>4, <2>1 DEF WaitRecords
  <2>3. DOMAIN p = ProcessFields /\ p.cmd = FALSE /\ p.signalled = process[i].signalled
        /\ p.waiter = "finished"
    BY <1>1 DEF ProcessFields
  <2> HIDE DEF p
  <2>4. ClearedIsOver(p)
    BY <1>1, <2>3 DEF ClearedIsOver
  <2>5. QED
    BY <2>2, <2>3, <2>4, OneProcessChanges
<1>5. CASE ShellExits(i) \/ ContextKills(i)
  <2> DEFINE p == [process[i] EXCEPT !.shell = "dead"]
  <2>1. process' = [process EXCEPT ![i] = p] /\ procs' = procs /\ user' = user
        /\ process[i].shell = "live"
    BY <1>5 DEF ShellExits, ContextKills
  <2>2. DOMAIN p = ProcessFields /\ p.cmd = process[i].cmd /\ p.signalled = process[i].signalled
        /\ p.waiter = process[i].waiter
    BY <1>1 DEF ProcessFields
  <2> HIDE DEF p
  <2>3. ClearedIsOver(p)
    BY <1>1, <2>2 DEF ClearedIsOver
  <2>4. QED
    BY <2>1, <2>2, <2>3, OneProcessChanges
<1>6. CASE ChildExits(i)
  <2> DEFINE p == [process[i] EXCEPT !.child = "none"]
  <2>1. process' = [process EXCEPT ![i] = p] /\ procs' = procs /\ user' = user
    BY <1>6 DEF ChildExits
  <2>2. DOMAIN p = ProcessFields /\ p.cmd = process[i].cmd /\ p.signalled = process[i].signalled
        /\ p.waiter = process[i].waiter /\ p.shell = process[i].shell
    BY <1>1 DEF ProcessFields
  <2> HIDE DEF p
  <2>3. ClearedIsOver(p)
    BY <1>1, <2>2 DEF ClearedIsOver
  <2>4. QED
    BY <2>1, <2>2, <2>3, OneProcessChanges
<1>7. QED
  BY <1>2, <1>3, <1>4, <1>5, <1>6 DEF Wait

\* A step of one goroutine that leaves the processes alone.
LEMMA OneGoroutineMoves ==
    ASSUME ProcInv, NEW u \in Users, NEW v,
           user' = [user EXCEPT ![u] = v], DOMAIN v = {"pc", "id", "left"}, process' = process,
           \A i \in Processes :
              i \in procs \/ (user[u].id = i /\ user[u].pc \in {"register", "kill"}) =>
                 i \in procs' \/ (v.id = i /\ v.pc \in {"register", "kill"})
    PROVE  ProcInv'
<1>1. u # Closer /\ u \in Goroutines /\ DOMAIN user = Goroutines /\ Closer \in Goroutines
  BY ProcessAssumption DEF Goroutines, ProcInv
<1>2. user'[u] = v /\ \A x \in Goroutines : x # u => user'[x] = user[x]
  BY <1>1
<1>3. ASSUME NEW i \in Processes
      PROVE  Accounted(i)'
  BY <1>1, <1>2 DEF ProcInv, Accounted, Goroutines
<1>4. QED
  BY <1>1, <1>2, <1>3 DEF ProcInv

\* The steps of a caller of the Process tool.
LEMMA UserStepKeeps ==
    ASSUME ProcInv, SpawnInv, NEW u \in Users,
           SpawnNumber(u) \/ Spawn(u) \/ KillLookup(u) \/ KillProcess(u)
    PROVE  ProcInv'
<1> DEFINE i == user[u].id
<1>1. /\ DOMAIN NotInUse = {"pc", "id", "left"} /\ NotInUse.pc = "idle"
      /\ \A k, at : LET v == [NotInUse EXCEPT !.pc = at, !.id = k]
                    IN  DOMAIN v = {"pc", "id", "left"} /\ v.pc = at /\ v.id = k
  BY DEF NotInUse
<1>2. u \in Goroutines /\ DOMAIN user[u] = {"pc", "id", "left"} /\ DOMAIN user = Goroutines
      /\ DOMAIN process = Processes
  BY DEF ProcInv, Goroutines
<1>3. CASE SpawnNumber(u)
  <2> DEFINE v == [NotInUse EXCEPT !.pc = "start", !.id = spawned + 1]
  <2>1. user' = [user EXCEPT ![u] = v] /\ process' = process /\ procs' = procs
        /\ user[u].pc = "idle"
    BY <1>3 DEF SpawnNumber, At
  <2>2. DOMAIN v = {"pc", "id", "left"}
    BY <1>1
  <2> HIDE DEF v
  <2>3. QED
    BY <2>1, <2>2, OneGoroutineMoves
<1>4. CASE SpawnStart(u)
  <2>1. CASE process' = [process EXCEPT ![i].status = "error"] /\ user' = [user EXCEPT ![u] = NotInUse]
    <3>1. user[u].pc = "start" /\ procs' = procs
      BY <1>4 DEF SpawnStart, At
    <3>2. user'[u] = NotInUse /\ (\A x \in Goroutines : x # u => user'[x] = user[x])
          /\ DOMAIN user' = Goroutines /\ DOMAIN process' = Processes
      BY <1>2, <2>1
    <3>3. \A k \in Processes : DOMAIN process[k] = ProcessFields
      BY DEF ProcInv, ClearedIsOver
    <3>4. \A k \in Processes :
             /\ DOMAIN process'[k] = ProcessFields /\ process'[k].cmd = process[k].cmd
             /\ process'[k].shell = process[k].shell /\ process'[k].waiter = process[k].waiter
             /\ process'[k].signalled = process[k].signalled
      BY <1>2, <2>1, <3>3 DEF ProcessFields
    <3>5. u # Closer /\ Closer \in Goroutines /\ Users \subseteq Goroutines
      BY ProcessAssumption DEF Goroutines
    <3>6. ASSUME NEW k \in Processes
          PROVE  ClearedIsOver(process'[k]) /\ Accounted(k)'
      BY <3>1, <3>2, <3>4, <3>5 DEF ProcInv, ClearedIsOver, Accounted
    <3>7. QED
      BY <1>1, <3>2, <3>5, <3>6 DEF ProcInv
  <2>2. ASSUME NEW c, process' = [process EXCEPT ![i].shell = "live", ![i].child = c],
               user' = [user EXCEPT ![u].pc = "register"]
        PROVE  ProcInv'
    <3> DEFINE v == [user[u] EXCEPT !.pc = "register"]
    <3>1. user[u].pc = "start" /\ procs' = procs
      BY <1>4 DEF SpawnStart, At
    <3>2. DOMAIN v = {"pc", "id", "left"} /\ v.pc = "register" /\ v.id = i
      BY <1>2
    <3>3. user'[u] = v /\ (\A x \in Goroutines : x # u => user'[x] = user[x])
          /\ DOMAIN user' = Goroutines /\ DOMAIN process' = Processes
      BY <1>2, <2>2
    <3>4. \A k \in Processes : DOMAIN process[k] = ProcessFields
      BY DEF ProcInv, ClearedIsOver
    <3>5. \A k \in Processes :
             /\ DOMAIN process'[k] = ProcessFields /\ process'[k].cmd = process[k].cmd
             /\ process'[k].waiter = process[k].waiter
             /\ process'[k].signalled = process[k].signalled
             /\ k # i => process'[k].shell = process[k].shell
      BY <1>2, <2>2, <3>4 DEF ProcessFields
    <3>6. u # Closer /\ Closer \in Goroutines /\ Users \subseteq Goroutines
      BY ProcessAssumption DEF Goroutines
    <3> HIDE DEF v
    <3>7. ASSUME NEW k \in Processes
          PROVE  ClearedIsOver(process'[k]) /\ Accounted(k)'
      <4>1. CASE k = i
        BY <3>2, <3>3, <3>5, <4>1 DEF ProcInv, ClearedIsOver, Accounted
      <4>2. CASE k # i
        BY <3>1, <3>3, <3>5, <3>6, <4>2 DEF ProcInv, ClearedIsOver, Accounted
      <4>3. QED
        BY <4>1, <4>2
    <3>8. QED
      BY <3>2, <3>3, <3>6, <3>7 DEF ProcInv
  <2>3. QED
    BY <1>4, <2>1, <2>2 DEF SpawnStart
<1>5. CASE SpawnRegister(u)
  <2>1. /\ user[u].pc = "register" /\ procs' = procs \cup {i}
        /\ process' = [process EXCEPT ![i].waiter = "created"]
        /\ user' = [user EXCEPT ![u] = NotInUse]
    BY <1>5 DEF SpawnRegister, At
  <2>2. user'[u] = NotInUse /\ (\A x \in Goroutines : x # u => user'[x] = user[x])
        /\ DOMAIN user' = Goroutines /\ DOMAIN process' = Processes
    BY <1>2, <2>1
  <2>3. \A k \in Processes : DOMAIN process[k] = ProcessFields
    BY DEF ProcInv, ClearedIsOver
  <2>4. \A k \in Processes :
           /\ DOMAIN process'[k] = ProcessFields /\ process'[k].cmd = process[k].cmd
           /\ process'[k].shell = process[k].shell
           /\ process'[k].signalled = process[k].signalled
           /\ k # i => process'[k].waiter = process[k].waiter
    BY <1>2, <2>1, <2>3 DEF ProcessFields
  <2>5. u # Closer /\ Closer \in Goroutines /\ Users \subseteq Goroutines
    BY ProcessAssumption DEF Goroutines
  <2>6. ASSUME NEW k \in Processes
        PROVE  ClearedIsOver(process'[k]) /\ Accounted(k)'
    <3>1. CASE k = i
      <4>1. process[i].waiter # "finished"
        BY <2>1, <3>1 DEF SpawnInv, Spawning
      <4>2. QED
        BY <2>1, <2>4, <3>1, <4>1 DEF ProcInv, ClearedIsOver, Accounted
    <3>2. CASE k # i
      BY <2>1, <2>2, <2>4, <2>5, <3>2 DEF ProcInv, ClearedIsOver, Accounted
    <3>3. QED
      BY <3>1, <3>2
  <2>7. QED
    BY <1>1, <2>2, <2>5, <2>6 DEF ProcInv
<1>6. CASE KillLookup(u)
  <2>1. PICK k \in procs : /\ procs' = procs \ {k}
                           /\ user' = [user EXCEPT ![u] = [NotInUse EXCEPT !.pc = "kill", !.id = k]]
    BY <1>6 DEF KillLookup
  <2> DEFINE v == [NotInUse EXCEPT !.pc = "kill", !.id = k]
  <2>2. user' = [user EXCEPT ![u] = v] /\ process' = process /\ user[u].pc = "idle"
    BY <1>6, <2>1 DEF KillLookup, At
  <2>3. DOMAIN v = {"pc", "id", "left"} /\ v.pc = "kill" /\ v.id = k
    BY <1>1
  <2> HIDE DEF v
  <2>4. QED
    BY <2>1, <2>2, <2>3, OneGoroutineMoves
<1>7. CASE KillProcess(u)
  <2> DEFINE killed(q) == [IF q.cmd THEN KillTree(q) ELSE q EXCEPT !.status = "killed", !.cmd = FALSE]
  <2>1. /\ process' = [process EXCEPT ![i] = killed(process[i])]
        /\ user' = [user EXCEPT ![u] = NotInUse] /\ procs' = procs
    BY <1>7 DEF KillProcess
  <2>2. user'[u] = NotInUse /\ (\A x \in Goroutines : x # u => user'[x] = user[x])
        /\ DOMAIN user' = Goroutines /\ DOMAIN process' = Processes
    BY <1>2, <2>1
  <2>3. \A q : ClearedIsOver(q) =>
           /\ DOMAIN killed(q) = ProcessFields /\ killed(q).cmd = FALSE
           /\ killed(q).signalled = (q.signalled \/ q.cmd) /\ killed(q).waiter = q.waiter
    BY DEF ClearedIsOver, ProcessFields, KillTree
  <2> HIDE DEF killed
  <2>4. u # Closer /\ Closer \in Goroutines /\ Users \subseteq Goroutines
    BY ProcessAssumption DEF Goroutines
  <2>5. ASSUME NEW k \in Processes
        PROVE  ClearedIsOver(process'[k]) /\ Accounted(k)'
    <3>1. CASE k = i
      <4>1. process'[k] = killed(process[k]) /\ ClearedIsOver(process[k])
        BY <1>2, <2>1, <3>1 DEF ProcInv
      <4>2. process'[k].signalled \/ process'[k].waiter = "finished"
        BY <2>3, <4>1 DEF ClearedIsOver
      <4>3. ClearedIsOver(process'[k])
        BY <2>3, <4>1, <4>2 DEF ClearedIsOver
      <4>4. QED
        BY <4>2, <4>3 DEF Accounted
    <3>2. CASE k # i
      BY <2>1, <2>2, <2>4, <3>2 DEF ProcInv, Accounted
    <3>3. QED
      BY <3>1, <3>2
  <2>6. QED
    BY <1>1, <2>2, <2>4, <2>5 DEF ProcInv
<1>8. QED
  BY <1>3, <1>4, <1>5, <1>6, <1>7 DEF Spawn

\* The steps of Close.
LEMMA CloseStepKeeps == ProcInv /\ (CloseCancel \/ Close) => ProcInv'
<1> SUFFICES ASSUME ProcInv, CloseCancel \/ Close PROVE ProcInv'
  OBVIOUS
<1>1. /\ Closer \in Goroutines /\ Closer \notin Users /\ Users \subseteq Goroutines
      /\ DOMAIN user[Closer] = {"pc", "id", "left"} /\ DOMAIN user = Goroutines
      /\ DOMAIN process = Processes
  BY ProcessAssumption DEF ProcInv, Goroutines
<1>2. CASE CloseCancel
  <2>1. user' = [user EXCEPT ![Closer].pc = "collect"] /\ process' = process /\ procs' = procs
        /\ user[Closer].pc = "idle"
    BY <1>2 DEF CloseCancel, At
  <2>2. DOMAIN user' = Goroutines /\ (\A x \in Goroutines : x # Closer => user'[x] = user[x])
        /\ DOMAIN user'[Closer] = {"pc", "id", "left"} /\ user'[Closer].left = user[Closer].left
    BY <1>1, <2>1
  <2>3. \A i \in Processes : Accounted(i)'
    BY <1>1, <2>1, <2>2 DEF ProcInv, Accounted
  <2>4. user'[Closer].left = {}
    BY <2>1, <2>2 DEF ProcInv
  <2>5. QED
    BY <1>1, <2>1, <2>2, <2>3, <2>4 DEF ProcInv
<1>3. CASE CloseCollect
  <2> DEFINE v == [user[Closer] EXCEPT !.pc = "close", !.left = procs]
  <2>1. user' = [user EXCEPT ![Closer] = v] /\ process' = process /\ user[Closer].pc = "collect"
        /\ user[Closer].left = {}
    BY <1>3 DEF CloseCollect, At, ProcInv
  <2>2. DOMAIN v = {"pc", "id", "left"} /\ v.pc = "close" /\ v.left = procs
    BY <1>1
  <2> HIDE DEF v
  <2>3. DOMAIN user' = Goroutines /\ (\A x \in Goroutines : x # Closer => user'[x] = user[x])
        /\ user'[Closer] = v
    BY <1>1, <2>1
  <2>4. \A i \in Processes : Accounted(i)'
    BY <1>1, <2>1, <2>2, <2>3 DEF ProcInv, Accounted
  <2>5. QED
    BY <1>1, <2>1, <2>2, <2>3, <2>4 DEF ProcInv
<1>4. CASE CloseKill
  <2>1. PICK i \in user[Closer].left :
           /\ process' = [process EXCEPT ![i] = IF process[i].cmd THEN KillTree(process[i]) ELSE process[i]]
           /\ user' = [user EXCEPT ![Closer].left = user[Closer].left \ {i}]
    BY <1>4, <1>1 DEF CloseKill
  <2>2. user[Closer].pc = "close" /\ procs' = procs
    BY <1>4 DEF CloseKill, At
  <2>3. DOMAIN user' = Goroutines /\ (\A x \in Goroutines : x # Closer => user'[x] = user[x])
        /\ DOMAIN user'[Closer] = {"pc", "id", "left"}
        /\ user'[Closer].left = user[Closer].left \ {i} /\ user'[Closer].pc = "close"
    BY <1>1, <2>1, <2>2
  <2> DEFINE killed(q) == IF q.cmd THEN KillTree(q) ELSE q
  <2>4. \A q : ClearedIsOver(q) => ClearedIsOver(killed(q)) /\ killed(q).waiter = q.waiter
                 /\ (killed(q).signalled \/ q.waiter = "finished")
    BY DEF ClearedIsOver, ProcessFields, KillTree
  <2>5. process' = [process EXCEPT ![i] = killed(process[i])]
    BY <2>1
  <2> HIDE DEF killed
  <2>6. ASSUME NEW k \in Processes
        PROVE  ClearedIsOver(process'[k]) /\ Accounted(k)'
    <3>1. CASE k = i
      <4>1. process'[k] = killed(process[k]) /\ ClearedIsOver(process[k])
        BY <1>1, <2>5, <3>1 DEF ProcInv
      <4>2. QED
        BY <2>4, <4>1 DEF Accounted
    <3>2. CASE k # i
      BY <1>1, <2>2, <2>3, <2>5, <3>2 DEF ProcInv, Accounted
    <3>3. QED
      BY <3>1, <3>2
  <2>7. DOMAIN process' = Processes
    BY <1>1, <2>5
  <2>8. QED
    BY <1>1, <2>3, <2>6, <2>7 DEF ProcInv
<1>5. CASE CloseReturns
  <2>1. user' = [user EXCEPT ![Closer] = NotInUse] /\ process' = process /\ procs' = procs
        /\ user[Closer].left = {}
    BY <1>5 DEF CloseReturns
  <2>2. DOMAIN NotInUse = {"pc", "id", "left"} /\ NotInUse.left = {}
    BY DEF NotInUse
  <2>3. DOMAIN user' = Goroutines /\ (\A x \in Goroutines : x # Closer => user'[x] = user[x])
        /\ user'[Closer] = NotInUse
    BY <1>1, <2>1
  <2>4. \A i \in Processes : Accounted(i)'
    BY <1>1, <2>1, <2>3 DEF ProcInv, Accounted
  <2>5. QED
    BY <1>1, <2>1, <2>2, <2>3, <2>4 DEF ProcInv
<1>6. QED
  BY <1>2, <1>3, <1>4, <1>5 DEF Close

\* A step that spawns nothing and lets no goroutine wait for a new process.
LEMMA SpawnsStand ==
    ASSUME SpawnInv, spawned' = spawned,
           \A i \in Processes : process[i].waiter = "none" => process'[i].waiter = "none",
           \A u \in Users : Spawning(u)' => Spawning(u) /\ user'[u].id = user[u].id
    PROVE  SpawnInv'
BY DEF SpawnInv

LEMMA SpawnNextHolds ==
    ASSUME ProcInv, SpawnInv, [ProcNext]_procVars
    PROVE  SpawnInv'
<1>1. /\ DOMAIN process = Processes /\ \A i \in Processes : DOMAIN process[i] = ProcessFields
      /\ DOMAIN user = Goroutines /\ \A u \in Goroutines : DOMAIN user[u] = {"pc", "id", "left"}
      /\ Closer \in Goroutines /\ Closer \notin Users /\ Users \subseteq Goroutines
  BY ProcessAssumption DEF ProcInv, ClearedIsOver, Goroutines
<1>2. CASE UNCHANGED procVars
  BY <1>2, SpawnsStand DEF procVars, Spawning
<1>3. ASSUME NEW i \in Processes,
             Wait(i) \/ ShellExits(i) \/ ChildExits(i) \/ ContextKills(i)
      PROVE  SpawnInv'
  <2>1. spawned' = spawned /\ user' = user
    BY <1>3 DEF Wait, WaitBegin, WaitReturns, WaitRecords, ShellExits, ChildExits, ContextKills
  <2>2. \A k \in Processes : process[k].waiter = "none" => process'[k].waiter = "none"
    <3>1. CASE WaitBegin(i)
      BY <1>1, <3>1 DEF WaitBegin, ProcessFields
    <3>2. CASE WaitReturns(i)
      BY <1>1, <3>2 DEF WaitReturns, ProcessFields
    <3>3. CASE WaitRecords(i)
      BY <1>1, <3>3 DEF WaitRecords, ProcessFields
    <3>4. CASE ShellExits(i) \/ ContextKills(i)
      BY <1>1, <3>4 DEF ShellExits, ContextKills, ProcessFields
    <3>5. CASE ChildExits(i)
      BY <1>1, <3>5 DEF ChildExits, ProcessFields
    <3>6. QED
      BY <1>3, <3>1, <3>2, <3>3, <3>4, <3>5 DEF Wait
  <2>3. QED
    BY <2>1, <2>2, SpawnsStand DEF Spawning
<1>4. ASSUME NEW u \in Users, SpawnNumber(u)
      PROVE  SpawnInv'
  <2> DEFINE v == [NotInUse EXCEPT !.pc = "start", !.id = spawned + 1]
  <2>1. user' = [user EXCEPT ![u] = v] /\ process' = process /\ spawned' = spawned + 1
    BY <1>4 DEF SpawnNumber
  <2>2. v.pc = "start" /\ v.id = spawned + 1
    BY DEF NotInUse
  <2> HIDE DEF v
  <2>3. user'[u] = v /\ \A x \in Users : x # u => user'[x] = user[x]
    BY <1>1, <2>1
  <2>4. spawned \in Nat /\ spawned + 1 \in 1 .. spawned' /\ 1 .. spawned \subseteq 1 .. spawned'
        /\ \A k \in 1 .. spawned : k # spawned + 1
    BY <2>1 DEF SpawnInv
  <2>5. ASSUME NEW x \in Users, Spawning(x)'
        PROVE  /\ user'[x].id \in 1 .. spawned'
               /\ user'[x].id \in Processes => process'[user'[x].id].waiter = "none"
               /\ \A w \in Users : w # x /\ Spawning(w)' => user'[w].id # user'[x].id
    <3>1. CASE x = u
      <4>1. user'[x].id = spawned + 1
        BY <2>2, <2>3, <3>1
      <4>2. spawned + 1 \in Processes => process'[spawned + 1].waiter = "none"
        BY <2>1, <2>4 DEF SpawnInv, Processes
      <4>3. \A w \in Users : w # x /\ Spawning(w)' => user'[w].id \in 1 .. spawned
        BY <2>3, <3>1 DEF SpawnInv, Spawning
      <4>4. QED
        BY <2>4, <4>1, <4>2, <4>3
    <3>2. CASE x # u
      <4>1. user'[x] = user[x] /\ Spawning(x)
        BY <2>3, <2>5, <3>2 DEF Spawning
      <4>2. user[x].id \in 1 .. spawned
            /\ (user[x].id \in Processes => process[user[x].id].waiter = "none")
        BY <4>1 DEF SpawnInv
      <4>3. \A w \in Users : w # x /\ Spawning(w)' => user'[w].id # user'[x].id
        <5> SUFFICES ASSUME NEW w \in Users, w # x, Spawning(w)' PROVE user'[w].id # user'[x].id
          OBVIOUS
        <5>1. CASE w = u
          BY <2>2, <2>3, <2>4, <4>1, <4>2, <5>1
        <5>2. CASE w # u
          BY <2>3, <4>1, <5>2 DEF SpawnInv, Spawning
        <5>3. QED
          BY <5>1, <5>2
      <4>4. QED
        BY <2>1, <2>4, <4>1, <4>2, <4>3
    <3>3. QED
      BY <3>1, <3>2
  <2>6. \A k \in Processes : k > spawned' => process'[k].waiter = "none"
    BY <2>1, <2>4 DEF SpawnInv, Processes
  <2>7. QED
    BY <2>1, <2>4, <2>5, <2>6 DEF SpawnInv
<1>5. ASSUME NEW u \in Users, SpawnStart(u)
      PROVE  SpawnInv'
  <2>1. spawned' = spawned /\ user[u].pc = "start"
    BY <1>5 DEF SpawnStart, At
  <2>2. \A k \in Processes : process'[k].waiter = process[k].waiter
    BY <1>1, <1>5 DEF SpawnStart, ProcessFields
  <2>3. user' = [user EXCEPT ![u] = NotInUse] \/ user' = [user EXCEPT ![u].pc = "register"]
    BY <1>5 DEF SpawnStart
  <2>4. \A x \in Users : Spawning(x)' => Spawning(x) /\ user'[x].id = user[x].id
    <3>1. NotInUse.pc = "idle"
      BY DEF NotInUse
    <3>2. CASE user' = [user EXCEPT ![u] = NotInUse]
      BY <1>1, <3>1, <3>2 DEF Spawning
    <3>3. CASE user' = [user EXCEPT ![u].pc = "register"]
      BY <1>1, <2>1, <3>3 DEF Spawning
    <3>4. QED
      BY <2>3, <3>2, <3>3
  <2>5. QED
    BY <2>1, <2>2, <2>4, SpawnsStand
<1>6. ASSUME NEW u \in Users, SpawnRegister(u)
      PROVE  SpawnInv'
  <2> DEFINE i == user[u].id
  <2>1. /\ spawned' = spawned /\ user[u].pc = "register"
        /\ process' = [process EXCEPT ![i].waiter = "created"]
        /\ user' = [user EXCEPT ![u] = NotInUse]
    BY <1>6 DEF SpawnRegister, At
  <2>2. NotInUse.pc = "idle"
    BY DEF NotInUse
  <2>3. user'[u] = NotInUse /\ \A x \in Users : x # u => user'[x] = user[x]
    BY <1>1, <2>1
  <2>4. \A k \in Processes : k # i => process'[k].waiter = process[k].waiter
    BY <1>1, <2>1 DEF ProcessFields
  <2>5. \A x \in Users : Spawning(x)' =>
           x # u /\ Spawning(x) /\ user'[x] = user[x] /\ user[x].id # i
    BY <2>1, <2>2, <2>3 DEF Spawning, SpawnInv
  <2>6. i \in 1 .. spawned
    BY <2>1 DEF SpawnInv, Spawning
  <2>7. \A k \in Processes : k > spawned' => process'[k].waiter = "none"
    BY <2>1, <2>4, <2>6 DEF SpawnInv, Processes
  <2>8. QED
    BY <2>1, <2>4, <2>5, <2>7 DEF SpawnInv
<1>7. ASSUME NEW u \in Users, KillLookup(u) \/ KillProcess(u)
      PROVE  SpawnInv'
  <2>1. \E v : user' = [user EXCEPT ![u] = v] /\ v.pc \notin {"start", "register"}
    <3>1. NotInUse.pc = "idle" /\ \A k : [NotInUse EXCEPT !.pc = "kill", !.id = k].pc = "kill"
      BY DEF NotInUse
    <3>2. CASE KillLookup(u)
      <4>1. PICK k \in procs : user' = [user EXCEPT ![u] = [NotInUse EXCEPT !.pc = "kill", !.id = k]]
        BY <3>2 DEF KillLookup
      <4>2. QED
        BY <3>1, <4>1
    <3>3. CASE KillProcess(u)
      BY <3>1, <3>3 DEF KillProcess
    <3>4. QED
      BY <1>7, <3>2, <3>3
  <2>2. \A x \in Users : Spawning(x)' => Spawning(x) /\ user'[x].id = user[x].id
    BY <1>1, <2>1 DEF Spawning
  <2>3. \A k \in Processes : process'[k].waiter = process[k].waiter
    <3>1. CASE KillLookup(u)
      BY <3>1 DEF KillLookup
    <3>2. CASE KillProcess(u)
      <4> DEFINE killed(q) == [IF q.cmd THEN KillTree(q) ELSE q EXCEPT !.status = "killed", !.cmd = FALSE]
      <4>1. process' = [process EXCEPT ![user[u].id] = killed(process[user[u].id])]
        BY <3>2 DEF KillProcess
      <4>2. \A q : DOMAIN q = ProcessFields => killed(q).waiter = q.waiter
        BY DEF ProcessFields, KillTree
      <4> HIDE DEF killed
      <4>3. QED
        BY <1>1, <4>1, <4>2
    <3>3. QED
      BY <1>7, <3>1, <3>2
  <2>4. spawned' = spawned
    BY <1>7 DEF KillLookup, KillProcess
  <2>5. QED
    BY <2>2, <2>3, <2>4, SpawnsStand
<1>8. ASSUME CloseCancel \/ Close
      PROVE  SpawnInv'
  <2>1. spawned' = spawned
    BY <1>8 DEF CloseCancel, Close, CloseCollect, CloseKill, CloseReturns
  <2>2. \A x \in Users : user'[x] = user[x]
    BY <1>1, <1>8 DEF CloseCancel, Close, CloseCollect, CloseKill, CloseReturns
  <2>3. \A k \in Processes : process'[k].waiter = process[k].waiter
    <3>1. CASE CloseKill
      <4>1. PICK i \in user[Closer].left : process' =
               [process EXCEPT ![i] = IF process[i].cmd THEN KillTree(process[i]) ELSE process[i]]
        BY <3>1 DEF CloseKill
      <4>2. \A q : DOMAIN q = ProcessFields => KillTree(q).waiter = q.waiter
        BY DEF ProcessFields, KillTree
      <4>3. QED
        BY <1>1, <4>1, <4>2
    <3>2. CASE ~CloseKill
      BY <1>8, <3>2 DEF CloseCancel, Close, CloseCollect, CloseReturns
    <3>3. QED
      BY <3>1, <3>2
  <2>4. QED
    BY <2>1, <2>2, <2>3, SpawnsStand DEF Spawning
<1>9. QED
  BY <1>2, <1>3, <1>4, <1>5, <1>6, <1>7, <1>8 DEF ProcNext, Spawn

LEMMA ProcNextHolds == ProcInv /\ SpawnInv /\ [ProcNext]_procVars => ProcInv'
<1> SUFFICES ASSUME ProcInv, SpawnInv, [ProcNext]_procVars PROVE ProcInv'
  OBVIOUS
<1>1. CASE UNCHANGED procVars
  BY <1>1 DEF procVars, ProcInv, ClearedIsOver, Accounted
<1>2. CASE ProcNext
  BY <1>2, ProcessStepKeeps, UserStepKeeps, CloseStepKeeps DEF ProcNext
<1>3. QED
  BY <1>1, <1>2

LEMMA ProcInvImplies == ProcInv => ProcessesAccountedFor
BY DEF ProcInv, ProcessesAccountedFor, Accounted

-----------------------------------------------------------------------------
\* The MCP client

TransportFields == {"stdin", "server", "pipe", "read", "output", "reader", "pending",
                    "channel", "writer", "stage", "nextID"}
CloseStages == {"unopened", "open", "input closed", "killed", "waiting", "closed"}

\* The table of a client: what is in it was numbered and has an empty channel,
\* and so has every number to come.
TableSound(t) ==
    /\ DOMAIN t = TransportFields /\ DOMAIN t.channel = Ids
    /\ t.nextID \in Nat /\ t.pending \subseteq Ids
    /\ \A i \in t.pending : i <= t.nextID /\ t.channel[i] = "empty"
    /\ \A i \in Ids : i > t.nextID => t.channel[i] = "empty"

\* The clients of a list, and those with a server.
Listed(list) == {list[i] : i \in DOMAIN list}
WithServer == {c \in Clients : transport[c].stage \notin {"unopened", "closed"}}

\* A list of clients that have been opened.
OpenedOnly(list) == list \in Seq(Clients) /\ \A c \in Listed(list) : c <= opened

Connecting == {"open", "initialize", "notify", "list"}

\* Where Connect and Close are, and which clients have a server meanwhile.
MainInv ==
    /\ DOMAIN main = {"pc", "clients", "queue"} /\ DOMAIN manager = {"connected", "clients", "tools"}
    /\ main.pc \in Connecting \cup {"idle", "undo", "register", "close"}
    /\ OpenedOnly(main.clients) /\ OpenedOnly(main.queue) /\ OpenedOnly(manager.clients)
    /\ manager.connected \in BOOLEAN
    /\ ~manager.connected => manager.clients = <<>>
    /\ main.pc \in {"idle", "register"} => WithServer = Listed(manager.clients)
    /\ main.pc = "register" => manager.connected
    /\ main.pc \in Connecting =>
          /\ WithServer = Listed(main.clients) /\ ~manager.connected
          /\ opened + Servers - Len(main.clients) <= MaxClients
          /\ IF main.pc = "open" THEN Len(main.clients) < Servers ELSE main.clients # <<>>
          /\ Len(main.clients) <= Servers
    /\ main.pc = "undo" => ~manager.connected
    /\ main.pc \in {"undo", "close"} => WithServer \subseteq Listed(main.queue)

McpInv ==
    /\ DOMAIN transport = Clients /\ opened \in 0 .. MaxClients
    /\ \A c \in Clients :
          /\ TableSound(transport[c]) /\ transport[c].stage \in CloseStages
          /\ transport[c].stage = "unopened" <=> c > opened
    /\ MainInv

-----------------------------------------------------------------------------
\* Lists of clients

LEMMA ListedEmpty == Listed(<<>>) = {}
BY DEF Listed

LEMMA ListedAppend ==
    ASSUME NEW list \in Seq(Clients), NEW c \in Clients
    PROVE  /\ Append(list, c) \in Seq(Clients) /\ Listed(Append(list, c)) = Listed(list) \cup {c}
           /\ Len(Append(list, c)) = Len(list) + 1 /\ Append(list, c) # <<>>
<1> DEFINE longer == Append(list, c)
<1>1. longer \in Seq(Clients) /\ Len(longer) = Len(list) + 1 /\ Len(list) \in Nat
      /\ (\A i \in 1 .. Len(list) : longer[i] = list[i]) /\ longer[Len(list) + 1] = c
      /\ DOMAIN longer = 1 .. Len(list) + 1 /\ DOMAIN list = 1 .. Len(list)
  OBVIOUS
<1> HIDE DEF longer
<1>2. \A x \in Listed(longer) : x \in Listed(list) \cup {c}
  BY <1>1 DEF Listed
<1>3. \A x \in Listed(list) \cup {c} : x \in Listed(longer)
  BY <1>1 DEF Listed
<1>4. longer # <<>>
  BY <1>1
<1>5. QED
  BY <1>1, <1>2, <1>3, <1>4 DEF longer

LEMMA ListedHead ==
    ASSUME NEW list \in Seq(Clients), list # <<>>
    PROVE  /\ Head(list) \in Listed(list) /\ Tail(list) \in Seq(Clients)
           /\ Listed(Tail(list)) \subseteq Listed(list)
           /\ \A c \in Listed(list) : c # Head(list) => c \in Listed(Tail(list))
<1>1. /\ Tail(list) \in Seq(Clients) /\ Len(list) \in Nat /\ Len(list) >= 1
      /\ DOMAIN list = 1 .. Len(list) /\ DOMAIN Tail(list) = 1 .. Len(list) - 1
      /\ Head(list) = list[1] /\ \A i \in 1 .. Len(list) - 1 : Tail(list)[i] = list[i + 1]
  OBVIOUS
<1>2. Head(list) \in Listed(list)
  BY <1>1 DEF Listed
<1>3. Listed(Tail(list)) \subseteq Listed(list)
  BY <1>1 DEF Listed
<1>4. ASSUME NEW c \in Listed(list), c # Head(list)
      PROVE  c \in Listed(Tail(list))
  <2>1. PICK i \in 1 .. Len(list) : c = list[i]
    BY <1>1 DEF Listed
  <2>2. i - 1 \in 1 .. Len(list) - 1 /\ Tail(list)[i - 1] = c
    BY <1>1, <1>4, <2>1
  <2>3. QED
    BY <1>1, <2>2 DEF Listed
<1>5. QED
  BY <1>1, <1>2, <1>3, <1>4

\* The order in which a failed Connect closes its clients loses none of them.
LEMMA ListedCurrentFirst ==
    ASSUME NEW list \in Seq(Clients), list # <<>>
    PROVE  LET order == <<list[Len(list)]>> \o SubSeq(list, 1, Len(list) - 1)
           IN  order \in Seq(Clients) /\ Listed(order) = Listed(list)
<1> DEFINE n == Len(list)
           order == <<list[n]>> \o SubSeq(list, 1, n - 1)
<1>1. n \in Nat /\ n >= 1 /\ DOMAIN list = 1 .. n /\ list[n] \in Clients
  OBVIOUS
<1>2. SubSeq(list, 1, n - 1) \in Seq(Clients) /\ Len(SubSeq(list, 1, n - 1)) = n - 1
      /\ \A i \in 1 .. n - 1 : SubSeq(list, 1, n - 1)[i] = list[i]
  BY <1>1
<1>3. <<list[n]>> \in Seq(Clients) /\ Len(<<list[n]>>) = 1 /\ <<list[n]>>[1] = list[n]
  BY <1>1
<1>4. order \in Seq(Clients) /\ DOMAIN order = 1 .. n /\ order[1] = list[n]
      /\ \A i \in 2 .. n : order[i] = list[i - 1]
  BY <1>1, <1>2, <1>3
<1> HIDE DEF n, order
<1>5. \A c \in Listed(order) : c \in Listed(list)
  <2> SUFFICES ASSUME NEW i \in 1 .. n PROVE order[i] \in Listed(list)
    BY <1>4 DEF Listed
  <2>1. CASE i = 1
    BY <1>1, <1>4, <2>1 DEF Listed
  <2>2. CASE i # 1
    <3>1. i \in 2 .. n /\ i - 1 \in 1 .. n
      BY <1>1, <2>2
    <3>2. QED
      BY <1>1, <1>4, <3>1 DEF Listed
  <2>3. QED
    BY <2>1, <2>2
<1>6. \A c \in Listed(list) : c \in Listed(order)
  <2> SUFFICES ASSUME NEW i \in 1 .. n PROVE list[i] \in Listed(order)
    BY <1>1 DEF Listed
  <2>1. CASE i = n
    <3>1. 1 \in 1 .. n /\ order[1] = list[i]
      BY <1>1, <1>4, <2>1
    <3>2. QED
      BY <1>4, <3>1 DEF Listed
  <2>2. CASE i # n
    <3>1. i + 1 \in 2 .. n /\ i + 1 \in 1 .. n /\ (i + 1) - 1 = i
      BY <1>1, <2>2
    <3>2. order[i + 1] = list[i]
      BY <1>4, <3>1
    <3>3. QED
      BY <1>4, <3>1, <3>2 DEF Listed
  <2>3. QED
    BY <2>1, <2>2
<1>7. QED
  BY <1>4, <1>5, <1>6 DEF order, n

-----------------------------------------------------------------------------
\* What the steps of a transport do to its table

\* The same table and stage, whatever else differs.
SameTable(t, u) ==
    /\ DOMAIN u = TransportFields
    /\ u.nextID = t.nextID /\ u.pending = t.pending /\ u.channel = t.channel /\ u.stage = t.stage

LEMMA SameTableSound ==
    ASSUME NEW t, NEW u, TableSound(t), SameTable(t, u)
    PROVE  TableSound(u) /\ u.stage = t.stage
BY DEF TableSound, SameTable

LEMMA UnregisterSound ==
    ASSUME NEW t, NEW p, TableSound(t)
    PROVE  TableSound(Unregister(t, p)) /\ Unregister(t, p).stage = t.stage
<1> DEFINE u == Unregister(t, p)
           id == rpc[p].id
<1>1. DOMAIN t = TransportFields
  BY DEF TableSound
<1>2. /\ DOMAIN u = TransportFields /\ u.nextID = t.nextID /\ u.channel = t.channel
      /\ u.stage = t.stage /\ u.pending = t.pending \ {id}
  BY <1>1 DEF Unregister, TransportFields
<1> HIDE DEF u, id
<1>3. TableSound(u) /\ u.stage = t.stage
  BY <1>2 DEF TableSound
<1>4. QED
  BY <1>3 DEF u

LEMMA RegisterSound ==
    ASSUME NEW t, NEW u, TableSound(t), t.nextID + 1 \in Ids, DOMAIN u = TransportFields,
           u.nextID = t.nextID + 1, u.pending = t.pending \cup {t.nextID + 1},
           u.channel = t.channel, u.stage = t.stage
    PROVE  TableSound(u)
<1>1. t.nextID \in Nat /\ t.nextID + 1 > t.nextID /\ t.channel[t.nextID + 1] = "empty"
  BY DEF TableSound, Ids
<1>2. \A i \in u.pending : i \in Ids /\ i <= u.nextID /\ u.channel[i] = "empty"
  BY <1>1 DEF TableSound, Ids
<1>3. \A i \in Ids : i > u.nextID => i > t.nextID
  BY <1>1 DEF Ids
<1>4. QED
  BY <1>1, <1>2, <1>3 DEF TableSound

LEMMA FailPendingSound ==
    ASSUME NEW t, TableSound(t)
    PROVE  TableSound(FailPending(t)) /\ FailPending(t).stage = t.stage
<1> DEFINE u == FailPending(t)
           chan == [i \in Ids |-> IF i \in t.pending THEN "failed" ELSE t.channel[i]]
<1>1. DOMAIN t = TransportFields
  BY DEF TableSound
<1>2. /\ DOMAIN u = TransportFields /\ u.nextID = t.nextID /\ u.channel = chan
      /\ u.stage = t.stage /\ u.pending = {}
  BY <1>1 DEF FailPending, TransportFields
<1>3. DOMAIN chan = Ids /\ \A i \in Ids : i \notin t.pending => chan[i] = t.channel[i]
  OBVIOUS
<1> HIDE DEF u, chan
<1>4. \A i \in Ids : i > t.nextID => i \notin t.pending
  BY DEF TableSound, Ids
<1>5. TableSound(u) /\ u.stage = t.stage
  BY <1>2, <1>3, <1>4 DEF TableSound
<1>6. QED
  BY <1>5 DEF u

LEMMA DeliverSound ==
    ASSUME NEW t, NEW id, TableSound(t)
    PROVE  TableSound(Deliver(t, id)) /\ Deliver(t, id).stage = t.stage
<1> DEFINE u == [t EXCEPT !.pending = t.pending \ {id}, !.channel[id] = "response"]
<1>1. CASE id \notin t.pending
  BY <1>1 DEF Deliver
<1>2. CASE id \in t.pending
  <2>1. Deliver(t, id) = u /\ DOMAIN t = TransportFields /\ id \in Ids
    BY <1>2 DEF Deliver, TableSound
  <2>2. /\ DOMAIN u = TransportFields /\ u.nextID = t.nextID
        /\ u.channel = [t.channel EXCEPT ![id] = "response"]
        /\ u.stage = t.stage /\ u.pending = t.pending \ {id}
    BY <2>1 DEF TransportFields
  <2> HIDE DEF u
  <2>3. \A i \in Ids : i > t.nextID => i # id
    BY <1>2 DEF TableSound, Ids
  <2>4. TableSound(u)
    BY <2>1, <2>2, <2>3 DEF TableSound
  <2>5. QED
    BY <2>1, <2>2, <2>4
<1>3. QED
  BY <1>1, <1>2

LEMMA DeadSame ==
    ASSUME NEW t, TableSound(t)
    PROVE  SameTable(t, Dead(t))
BY DEF TableSound, SameTable, Dead, TransportFields

-----------------------------------------------------------------------------
\* Steps in which one transport moves and nothing is opened or closed

\* The stages decide which clients have a server.
LEMMA SameServers ==
    ASSUME \A c \in Clients : transport'[c].stage = transport[c].stage
    PROVE  WithServer' = WithServer
BY DEF WithServer

LEMMA OneTransportMoves ==
    ASSUME McpInv, NEW c, NEW t, transport' = [transport EXCEPT ![c] = t],
           c \in Clients => TableSound(t) /\ t.stage = transport[c].stage,
           UNCHANGED <<manager, main, opened>>
    PROVE  McpInv'
<1>1. DOMAIN transport' = Clients
  BY DEF McpInv
<1>2. \A d \in Clients : TableSound(transport'[d]) /\ transport'[d].stage = transport[d].stage
  <2> SUFFICES ASSUME NEW d \in Clients
               PROVE  TableSound(transport'[d]) /\ transport'[d].stage = transport[d].stage
    OBVIOUS
  <2>1. CASE d = c
    BY <2>1 DEF McpInv
  <2>2. CASE d # c
    BY <2>2 DEF McpInv
  <2>3. QED
    BY <2>1, <2>2
<1>3. WithServer' = WithServer
  BY <1>2, SameServers
<1>4. MainInv'
  BY <1>3 DEF McpInv, MainInv, OpenedOnly
<1>5. QED
  BY <1>1, <1>2, <1>4 DEF McpInv

LEMMA SendRequestKeeps ==
    ASSUME McpInv, NEW p \in Procs, SendRequest(p)
    PROVE  McpInv'
<1> DEFINE c == rpc[p].client
<1>1. c \in Clients => TableSound(transport[c]) /\ DOMAIN transport[c] = TransportFields
  BY DEF McpInv, TableSound
<1>2. UNCHANGED <<manager, main, opened>>
  BY DEF SendRequest, CheckContext, LockWriter, WriteRequest, Await
<1>3. ASSUME NEW answered, Return(p, answered)
      PROVE  McpInv'
  <2>1. transport' = [transport EXCEPT ![c] = Unregister(transport[c], p)]
    BY <1>3 DEF Return
  <2>2. QED
    BY <1>1, <1>2, <2>1, UnregisterSound, OneTransportMoves
<1>4. ASSUME transport' = [transport EXCEPT ![c].writer = p]
      PROVE  McpInv'
  <2> DEFINE t == [transport[c] EXCEPT !.writer = p]
  <2>1. transport' = [transport EXCEPT ![c] = t]
    BY <1>4
  <2>2. c \in Clients => SameTable(transport[c], t)
    BY <1>1 DEF SameTable, TransportFields
  <2> HIDE DEF t
  <2>3. QED
    BY <1>1, <1>2, <2>1, <2>2, SameTableSound, OneTransportMoves
<1>5. ASSUME transport' = [transport EXCEPT ![c].pipe = Append(@, rpc[p].id), ![c].writer = NoRequest]
      PROVE  McpInv'
  <2> DEFINE t == [transport[c] EXCEPT !.pipe = Append(transport[c].pipe, rpc[p].id),
                                       !.writer = NoRequest]
  <2>1. transport' = [transport EXCEPT ![c] = t]
    BY <1>5, <1>1 DEF McpInv, TransportFields
  <2>2. c \in Clients => SameTable(transport[c], t)
    BY <1>1 DEF SameTable, TransportFields
  <2> HIDE DEF t
  <2>3. QED
    BY <1>1, <1>2, <2>1, <2>2, SameTableSound, OneTransportMoves
<1>6. ASSUME UNCHANGED transport
      PROVE  McpInv'
  BY <1>2, <1>6 DEF McpInv, MainInv, OpenedOnly, TableSound, WithServer
<1>7. QED
  BY <1>3, <1>4, <1>5, <1>6 DEF SendRequest, CheckContext, LockWriter, WriteRequest, Await

LEMMA CallToolKeeps ==
    ASSUME McpInv, NEW p \in Procs, CallTool(p)
    PROVE  McpInv'
<1>1. PICK c \in manager.tools : Register(p, c)
  BY DEF CallTool
<1> DEFINE id == transport[c].nextID + 1
           t == [transport[c] EXCEPT !.nextID = id, !.pending = transport[c].pending \cup {id}]
<1>2. id \in Ids /\ UNCHANGED <<manager, main, opened>>
      /\ transport' = [transport EXCEPT ![c].nextID = id, ![c].pending = @ \cup {id}]
  BY <1>1 DEF Register, CallTool
<1>3. c \in Clients => TableSound(transport[c]) /\ DOMAIN transport[c] = TransportFields
  BY DEF McpInv, TableSound
<1>4. transport' = [transport EXCEPT ![c] = t]
  BY <1>2, <1>3 DEF McpInv, TransportFields
<1>5. c \in Clients =>
         /\ DOMAIN t = TransportFields /\ t.nextID = id /\ t.pending = transport[c].pending \cup {id}
         /\ t.channel = transport[c].channel /\ t.stage = transport[c].stage
  BY <1>3 DEF TransportFields
<1> HIDE DEF t
<1>6. c \in Clients => TableSound(t)
  BY <1>2, <1>3, <1>5, RegisterSound
<1>7. QED
  BY <1>2, <1>4, <1>5, <1>6, OneTransportMoves

LEMMA ReaderKeeps ==
    ASSUME McpInv, NEW c \in Clients, Reader(c)
    PROVE  McpInv'
<1>1. TableSound(transport[c]) /\ DOMAIN transport = Clients
  BY DEF McpInv
<1>2. UNCHANGED <<manager, main, opened>>
  BY DEF Reader, ReadAnswer, ReadFails
<1>3. CASE ReadAnswer(c)
  <2> DEFINE u == Deliver(transport[c], Head(transport[c].output))
             t == [u EXCEPT !.output = Tail(transport[c].output)]
  <2>1. transport' = [transport EXCEPT ![c] = t]
    BY <1>3 DEF ReadAnswer
  <2>2. TableSound(u) /\ u.stage = transport[c].stage
    BY <1>1, DeliverSound
  <2> HIDE DEF u
  <2>3. SameTable(u, t)
    BY <2>2 DEF SameTable, TableSound, TransportFields
  <2> HIDE DEF t
  <2>4. QED
    BY <1>2, <2>1, <2>2, <2>3, SameTableSound, OneTransportMoves
<1>4. CASE ReadFails(c)
  <2> DEFINE u == FailPending(transport[c])
             t == [u EXCEPT !.reader = "done"]
  <2>1. transport' = [transport EXCEPT ![c] = t]
    BY <1>4, <1>1 DEF ReadFails
  <2>2. TableSound(u) /\ u.stage = transport[c].stage
    BY <1>1, FailPendingSound
  <2> HIDE DEF u
  <2>3. SameTable(u, t)
    BY <2>2 DEF SameTable, TableSound, TransportFields
  <2> HIDE DEF t
  <2>4. QED
    BY <1>2, <2>1, <2>2, <2>3, SameTableSound, OneTransportMoves
<1>5. QED
  BY <1>3, <1>4 DEF Reader

LEMMA ServerStepKeeps ==
    ASSUME McpInv, NEW c \in Clients, ServerStep(c)
    PROVE  McpInv'
<1>1. TableSound(transport[c]) /\ DOMAIN transport = Clients
      /\ DOMAIN transport[c] = TransportFields
  BY DEF McpInv, TableSound
<1>2. UNCHANGED <<manager, main, opened>>
  BY DEF ServerStep
<1>3. \E t : SameTable(transport[c], t) /\ transport' = [transport EXCEPT ![c] = t]
  <2>1. CASE transport' = [transport EXCEPT ![c].read = @ \cup {Head(transport[c].pipe)},
                                            ![c].pipe = Tail(@)]
    <3> DEFINE t == [transport[c] EXCEPT
                        !.read = transport[c].read \cup {Head(transport[c].pipe)},
                        !.pipe = Tail(transport[c].pipe)]
    <3>1. SameTable(transport[c], t)
      BY <1>1 DEF SameTable, TransportFields
    <3>2. transport' = [transport EXCEPT ![c] = t]
      BY <1>1, <2>1 DEF TransportFields
    <3>3. QED
      BY <3>1, <3>2
  <2>2. ASSUME NEW id, transport' = [transport EXCEPT ![c].output = Append(@, id)]
        PROVE  \E t : SameTable(transport[c], t) /\ transport' = [transport EXCEPT ![c] = t]
    <3> DEFINE t == [transport[c] EXCEPT !.output = Append(transport[c].output, id)]
    <3>1. SameTable(transport[c], t)
      BY <1>1 DEF SameTable, TransportFields
    <3>2. transport' = [transport EXCEPT ![c] = t]
      BY <2>2
    <3>3. QED
      BY <3>1, <3>2
  <2>3. CASE transport' = [transport EXCEPT ![c].server = "mute"]
    <3> DEFINE t == [transport[c] EXCEPT !.server = "mute"]
    <3>1. SameTable(transport[c], t)
      BY <1>1 DEF SameTable, TransportFields
    <3>2. transport' = [transport EXCEPT ![c] = t]
      BY <2>3
    <3>3. QED
      BY <3>1, <3>2
  <2>4. CASE transport' = [transport EXCEPT ![c] = Dead(transport[c])]
    BY <1>1, <2>4, DeadSame
  <2>5. QED
    BY <2>1, <2>2, <2>3, <2>4 DEF ServerStep
<1>4. QED
  BY <1>1, <1>2, <1>3, SameTableSound, OneTransportMoves

-----------------------------------------------------------------------------
\* Connect and Close

\* A step that leaves the transports and the number of clients alone.
LEMMA OnlyMainMoves ==
    ASSUME McpInv, UNCHANGED <<opened, transport>>, MainInv'
    PROVE  McpInv'
BY DEF McpInv

LEMMA ServersStand ==
    ASSUME UNCHANGED transport
    PROVE  WithServer' = WithServer
BY DEF WithServer

LEMMA OpenedIsKept ==
    ASSUME McpInv
    PROVE  \A list \in {main.clients, main.queue, manager.clients, Opened} :
              main.pc \in Connecting => OpenedOnly(list)
<1>1. OpenedOnly(main.clients) /\ OpenedOnly(main.queue) /\ OpenedOnly(manager.clients)
  BY DEF McpInv, MainInv
<1>2. ASSUME main.pc \in {"initialize", "notify"} PROVE OpenedOnly(Opened)
  <2>1. main.clients # <<>> /\ main.clients \in Seq(Clients)
    BY <1>1, <1>2 DEF McpInv, MainInv, Connecting, OpenedOnly
  <2>2. Opened \in Seq(Clients) /\ Listed(Opened) = Listed(main.clients)
    BY <1>2, <2>1, ListedCurrentFirst DEF Opened, Current
  <2>3. QED
    BY <1>1, <2>2 DEF OpenedOnly
<1>3. QED
  BY <1>1, <1>2 DEF Opened

\* What a failed Connect closes is everything it has opened.
LEMMA OpenedIsAll ==
    ASSUME McpInv, main.pc \in Connecting
    PROVE  Listed(Opened) = WithServer /\ OpenedOnly(Opened)
<1>1. WithServer = Listed(main.clients) /\ OpenedOnly(Opened)
  BY OpenedIsKept DEF McpInv, MainInv
<1>2. ASSUME main.pc \in {"initialize", "notify"} PROVE Listed(Opened) = Listed(main.clients)
  <2>1. main.clients # <<>> /\ main.clients \in Seq(Clients)
    BY <1>2 DEF McpInv, MainInv, Connecting, OpenedOnly
  <2>2. QED
    BY <1>2, <2>1, ListedCurrentFirst DEF Opened, Current
<1>3. QED
  BY <1>1, <1>2 DEF Opened

LEMMA GiveUpKeeps ==
    ASSUME McpInv, main.pc \in Connecting, GiveUp, WithServer' = WithServer,
           UNCHANGED <<manager, opened>>
    PROVE  MainInv'
<1>1. /\ DOMAIN main' = {"pc", "clients", "queue"} /\ main'.pc = "undo"
      /\ main'.queue = Opened /\ main'.clients = main.clients
  BY DEF GiveUp, McpInv, MainInv
<1>2. Listed(Opened) = WithServer /\ OpenedOnly(Opened)
  BY OpenedIsAll
<1>3. QED
  BY <1>1, <1>2 DEF McpInv, MainInv, OpenedOnly, Connecting

LEMMA BeginConnectKeeps == McpInv /\ BeginConnect => McpInv'
<1> SUFFICES ASSUME McpInv, BeginConnect PROVE McpInv'
  OBVIOUS
<1>1. /\ main.pc = "idle" /\ ~manager.connected /\ opened + Servers <= MaxClients
      /\ UNCHANGED <<manager, opened, transport>>
      /\ main' = [main EXCEPT !.pc = "open", !.clients = <<>>]
  BY DEF BeginConnect
<1>2. /\ DOMAIN main' = {"pc", "clients", "queue"} /\ main'.pc = "open"
      /\ main'.clients = <<>> /\ main'.queue = main.queue
  BY <1>1 DEF McpInv, MainInv
<1>3. WithServer' = WithServer /\ WithServer = {} /\ manager.clients = <<>>
  BY <1>1, ServersStand, ListedEmpty DEF McpInv, MainInv
<1>4. Len(<<>>) = 0 /\ <<>> \in Seq(Clients) /\ Servers \in Nat \ {0} /\ opened \in Nat
      /\ MaxClients \in Nat
  BY McpAssumption DEF McpInv
<1>5. MainInv'
  BY <1>1, <1>2, <1>3, <1>4, ListedEmpty DEF McpInv, MainInv, OpenedOnly, Connecting
<1>6. QED
  BY <1>1, <1>5, OnlyMainMoves

LEMMA OpenClientKeeps == McpInv /\ OpenClient => McpInv'
<1> SUFFICES ASSUME McpInv, OpenClient PROVE McpInv'
  OBVIOUS
<1>1. main.pc = "open" /\ main.pc \in Connecting /\ manager' = manager
  BY DEF OpenClient, Connecting
<1>2. CASE GiveUp /\ UNCHANGED <<opened, transport, rpc>>
  BY <1>1, <1>2, GiveUpKeeps, ServersStand, OnlyMainMoves
<1>3. CASE opened' = opened + 1
  <2> DEFINE c == opened + 1
             t == [Unopened EXCEPT !.stdin = "open", !.server = "up", !.reader = "running",
                                   !.stage = "open", !.nextID = 1, !.pending = {1}]
  <2>0. opened \in Nat /\ opened + 1 # opened
    BY DEF McpInv
  <2>1. /\ transport' = [transport EXCEPT ![c] = t]
        /\ main' = [main EXCEPT !.pc = "initialize", !.clients = Append(main.clients, c)]
    BY <1>3, <2>0 DEF OpenClient, GiveUp
  <2>2. c \in Clients /\ opened \in Nat /\ MaxClients \in Nat /\ Servers \in Nat
        /\ Len(main.clients) < Servers /\ opened + Servers - Len(main.clients) <= MaxClients
        /\ Len(main.clients) \in Nat
    <3>1. Len(main.clients) < Servers /\ opened + Servers - Len(main.clients) <= MaxClients
          /\ main.clients \in Seq(Clients)
      BY <1>1 DEF McpInv, MainInv, OpenedOnly
    <3>2. Servers \in Nat /\ MaxClients \in Nat /\ opened \in Nat /\ Len(main.clients) \in Nat
      BY <3>1, McpAssumption DEF McpInv
    <3>3. QED
      BY <3>1, <3>2 DEF Clients
  <2>3. /\ DOMAIN Unopened = TransportFields /\ Unopened.channel = [i \in Ids |-> "empty"]
    BY DEF Unopened, TransportFields
  <2>4. /\ DOMAIN t = TransportFields /\ t.channel = [i \in Ids |-> "empty"]
        /\ t.nextID = 1 /\ t.pending = {1} /\ t.stage = "open"
    BY <2>3 DEF TransportFields
  <2> HIDE DEF t
  <2>5. TableSound(t)
    <3>1. 1 \in Ids
      BY McpAssumption DEF Ids
    <3>2. QED
      BY <2>4, <3>1 DEF TableSound, Ids
  <2>6. DOMAIN transport' = Clients /\ transport'[c] = t
        /\ \A d \in Clients : d # c => transport'[d] = transport[d]
    BY <2>1, <2>2 DEF McpInv
  <2>7. WithServer' = WithServer \cup {c}
    BY <2>2, <2>4, <2>6 DEF WithServer
  <2> DEFINE longer == Append(main.clients, c)
  <2>8. /\ longer \in Seq(Clients) /\ Listed(longer) = Listed(main.clients) \cup {c}
        /\ Len(longer) = Len(main.clients) + 1 /\ longer # <<>>
    <3>1. main.clients \in Seq(Clients)
      BY DEF McpInv, MainInv, OpenedOnly
    <3>2. QED
      BY <2>2, <3>1, ListedAppend
  <2>9. /\ DOMAIN main' = {"pc", "clients", "queue"} /\ main'.pc = "initialize"
        /\ main'.clients = longer /\ main'.queue = main.queue
    BY <2>1 DEF McpInv, MainInv
  <2> HIDE DEF longer
  <2>10. OpenedOnly(main.queue)' /\ OpenedOnly(manager.clients)' /\ OpenedOnly(main.clients)'
    <3>1. \A d \in Clients : d <= opened => d <= opened'
      BY <1>3, <2>2 DEF Clients
    <3>2. \A list : OpenedOnly(list) =>
             list \in Seq(Clients) /\ Listed(list) \subseteq Clients
             /\ \A d \in Listed(list) : d <= opened'
      <4>1. \A list \in Seq(Clients) : Listed(list) \subseteq Clients
        BY DEF Listed
      <4>2. QED
        BY <3>1, <4>1 DEF OpenedOnly
    <3>3. OpenedOnly(main.clients) /\ OpenedOnly(main.queue) /\ OpenedOnly(manager.clients)
      BY DEF McpInv, MainInv
    <3>4. \A d \in Listed(longer) : d <= opened'
      BY <1>3, <2>2, <2>8, <3>2, <3>3
    <3>5. QED
      BY <1>1, <2>8, <2>9, <3>2, <3>3, <3>4 DEF OpenedOnly
  <2>11. MainInv'
    <3>1. /\ WithServer' = Listed(main'.clients) /\ ~manager.connected
          /\ opened' + Servers - Len(main'.clients) <= MaxClients
          /\ main'.clients # <<>> /\ Len(main'.clients) <= Servers
      BY <1>1, <1>3, <2>2, <2>7, <2>8, <2>9 DEF McpInv, MainInv
    <3>2. QED
      BY <1>1, <2>9, <2>10, <3>1 DEF McpInv, MainInv, Connecting
  <2>12. \A d \in Clients : /\ TableSound(transport'[d]) /\ transport'[d].stage \in CloseStages
                            /\ transport'[d].stage = "unopened" <=> d > opened'
    <3> SUFFICES ASSUME NEW d \in Clients
                 PROVE  /\ TableSound(transport'[d]) /\ transport'[d].stage \in CloseStages
                        /\ transport'[d].stage = "unopened" <=> d > opened'
      OBVIOUS
    <3>1. CASE d = c
      <4>1. transport'[d] = t /\ opened' = d
        BY <1>3, <2>6, <3>1
      <4>2. t.stage \in CloseStages /\ t.stage # "unopened" /\ ~(d > d)
        BY <2>4 DEF CloseStages, Clients
      <4>3. QED
        BY <2>5, <4>1, <4>2
    <3>2. CASE d # c
      BY <1>3, <2>2, <2>6, <3>2 DEF McpInv, Clients
    <3>3. QED
      BY <3>1, <3>2
  <2>13. opened' \in 0 .. MaxClients
    BY <1>3, <2>2 DEF Clients
  <2>14. QED
    BY <2>6, <2>11, <2>12, <2>13 DEF McpInv
<1>4. QED
  BY <1>2, <1>3 DEF OpenClient

LEMMA InitializedKeeps == McpInv /\ Initialized => McpInv'
<1> SUFFICES ASSUME McpInv, Initialized PROVE McpInv'
  OBVIOUS
<1>1. /\ main.pc = "initialize" /\ main.pc \in Connecting
      /\ UNCHANGED <<manager, opened, transport>> /\ WithServer' = WithServer
  BY ServersStand DEF Initialized, Connecting
<1>2. CASE GiveUp
  BY <1>1, <1>2, GiveUpKeeps, OnlyMainMoves
<1>3. CASE main' = [main EXCEPT !.pc = "notify"]
  <2>1. /\ DOMAIN main' = {"pc", "clients", "queue"} /\ main'.pc = "notify"
        /\ main'.clients = main.clients /\ main'.queue = main.queue
    BY <1>3 DEF McpInv, MainInv
  <2>2. MainInv'
    BY <1>1, <2>1 DEF McpInv, MainInv, OpenedOnly, Connecting
  <2>3. QED
    BY <1>1, <2>2, OnlyMainMoves
<1>4. QED
  BY <1>2, <1>3 DEF Initialized

LEMMA NotifyInitializedKeeps == McpInv /\ NotifyInitialized => McpInv'
<1> SUFFICES ASSUME McpInv, NotifyInitialized PROVE McpInv'
  OBVIOUS
<1>1. /\ main.pc = "notify" /\ main.pc \in Connecting /\ UNCHANGED <<manager, opened>>
  BY DEF NotifyInitialized, Connecting
<1>2. CASE GiveUp /\ UNCHANGED <<transport, rpc>>
  BY <1>1, <1>2, GiveUpKeeps, ServersStand, OnlyMainMoves
<1>3. CASE main' = [main EXCEPT !.pc = "list"]
  <2> DEFINE c == Current
             id == transport[c].nextID + 1
             t == [transport[c] EXCEPT !.pipe = Append(transport[c].pipe, 0), !.nextID = id,
                                       !.pending = transport[c].pending \cup {id}]
  <2>1. /\ DOMAIN main' = {"pc", "clients", "queue"} /\ main'.pc = "list"
        /\ main'.clients = main.clients /\ main'.queue = main.queue
    BY <1>3 DEF McpInv, MainInv
  <2>2. id \in Ids /\ transport' = [transport EXCEPT ![c].pipe = Append(@, 0), ![c].nextID = id,
                                                     ![c].pending = @ \cup {id}]
    BY <1>1, <2>1 DEF NotifyInitialized, GiveUp, McpInv, MainInv
  <2>3. c \in Clients => TableSound(transport[c]) /\ DOMAIN transport[c] = TransportFields
    BY DEF McpInv, TableSound
  <2>4. transport' = [transport EXCEPT ![c] = t]
    BY <2>2, <2>3 DEF McpInv, TransportFields
  <2>5. c \in Clients =>
           /\ DOMAIN t = TransportFields /\ t.nextID = id
           /\ t.pending = transport[c].pending \cup {id}
           /\ t.channel = transport[c].channel /\ t.stage = transport[c].stage
    BY <2>3 DEF TransportFields
  <2> HIDE DEF t, c
  <2>6. c \in Clients => TableSound(t)
    BY <2>2, <2>3, <2>5, RegisterSound
  <2>7. DOMAIN transport' = Clients
        /\ \A d \in Clients : TableSound(transport'[d]) /\ transport'[d].stage = transport[d].stage
    <3>1. DOMAIN transport = Clients /\ \A d \in Clients : TableSound(transport[d])
      BY DEF McpInv
    <3>2. ASSUME NEW d \in Clients
          PROVE  TableSound(transport'[d]) /\ transport'[d].stage = transport[d].stage
      <4>1. CASE d = c
        BY <2>4, <2>5, <2>6, <3>1, <4>1
      <4>2. CASE d # c
        BY <2>4, <3>1, <4>2
      <4>3. QED
        BY <4>1, <4>2
    <3>3. QED
      BY <2>4, <3>1, <3>2
  <2>8. WithServer' = WithServer
    BY <2>7, SameServers
  <2>9. MainInv'
    BY <1>1, <2>1, <2>8 DEF McpInv, MainInv, OpenedOnly, Connecting
  <2>10. QED
    BY <1>1, <2>7, <2>9 DEF McpInv
<1>4. QED
  BY <1>2, <1>3 DEF NotifyInitialized

LEMMA ListToolsKeeps == McpInv /\ ListTools => McpInv'
<1> SUFFICES ASSUME McpInv, ListTools PROVE McpInv'
  OBVIOUS
<1>1. /\ main.pc = "list" /\ main.pc \in Connecting
      /\ UNCHANGED <<opened, transport>> /\ WithServer' = WithServer
  BY ServersStand DEF ListTools, Connecting
<1>2. CASE GiveUp /\ UNCHANGED manager
  BY <1>1, <1>2, GiveUpKeeps, OnlyMainMoves
<1>3. CASE Len(main.clients) < Servers /\ main' = [main EXCEPT !.pc = "open"] /\ UNCHANGED manager
  <2>1. /\ DOMAIN main' = {"pc", "clients", "queue"} /\ main'.pc = "open"
        /\ main'.clients = main.clients /\ main'.queue = main.queue
    BY <1>3 DEF McpInv, MainInv
  <2>2. MainInv'
    BY <1>1, <1>3, <2>1 DEF McpInv, MainInv, OpenedOnly, Connecting
  <2>3. QED
    BY <1>1, <2>2, OnlyMainMoves
<1>4. CASE /\ manager' = [manager EXCEPT !.connected = TRUE, !.clients = main.clients]
           /\ main' = [main EXCEPT !.pc = "register"]
  <2>1. /\ DOMAIN main' = {"pc", "clients", "queue"} /\ main'.pc = "register"
        /\ main'.clients = main.clients /\ main'.queue = main.queue
        /\ DOMAIN manager' = {"connected", "clients", "tools"} /\ manager'.connected = TRUE
        /\ manager'.clients = main.clients
    BY <1>4 DEF McpInv, MainInv
  <2>2. MainInv'
    BY <1>1, <2>1 DEF McpInv, MainInv, OpenedOnly, Connecting
  <2>3. QED
    BY <1>1, <2>2, OnlyMainMoves
<1>5. QED
  BY <1>2, <1>3, <1>4 DEF ListTools

LEMMA UndoneKeeps == McpInv /\ Undone => McpInv'
<1> SUFFICES ASSUME McpInv, Undone PROVE McpInv'
  OBVIOUS
<1>1. /\ main.pc = "undo" /\ main.queue = <<>> /\ UNCHANGED <<manager, opened, transport>>
      /\ WithServer' = WithServer
  BY ServersStand DEF Undone
<1>2. /\ DOMAIN main' = {"pc", "clients", "queue"} /\ main'.pc = "idle"
      /\ main'.clients = <<>> /\ main'.queue = main.queue
  BY DEF Undone, McpInv, MainInv
<1>3. WithServer = {} /\ manager.clients = <<>>
  BY <1>1, ListedEmpty DEF McpInv, MainInv
<1>4. OpenedOnly(<<>>)' /\ OpenedOnly(main.queue)' /\ OpenedOnly(manager.clients)'
  BY <1>1, <1>2, ListedEmpty DEF McpInv, MainInv, OpenedOnly
<1>5. MainInv'
  BY <1>1, <1>2, <1>3, <1>4, ListedEmpty DEF McpInv, MainInv, Connecting
<1>6. QED
  BY <1>1, <1>5, OnlyMainMoves

LEMMA RegisterToolsKeeps == McpInv /\ RegisterTools => McpInv'
<1> SUFFICES ASSUME McpInv, RegisterTools PROVE McpInv'
  OBVIOUS
<1>1. /\ main.pc = "register" /\ UNCHANGED <<opened, transport>> /\ WithServer' = WithServer
  BY ServersStand DEF RegisterTools
<1>2. \E tools : manager' = [manager EXCEPT !.tools = tools]
  BY DEF RegisterTools
<1>3. /\ DOMAIN manager' = {"connected", "clients", "tools"}
      /\ manager'.connected = manager.connected /\ manager'.clients = manager.clients
  BY <1>2 DEF McpInv, MainInv
<1>4. \/ main' = [main EXCEPT !.pc = "idle", !.clients = <<>>]
      \/ main' = [main EXCEPT !.pc = "close", !.clients = <<>>, !.queue = manager.clients]
  BY DEF RegisterTools
<1>5. OpenedOnly(<<>>)
  BY ListedEmpty DEF OpenedOnly
<1>6. CASE main' = [main EXCEPT !.pc = "idle", !.clients = <<>>]
  <2>1. /\ DOMAIN main' = {"pc", "clients", "queue"} /\ main'.pc = "idle"
        /\ main'.clients = <<>> /\ main'.queue = main.queue
    BY <1>6 DEF McpInv, MainInv
  <2>2. MainInv'
    BY <1>1, <1>3, <1>5, <2>1 DEF McpInv, MainInv, OpenedOnly, Connecting
  <2>3. QED
    BY <1>1, <2>2, OnlyMainMoves
<1>7. CASE main' = [main EXCEPT !.pc = "close", !.clients = <<>>, !.queue = manager.clients]
  <2>1. /\ DOMAIN main' = {"pc", "clients", "queue"} /\ main'.pc = "close"
        /\ main'.clients = <<>> /\ main'.queue = manager.clients
    BY <1>7 DEF McpInv, MainInv
  <2>2. MainInv'
    BY <1>1, <1>3, <1>5, <2>1 DEF McpInv, MainInv, OpenedOnly, Connecting
  <2>3. QED
    BY <1>1, <2>2, OnlyMainMoves
<1>8. QED
  BY <1>4, <1>6, <1>7

LEMMA BeginCloseKeeps == McpInv /\ BeginClose => McpInv'
<1> SUFFICES ASSUME McpInv, BeginClose PROVE McpInv'
  OBVIOUS
<1>1. /\ main.pc = "idle" /\ UNCHANGED <<manager, opened, transport>> /\ WithServer' = WithServer
  BY ServersStand DEF BeginClose
<1>2. /\ DOMAIN main' = {"pc", "clients", "queue"} /\ main'.pc = "close"
      /\ main'.clients = main.clients /\ main'.queue = manager.clients
  BY DEF BeginClose, McpInv, MainInv
<1>3. MainInv'
  BY <1>1, <1>2 DEF McpInv, MainInv, OpenedOnly, Connecting
<1>4. QED
  BY <1>1, <1>3, OnlyMainMoves

LEMMA EndCloseKeeps == McpInv /\ EndClose => McpInv'
<1> SUFFICES ASSUME McpInv, EndClose PROVE McpInv'
  OBVIOUS
<1>1. /\ main.pc = "close" /\ main.queue = <<>> /\ UNCHANGED <<opened, transport>>
      /\ WithServer' = WithServer
  BY ServersStand DEF EndClose
<1>2. /\ DOMAIN main' = {"pc", "clients", "queue"} /\ main'.pc = "idle"
      /\ main'.clients = main.clients /\ main'.queue = main.queue
      /\ DOMAIN manager' = {"connected", "clients", "tools"} /\ manager'.connected = FALSE
      /\ manager'.clients = <<>>
  BY DEF EndClose, McpInv, MainInv
<1>3. WithServer = {}
  BY <1>1, ListedEmpty DEF McpInv, MainInv
<1>4. OpenedOnly(<<>>)' /\ OpenedOnly(main.queue)' /\ OpenedOnly(main.clients)'
  BY <1>1, <1>2, ListedEmpty DEF McpInv, MainInv, OpenedOnly
<1>5. MainInv'
  BY <1>1, <1>2, <1>3, <1>4, ListedEmpty DEF McpInv, MainInv, Connecting
<1>6. QED
  BY <1>1, <1>5, OnlyMainMoves

\* A step of one Close.
LEMMA CloseStepSound ==
    ASSUME NEW t, TableSound(t), t.stage \in CloseStages \ {"unopened", "closed"}
    PROVE  TableSound(CloseStep(t)) /\ CloseStep(t).stage \in CloseStages \ {"unopened", "open"}
<1> DEFINE u == CloseStep(t)
<1>1. DOMAIN t = TransportFields
  BY DEF TableSound
<1>2. CASE t.stage = "open"
  <2>1. u = [t EXCEPT !.stdin = "closed", !.stage = "input closed"]
    BY <1>2 DEF CloseStep
  <2>2. DOMAIN u = TransportFields /\ u.nextID = t.nextID /\ u.pending = t.pending
        /\ u.channel = t.channel /\ u.stage = "input closed"
    BY <1>1, <2>1 DEF TransportFields
  <2>3. QED
    BY <2>2 DEF TableSound, CloseStages
<1>3. CASE t.stage = "input closed"
  <2> DEFINE d == Dead(t)
  <2>1. u = [d EXCEPT !.stage = "killed"]
    BY <1>3 DEF CloseStep
  <2>2. SameTable(t, d)
    BY DeadSame
  <2> HIDE DEF d
  <2>3. DOMAIN u = TransportFields /\ u.nextID = t.nextID /\ u.pending = t.pending
        /\ u.channel = t.channel /\ u.stage = "killed"
    BY <2>1, <2>2 DEF SameTable, TransportFields
  <2>4. QED
    BY <2>3 DEF TableSound, CloseStages
<1>4. CASE t.stage = "killed"
  <2> DEFINE f == FailPending(t)
  <2>1. u = [f EXCEPT !.stage = "waiting"]
    BY <1>4 DEF CloseStep
  <2>2. TableSound(f)
    BY FailPendingSound
  <2> HIDE DEF f
  <2>3. DOMAIN u = TransportFields /\ u.nextID = f.nextID /\ u.pending = f.pending
        /\ u.channel = f.channel /\ u.stage = "waiting"
    BY <2>1, <2>2 DEF TableSound, TransportFields
  <2>4. QED
    BY <2>2, <2>3 DEF TableSound, CloseStages
<1>5. CASE t.stage = "waiting"
  <2>1. u = [t EXCEPT !.stage = "closed"]
    BY <1>5 DEF CloseStep
  <2>2. DOMAIN u = TransportFields /\ u.nextID = t.nextID /\ u.pending = t.pending
        /\ u.channel = t.channel /\ u.stage = "closed"
    BY <1>1, <2>1 DEF TransportFields
  <2>3. QED
    BY <2>2 DEF TableSound, CloseStages
<1>6. QED
  BY <1>2, <1>3, <1>4, <1>5 DEF CloseStages

LEMMA CloseNextKeeps == McpInv /\ CloseNext => McpInv'
<1> SUFFICES ASSUME McpInv, CloseNext PROVE McpInv'
  OBVIOUS
<1> DEFINE c == Head(main.queue)
<1>1. main.pc \in {"undo", "close"} /\ main.queue # <<>> /\ UNCHANGED <<manager, opened>>
  BY DEF CloseNext
<1>2. /\ c \in Listed(main.queue) /\ Tail(main.queue) \in Seq(Clients)
      /\ Listed(Tail(main.queue)) \subseteq Listed(main.queue)
      /\ \A d \in Listed(main.queue) : d # c => d \in Listed(Tail(main.queue))
      /\ c \in Clients /\ c <= opened
  <2>1. main.queue \in Seq(Clients) /\ \A d \in Listed(main.queue) : d <= opened
    BY DEF McpInv, MainInv, OpenedOnly
  <2>2. c \in Clients
    BY <1>1, <2>1
  <2>3. QED
    BY <1>1, <2>1, <2>2, ListedHead
<1>3. CASE transport[c].stage = "closed"
  <2>1. main' = [main EXCEPT !.queue = Tail(main.queue)] /\ transport' = transport
    BY <1>3 DEF CloseNext
  <2>2. /\ DOMAIN main' = {"pc", "clients", "queue"} /\ main'.pc = main.pc
        /\ main'.clients = main.clients /\ main'.queue = Tail(main.queue)
    BY <2>1 DEF McpInv, MainInv
  <2>3. WithServer' = WithServer /\ c \notin WithServer
    BY <1>3, <2>1 DEF WithServer
  <2>4. WithServer \subseteq Listed(Tail(main.queue))
    BY <1>1, <1>2, <2>3 DEF McpInv, MainInv
  <2>5. OpenedOnly(main.queue)' /\ OpenedOnly(main.clients)' /\ OpenedOnly(manager.clients)'
    BY <1>1, <1>2, <2>2 DEF McpInv, MainInv, OpenedOnly
  <2>6. MainInv'
    BY <1>1, <2>2, <2>3, <2>4, <2>5 DEF McpInv, MainInv, Connecting
  <2>7. QED
    BY <1>1, <2>1, <2>6, OnlyMainMoves
<1>4. CASE transport[c].stage # "closed"
  <2> DEFINE t == CloseStep(transport[c])
  <2>1. main' = main /\ transport' = [transport EXCEPT ![c] = t]
    BY <1>4 DEF CloseNext
  <2>2. TableSound(transport[c]) /\ transport[c].stage \in CloseStages \ {"unopened", "closed"}
    BY <1>2, <1>4 DEF McpInv, Clients
  <2>3. TableSound(t) /\ t.stage \in CloseStages \ {"unopened", "open"}
    BY <2>2, CloseStepSound
  <2> HIDE DEF t, c
  <2>4. DOMAIN transport' = Clients /\ transport'[c] = t
        /\ \A d \in Clients : d # c => transport'[d] = transport[d]
    BY <1>2, <2>1 DEF McpInv
  <2>5. WithServer' \subseteq WithServer
    <3>1. ASSUME NEW d \in WithServer' PROVE d \in WithServer
      <4>1. CASE d = c
        BY <1>2, <2>2, <4>1 DEF WithServer
      <4>2. CASE d # c
        BY <2>4, <3>1, <4>2 DEF WithServer
      <4>3. QED
        BY <4>1, <4>2
    <3>2. QED
      BY <3>1
  <2>6. MainInv'
    BY <1>1, <2>1, <2>5 DEF McpInv, MainInv, OpenedOnly, Connecting
  <2>7. \A d \in Clients : /\ TableSound(transport'[d]) /\ transport'[d].stage \in CloseStages
                           /\ transport'[d].stage = "unopened" <=> d > opened'
    <3> SUFFICES ASSUME NEW d \in Clients
                 PROVE  /\ TableSound(transport'[d]) /\ transport'[d].stage \in CloseStages
                        /\ transport'[d].stage = "unopened" <=> d > opened'
      OBVIOUS
    <3>1. CASE d = c
      BY <1>1, <1>2, <2>3, <2>4, <3>1 DEF McpInv, Clients
    <3>2. CASE d # c
      BY <1>1, <2>4, <3>2 DEF McpInv
    <3>3. QED
      BY <3>1, <3>2
  <2>8. QED
    BY <1>1, <2>4, <2>6, <2>7 DEF McpInv
<1>5. QED
  BY <1>3, <1>4

LEMMA McpInitHolds == McpInit => McpInv
<1> SUFFICES ASSUME McpInit PROVE McpInv
  OBVIOUS
<1>1. /\ DOMAIN Unopened = TransportFields /\ Unopened.channel = [i \in Ids |-> "empty"]
      /\ Unopened.nextID = 0 /\ Unopened.pending = {} /\ Unopened.stage = "unopened"
  BY DEF Unopened, TransportFields
<1>2. TableSound(Unopened)
  BY <1>1 DEF TableSound, Ids
<1>3. /\ main.pc = "idle" /\ main.clients = <<>> /\ main.queue = <<>>
      /\ DOMAIN main = {"pc", "clients", "queue"}
      /\ manager.connected = FALSE /\ manager.clients = <<>>
      /\ DOMAIN manager = {"connected", "clients", "tools"}
      /\ opened = 0 /\ transport = [c \in Clients |-> Unopened]
  BY DEF McpInit
<1>4. WithServer = {}
  BY <1>1, <1>3 DEF WithServer
<1>5. MainInv
  <2>1. OpenedOnly(<<>>)
    BY ListedEmpty DEF OpenedOnly
  <2>2. QED
    BY <1>3, <1>4, <2>1, ListedEmpty DEF MainInv, Connecting
<1>6. \A c \in Clients : c > 0
  BY DEF Clients
<1>7. 0 \in 0 .. MaxClients
  BY McpAssumption
<1>8. QED
  BY <1>1, <1>2, <1>3, <1>5, <1>6, <1>7 DEF McpInv, CloseStages

LEMMA McpNextHolds == McpInv /\ [McpNext]_mcpVars => McpInv'
<1> SUFFICES ASSUME McpInv, [McpNext]_mcpVars PROVE McpInv'
  OBVIOUS
<1>1. ASSUME UNCHANGED <<manager, main, opened, transport>> PROVE McpInv'
  <2>1. WithServer' = WithServer
    BY <1>1, ServersStand
  <2>2. MainInv'
    BY <1>1, <2>1 DEF McpInv, MainInv, OpenedOnly
  <2>3. QED
    BY <1>1, <2>2, OnlyMainMoves
<1>2. CASE UNCHANGED mcpVars
  BY <1>1, <1>2 DEF mcpVars
<1>3. ASSUME NEW p \in Procs, Cancel(p) PROVE McpInv'
  BY <1>1, <1>3 DEF Cancel
<1>4. ASSUME Manage \/ BeginConnect \/ BeginClose PROVE McpInv'
  BY <1>4, OpenClientKeeps, InitializedKeeps, NotifyInitializedKeeps, ListToolsKeeps, UndoneKeeps,
     RegisterToolsKeeps, EndCloseKeeps, CloseNextKeeps, BeginConnectKeeps, BeginCloseKeeps
     DEF Manage
<1>5. Callers \subseteq Procs
  BY DEF Procs
<1>6. QED
  BY <1>2, <1>3, <1>4, <1>5, SendRequestKeeps, CallToolKeeps, ReaderKeeps, ServerStepKeeps
     DEF McpNext

LEMMA McpInvImplies == McpInv => SendsNeverBlock /\ NoServerLeftBehind
<1> SUFFICES ASSUME McpInv PROVE SendsNeverBlock /\ NoServerLeftBehind
  OBVIOUS
<1>1. SendsNeverBlock
  BY DEF McpInv, TableSound, SendsNeverBlock
<1>2. NoServerLeftBehind
  BY DEF McpInv, MainInv, NoServerLeftBehind, WithServer, Listed
<1>3. QED
  BY <1>1, <1>2

\* Whatever fails half way and whatever servers answer: an answer never blocks
\* a client's reader, outside Connect and Close the clients with a server are
\* those of the connected manager, and a background process is in somebody's
\* hands until its end was seen or its group was killed.
THEOREM HostsAreSound == HostSpec => []HostsSound
<1>1. HostInit => McpInv /\ ProcInv /\ SpawnInv
  BY McpInitHolds, ProcInitHolds DEF HostInit
<1>2. /\ McpInv /\ ProcInv /\ SpawnInv
      /\ [HostNext]_<<mcpVars, procVars>>
      => McpInv' /\ ProcInv' /\ SpawnInv'
  BY McpNextHolds, ProcNextHolds, SpawnNextHolds DEF HostNext
<1>3. McpInv /\ ProcInv => HostsSound
  BY McpInvImplies, ProcInvImplies DEF HostsSound
<1>4. QED
  BY <1>1, <1>2, <1>3, PTL DEF HostSpec

-----------------------------------------------------------------------------
\* The gate before a batch of tool calls

CallFields == {"tool", "input", "at", "result", "verdict", "judged", "approved", "ran"}
CallStages == {"new", "asking", "consulted", "ready", "started", "answered"}

Hard(s, k) == IF s.production THEN PolicyVerdict(k.tool, s.granted) ELSE "allow"
Soft(s, k) == Evaluate(s.rules, s.mode, k.tool, k.judged)

\* A call that has to be asked about, and one that may run.
MustAsk(s, k) ==
    \/ Hard(s, k) = "require_approval"
    \/ Hard(s, k) = "allow" /\ Soft(s, k) = "ask"
MayRun(s, k) ==
    \/ Hard(s, k) = "allow" /\ Soft(s, k) = "allow"
    \/ MustAsk(s, k) /\ k.approved = k.judged

\* What holds of a call in session s at each stage.
CallSound(s, k) ==
    /\ DOMAIN k = CallFields
    /\ k.tool \in s.tools /\ k.input # NoInput /\ k.at \in CallStages
    /\ k.result = "ok" => k.at = "answered" /\ k.ran # NoInput
    /\ k.at # "answered" => k.ran = NoInput
    /\ k.at = "new" => k.approved = NoInput
    /\ k.at \in {"asking", "consulted"} =>
          k.judged = k.input /\ k.approved = NoInput /\ MustAsk(s, k)
    /\ k.at \in {"ready", "started"} => MayRun(s, k) /\ (s.production => k.input = k.judged)
    /\ k.ran # NoInput => MayRun(s, k) /\ (s.production => k.ran = k.judged)

\* What the outbox holds of a call in production, at each stage.
TrailSound(s, k, t) ==
    s.production =>
        /\ k.at = "new" => t = <<>>
        /\ k.at \in {"asking", "consulted"} => t = <<k.verdict, "requested">>
        /\ k.at = "ready" => t = IF k.approved # NoInput
                                 THEN <<k.verdict, "requested", "granted">> ELSE <<k.verdict>>
        /\ k.at = "started" => t = Story(k)
        /\ k.ran # NoInput => IsPrefix(Story(k), t)
        /\ k.result = "ok" => Last(t) = "ok"

GateInv ==
    /\ gate.session \in Sessions /\ DOMAIN gate = {"session", "phase"}
    /\ DOMAIN call = Calls /\ DOMAIN trail = Calls
    /\ trail = [c \in Calls |-> trail[c]]
    /\ \A c \in Calls : /\ CallSound(gate.session, call[c])
                        /\ TrailSound(gate.session, call[c], trail[c])

LEMMA InputsAreInputs ==
    ASSUME NEW s \in Sessions, NEW t \in s.tools, NEW i \in Inputs(t)
    PROVE  i # NoInput
BY GateAssumption

\* The permission engine always decides.
LEMMA RuleVerdictAtType ==
    ASSUME NEW rules, NEW i, NEW tool, NEW input
    PROVE  RuleVerdictAt(rules, i, tool, input) \in {"none", "allow", "deny"}
<1>1. \A bash : EvaluateBashRules(bash, input) \in {"none", "allow", "deny"}
  BY DEF EvaluateBashRules
<1>2. Decisive(rules[i]) => rules[i].decision \in {"allow", "deny"}
  BY DEF Decisive
<1>3. QED
  BY <1>1, <1>2 DEF RuleVerdictAt

LEMMA RuleVerdictType ==
    ASSUME NEW rules, NEW tool, NEW input
    PROVE  RuleVerdict(rules, tool, input) \in {"none", "allow", "deny"}
BY RuleVerdictAtType DEF RuleVerdict

LEMMA EvaluateType ==
    ASSUME NEW rules, NEW mode, NEW tool, NEW input
    PROVE  Evaluate(rules, mode, tool, input) \in {"allow", "deny", "ask"}
<1>1. RuleVerdict(rules, tool, input) \in {"none", "allow", "deny"}
  BY RuleVerdictType
<1>2. ModeDefault(tool, mode) \in {"allow", "ask"}
  BY DEF ModeDefault
<1>3. QED
  BY <1>1, <1>2 DEF Evaluate

LEMMA HardType == \A s, k : Hard(s, k) \in {"allow", "deny", "require_approval"}
BY DEF Hard, PolicyVerdict

LEMMA AppendToOne ==
    ASSUME NEW a, NEW b
    PROVE  Append(<<a>>, b) = <<a, b>>
<1> DEFINE s == Append(<<a>>, b)
           t == <<a, b>>
           pair == [i \in 1 .. 2 |-> IF i = 1 THEN a ELSE b]
<1>1. \A i \in 1 .. 2 : i = 1 \/ i = 2
  OBVIOUS
<1>2. s \in Seq({a, b}) /\ Len(s) = 2 /\ s[1] = a /\ s[2] = b
  <2>1. <<a>> \in Seq({a, b}) /\ Len(<<a>>) = 1 /\ <<a>>[1] = a
    OBVIOUS
  <2>2. QED
    BY <2>1
<1>3. t \in Seq({a, b}) /\ Len(t) = 2 /\ t[1] = a /\ t[2] = b
  OBVIOUS
<1> HIDE DEF s, t
<1>4. s = pair
  BY <1>1, <1>2
<1>5. t = pair
  BY <1>1, <1>3
<1>6. QED
  BY <1>4, <1>5 DEF s, t

-----------------------------------------------------------------------------
\* Steps of one call

LEMMA OneCallMoves ==
    ASSUME GateInv, gate' = gate, NEW c \in Calls, NEW k, NEW t,
           call' = [call EXCEPT ![c] = k], trail' = [trail EXCEPT ![c] = t],
           CallSound(gate.session, k), TrailSound(gate.session, k, t)
    PROVE  GateInv'
<1>1. /\ DOMAIN call' = Calls /\ DOMAIN trail' = Calls /\ call'[c] = k /\ trail'[c] = t
      /\ \A d \in Calls : d # c => call'[d] = call[d] /\ trail'[d] = trail[d]
      /\ trail' = [d \in Calls |-> trail'[d]]
  BY DEF GateInv
<1>2. \A d \in Calls : /\ CallSound(gate.session, call'[d])
                       /\ TrailSound(gate.session, call'[d], trail'[d])
  BY <1>1 DEF GateInv
<1>3. QED
  BY <1>1, <1>2 DEF GateInv

\* A call that is answered without having run says nothing.
LEMMA AnsweredMoves ==
    ASSUME GateInv, gate' = gate, NEW c \in Calls, NEW k, NEW t,
           call' = [call EXCEPT ![c] = k], trail' = [trail EXCEPT ![c] = t],
           DOMAIN k = CallFields, k.tool = call[c].tool, k.input # NoInput,
           k.at = "answered", k.result # "ok", k.ran = NoInput
    PROVE  GateInv'
<1>1. CallSound(gate.session, k)
  BY DEF GateInv, CallSound, CallStages
<1>2. TrailSound(gate.session, k, t)
  BY DEF TrailSound
<1>3. QED
  BY <1>1, <1>2, OneCallMoves

\* An append that is not in production, or fails, leaves what is there.
LEMMA TrailStands ==
    ASSUME GateInv, NEW c \in Calls
    PROVE  trail = [trail EXCEPT ![c] = trail[c]]
BY DEF GateInv

\* The fields of a call that has changed in some of them.
LEMMA DeniedFields ==
    ASSUME GateInv, NEW c \in Calls, call[c].at # "answered"
    PROVE  LET k == Denied(c)
           IN  /\ DOMAIN k = CallFields /\ k.tool = call[c].tool /\ k.input # NoInput
               /\ k.at = "answered" /\ k.result # "ok" /\ k.ran = NoInput
BY DEF GateInv, CallSound, Denied, CallFields

\* A call is denied, whatever was or was not appended.
LEMMA DeniedMoves ==
    ASSUME GateInv, gate' = gate, NEW c \in Calls, call[c].at # "answered", NEW t,
           call' = [call EXCEPT ![c] = Denied(c)], trail' = [trail EXCEPT ![c] = t]
    PROVE  GateInv'
<1> DEFINE k == Denied(c)
<1>1. /\ DOMAIN k = CallFields /\ k.tool = call[c].tool /\ k.input # NoInput
      /\ k.at = "answered" /\ k.result # "ok" /\ k.ran = NoInput
  BY DeniedFields
<1>2. call' = [call EXCEPT ![c] = k]
  OBVIOUS
<1> HIDE DEF k
<1>3. QED
  BY <1>1, <1>2, AnsweredMoves

LEMMA PolicyFailsKeeps ==
    ASSUME GateInv, NEW c \in Calls, call[c].at = "new", PolicyFails(c)
    PROVE  GateInv'
<1>1. gate' = gate /\ call' = [call EXCEPT ![c] = Denied(c)] /\ trail' = trail
  BY DEF PolicyFails
<1>2. trail' = [trail EXCEPT ![c] = trail[c]]
  BY <1>1, TrailStands
<1>3. QED
  BY <1>1, <1>2, DeniedMoves

\* The call with its verdict, and the outbox with it.
LEMMA ScreenKeeps ==
    ASSUME GateInv, NEW c \in Calls, call[c].at = "new", Screen(c)
    PROVE  GateInv'
<1> DEFINE s == gate.session
           v == Hard(s, call[c])
           judged == [call[c] EXCEPT !.judged = call[c].input, !.verdict = v]
           told == IF s.production THEN <<v>> ELSE trail[c]
           trace == IF s.production THEN Audited(trail, c, v) ELSE trail
           denied == [judged EXCEPT !.at = "answered", !.result = "denied"]
           ready == [judged EXCEPT !.at = "ready"]
           asking == [judged EXCEPT !.at = "asking"]
<1>1. CallSound(s, call[c]) /\ call[c].ran = NoInput /\ call[c].approved = NoInput
      /\ call[c].result # "ok" /\ DOMAIN call[c] = CallFields
      /\ (s.production => trail[c] = <<>>)
  BY DEF GateInv, CallSound, TrailSound
<1>2. /\ DOMAIN judged = CallFields /\ judged.tool = call[c].tool /\ judged.input = call[c].input
      /\ judged.judged = call[c].input /\ judged.verdict = v /\ judged.ran = NoInput
      /\ judged.approved = NoInput /\ judged.result = call[c].result
  BY <1>1 DEF CallFields
<1>3. /\ DOMAIN denied = CallFields /\ denied.tool = call[c].tool /\ denied.input = call[c].input
      /\ denied.at = "answered" /\ denied.result = "denied" /\ denied.ran = NoInput
  BY <1>2 DEF CallFields
<1>4. /\ DOMAIN ready = CallFields /\ ready.tool = call[c].tool /\ ready.input = call[c].input
      /\ ready.judged = call[c].input /\ ready.verdict = v /\ ready.ran = NoInput
      /\ ready.approved = NoInput /\ ready.result = call[c].result /\ ready.at = "ready"
  BY <1>2 DEF CallFields
<1>5. /\ DOMAIN asking = CallFields /\ asking.tool = call[c].tool /\ asking.input = call[c].input
      /\ asking.judged = call[c].input /\ asking.verdict = v /\ asking.ran = NoInput
      /\ asking.approved = NoInput /\ asking.result = call[c].result /\ asking.at = "asking"
  BY <1>2 DEF CallFields
<1>6. trace = [trail EXCEPT ![c] = told] /\ gate' = gate
  <2>1. CASE s.production
    BY <1>1, <2>1 DEF Audited, GateInv, Screen
  <2>2. CASE ~s.production
    BY <2>2, TrailStands DEF Screen
  <2>3. QED
    BY <2>1, <2>2
<1> DEFINE DenyCase == call' = [call EXCEPT ![c] = denied] /\ trail' = trace
           ReadyCase == /\ v = "allow" /\ Soft(s, judged) = "allow"
                        /\ call' = [call EXCEPT ![c] = ready] /\ trail' = trace
           AskCase == /\ v = "require_approval" \/ (v = "allow" /\ Soft(s, judged) = "ask")
                      /\ call' = [call EXCEPT ![c] = asking]
                      /\ trail' = IF s.production THEN Audited(trace, c, "requested") ELSE trace
<1>7. ASSUME AskAudited(c, judged, trace), v = "require_approval" \/ (v = "allow" /\ Soft(s, judged) = "ask")
      PROVE  AskCase \/ DenyCase
  BY <1>7 DEF AskAudited, Production
<1>8. ASSUME v = "allow", RulesScreen(c, judged, trace)
      PROVE  DenyCase \/ ReadyCase \/ AskCase
  <2>1. Soft(s, judged) = Evaluate(s.rules, s.mode, call[c].tool, call[c].input)
    BY <1>2 DEF Soft
  <2>2. Soft(s, judged) \in {"allow", "deny", "ask"}
    BY EvaluateType DEF Soft
  <2>3. CASE Soft(s, judged) = "deny"
    BY <1>8, <2>1, <2>3 DEF RulesScreen
  <2>4. CASE Soft(s, judged) = "allow"
    BY <1>8, <2>1, <2>4 DEF RulesScreen
  <2>5. CASE Soft(s, judged) = "ask"
    <3>1. AskAudited(c, judged, trace)
      BY <1>8, <2>1, <2>5 DEF RulesScreen
    <3>2. QED
      BY <1>7, <1>8, <2>5, <3>1
  <2>6. QED
    BY <2>2, <2>3, <2>4, <2>5
<1>9. DenyCase \/ ReadyCase \/ AskCase
  <2>1. CASE v = "deny"
    BY <2>1 DEF Screen, Hard, Production
  <2>2. CASE v = "require_approval"
    <3>1. AskAudited(c, judged, trace)
      BY <2>2 DEF Screen, Hard, Production
    <3>2. QED
      BY <2>2, <3>1 DEF AskAudited, Production
  <2>3. CASE v = "allow"
    <3>1. RulesScreen(c, judged, trace)
      BY <2>3 DEF Screen, Hard, Production
    <3>2. QED
      BY <1>8, <2>3, <3>1
  <2>4. QED
    BY <2>1, <2>2, <2>3, HardType
<1> HIDE DEF judged, denied, ready, asking, trace
<1>10. Hard(s, ready) = v /\ Hard(s, asking) = v /\ v \in {"allow", "deny", "require_approval"}
       /\ Soft(s, ready) = Soft(s, judged) /\ Soft(s, asking) = Soft(s, judged)
  BY <1>2, <1>4, <1>5, HardType DEF Hard, Soft
<1>11. CASE DenyCase
  <2>1. denied.tool = call[c].tool /\ denied.input # NoInput
    BY <1>1, <1>3 DEF CallSound
  <2>2. QED
    BY <1>3, <1>6, <1>11, <2>1, AnsweredMoves
<1>12. CASE ReadyCase
  <2>1. CallSound(s, ready)
    BY <1>1, <1>4, <1>10, <1>12 DEF CallSound, CallStages, MayRun
  <2>2. TrailSound(s, ready, told)
    BY <1>1, <1>4 DEF TrailSound
  <2>3. QED
    BY <1>6, <1>12, <2>1, <2>2, OneCallMoves
<1>13. CASE AskCase
  <2> DEFINE t == IF s.production THEN <<v, "requested">> ELSE trail[c]
  <2>1. CallSound(s, asking)
    BY <1>1, <1>5, <1>10, <1>13 DEF CallSound, CallStages, MustAsk
  <2>2. TrailSound(s, asking, t)
    BY <1>1, <1>5 DEF TrailSound
  <2>3. trail' = [trail EXCEPT ![c] = t]
    <3>1. CASE s.production
      <4>1. told = <<v>> /\ Append(<<v>>, "requested") = <<v, "requested">>
        BY <3>1, AppendToOne
      <4>2. trace[c] = told /\ trail' = [trace EXCEPT ![c] = <<v, "requested">>]
        BY <1>6, <1>13, <3>1, <4>1 DEF Audited, GateInv
      <4>3. QED
        BY <1>6, <3>1, <4>2
    <3>2. CASE ~s.production
      BY <1>6, <1>13, <3>2
    <3>3. QED
      BY <3>1, <3>2
  <2> HIDE DEF t
  <2>4. QED
    BY <1>6, <1>13, <2>1, <2>2, <2>3, OneCallMoves
<1>14. QED
  BY <1>9, <1>11, <1>12, <1>13

\* What an append does to the events of a call.
LEMMA AppendToTwo ==
    ASSUME NEW a, NEW b, NEW c
    PROVE  Append(<<a, b>>, c) = <<a, b, c>>
<1> DEFINE s == Append(<<a, b>>, c)
           t == <<a, b, c>>
           triple == [i \in 1 .. 3 |-> IF i = 1 THEN a ELSE IF i = 2 THEN b ELSE c]
<1>1. \A i \in 1 .. 3 : i = 1 \/ i = 2 \/ i = 3
  OBVIOUS
<1>2. s \in Seq({a, b, c}) /\ Len(s) = 3 /\ s[1] = a /\ s[2] = b /\ s[3] = c
  <2>1. <<a, b>> \in Seq({a, b, c}) /\ Len(<<a, b>>) = 2 /\ <<a, b>>[1] = a /\ <<a, b>>[2] = b
    OBVIOUS
  <2>2. QED
    BY <2>1
<1>3. t \in Seq({a, b, c}) /\ Len(t) = 3 /\ t[1] = a /\ t[2] = b /\ t[3] = c
  OBVIOUS
<1> HIDE DEF s, t
<1>4. s = triple
  BY <1>1, <1>2
<1>5. t = triple
  BY <1>1, <1>3
<1>6. QED
  BY <1>4, <1>5 DEF s, t

LEMMA AppendToThree ==
    ASSUME NEW a, NEW b, NEW c, NEW d
    PROVE  Append(<<a, b, c>>, d) = <<a, b, c, d>>
<1> DEFINE s == Append(<<a, b, c>>, d)
           t == <<a, b, c, d>>
           four == [i \in 1 .. 4 |-> IF i = 1 THEN a ELSE IF i = 2 THEN b ELSE IF i = 3 THEN c ELSE d]
<1>1. \A i \in 1 .. 4 : i = 1 \/ i = 2 \/ i = 3 \/ i = 4
  OBVIOUS
<1>2. s \in Seq({a, b, c, d}) /\ Len(s) = 4 /\ s[1] = a /\ s[2] = b /\ s[3] = c /\ s[4] = d
  <2>1. /\ <<a, b, c>> \in Seq({a, b, c, d}) /\ Len(<<a, b, c>>) = 3
        /\ <<a, b, c>>[1] = a /\ <<a, b, c>>[2] = b /\ <<a, b, c>>[3] = c
    OBVIOUS
  <2>2. QED
    BY <2>1
<1>3. t \in Seq({a, b, c, d}) /\ Len(t) = 4 /\ t[1] = a /\ t[2] = b /\ t[3] = c /\ t[4] = d
  OBVIOUS
<1> HIDE DEF s, t
<1>4. s = four
  BY <1>1, <1>2
<1>5. t = four
  BY <1>1, <1>3
<1>6. QED
  BY <1>4, <1>5 DEF s, t

LEMMA StoryIsAppended ==
    ASSUME NEW k
    PROVE  Story(k) = Append(IF k.approved # NoInput
                             THEN <<k.verdict, "requested", "granted">> ELSE <<k.verdict>>, "called")
BY AppendToOne, AppendToThree DEF Story

LEMMA StoryIsPrefix ==
    ASSUME NEW k, NEW e
    PROVE  /\ IsPrefix(Story(k), Story(k)) /\ IsPrefix(Story(k), Append(Story(k), e))
           /\ Last(Append(Story(k), e)) = e
<1> DEFINE V == {k.verdict, "requested", "granted", "called", e}
<1>1. Story(k) \in Seq(V)
  <2>1. <<k.verdict, "requested", "granted", "called">> \in Seq(V)
    OBVIOUS
  <2>2. <<k.verdict, "called">> \in Seq(V)
    OBVIOUS
  <2>3. QED
    BY <2>1, <2>2 DEF Story
<1>2. ASSUME NEW s \in Seq(V)
      PROVE  IsPrefix(s, s) /\ IsPrefix(s, Append(s, e)) /\ Last(Append(s, e)) = e
  <2>1. Len(s) \in Nat /\ Len(Append(s, e)) = Len(s) + 1 /\ Append(s, e)[Len(s) + 1] = e
    OBVIOUS
  <2>2. SubSeq(Append(s, e), 1, Len(s)) = SubSeq(s, 1, Len(s))
    OBVIOUS
  <2>3. QED
    BY <2>1, <2>2 DEF IsPrefix, Last
<1>3. QED
  BY <1>1, <1>2

\* A call whose only change is its stage.
LEMMA ConsultKeeps ==
    ASSUME GateInv, NEW c \in Calls, call[c].at = "asking", Consult(c)
    PROVE  GateInv'
<1> DEFINE k == [call[c] EXCEPT !.at = "consulted"]
<1>1. gate' = gate /\ call' = [call EXCEPT ![c] = k] /\ trail' = [trail EXCEPT ![c] = trail[c]]
  BY TrailStands DEF Consult
<1>2. CallSound(gate.session, call[c]) /\ TrailSound(gate.session, call[c], trail[c])
  BY DEF GateInv
<1>3. /\ DOMAIN k = CallFields /\ k.tool = call[c].tool /\ k.input = call[c].input
      /\ k.judged = call[c].judged /\ k.verdict = call[c].verdict /\ k.ran = call[c].ran
      /\ k.approved = call[c].approved /\ k.result = call[c].result /\ k.at = "consulted"
  BY <1>2 DEF CallSound, CallFields
<1> HIDE DEF k
<1>4. CallSound(gate.session, k)
  BY <1>2, <1>3 DEF CallSound, CallStages, MustAsk, Hard, Soft
<1>5. TrailSound(gate.session, k, trail[c])
  BY <1>2, <1>3 DEF TrailSound, CallSound
<1>6. QED
  BY <1>1, <1>4, <1>5, OneCallMoves

LEMMA RefusedKeeps ==
    ASSUME GateInv, NEW c \in Calls, call[c].at \in {"asking", "consulted"}, Refused(c)
    PROVE  GateInv'
<1>1. gate' = gate /\ call' = [call EXCEPT ![c] = Denied(c)]
  BY DEF Refused
<1>2. \E t : trail' = [trail EXCEPT ![c] = t]
  <2>1. trail' = trail \/ trail' = Audited(trail, c, "denied")
    BY DEF Refused, AuditOkLive, AuditOk, AuditFails
  <2>2. QED
    BY <2>1, TrailStands DEF Audited
<1>3. QED
  BY <1>1, <1>2, DeniedMoves

LEMMA AllowedKeeps ==
    ASSUME GateInv, NEW c \in Calls, call[c].at = "consulted", Allowed(c)
    PROVE  GateInv'
<1> DEFINE s == gate.session
           allowed == [call[c] EXCEPT !.approved = call[c].input]
<1>1. PICK i \in Inputs(call[c].tool) :
         \/ /\ AuditOkLive(c, "granted")
            /\ call' = [call EXCEPT ![c] =
                  IF Production /\ i # call[c].input
                  THEN [allowed EXCEPT !.at = "answered", !.result = "denied"]
                  ELSE [allowed EXCEPT !.at = "ready", !.input = i]]
         \/ AuditFails /\ call' = [call EXCEPT ![c] = Denied(c)]
  BY DEF Allowed
<1> DEFINE denied == [allowed EXCEPT !.at = "answered", !.result = "denied"]
           ready == [allowed EXCEPT !.at = "ready", !.input = i]
           t == IF s.production THEN Append(trail[c], "granted") ELSE trail[c]
<1>2. gate' = gate
  BY DEF Allowed
<1>3. CallSound(s, call[c]) /\ TrailSound(s, call[c], trail[c]) /\ s \in Sessions
  BY DEF GateInv
<1>4. i # NoInput /\ call[c].input # NoInput /\ call[c].ran = NoInput /\ DOMAIN call[c] = CallFields
      /\ call[c].judged = call[c].input /\ MustAsk(s, call[c]) /\ call[c].result # "ok"
  <2>1. call[c].tool \in s.tools
    BY <1>3 DEF CallSound
  <2>2. i # NoInput
    BY <1>3, <2>1, InputsAreInputs
  <2>3. QED
    BY <1>3, <2>2 DEF CallSound
<1>5. /\ DOMAIN denied = CallFields /\ denied.tool = call[c].tool /\ denied.input = call[c].input
      /\ denied.at = "answered" /\ denied.result = "denied" /\ denied.ran = NoInput
  BY <1>4 DEF CallFields
<1>6. /\ DOMAIN ready = CallFields /\ ready.tool = call[c].tool /\ ready.input = i
      /\ ready.judged = call[c].judged /\ ready.verdict = call[c].verdict /\ ready.ran = NoInput
      /\ ready.approved = call[c].input /\ ready.result = call[c].result /\ ready.at = "ready"
  BY <1>4 DEF CallFields
<1>7. CASE AuditFails /\ call' = [call EXCEPT ![c] = Denied(c)]
  <2>1. trail' = [trail EXCEPT ![c] = trail[c]]
    BY <1>7, TrailStands DEF AuditFails
  <2>2. QED
    BY <1>2, <1>7, <2>1, DeniedMoves
<1>8. CASE AuditOkLive(c, "granted")
  <2>1. trail' = [trail EXCEPT ![c] = t]
    <3>1. CASE s.production
      BY <1>8, <3>1 DEF AuditOkLive, AuditOk, Production, Audited
    <3>2. CASE ~s.production
      BY <1>8, <3>2, TrailStands DEF AuditOkLive, AuditOk, Production
    <3>3. QED
      BY <3>1, <3>2
  <2>2. CASE call' = [call EXCEPT ![c] = denied]
    <3> HIDE DEF denied, t
    <3>1. QED
      BY <1>2, <1>4, <1>5, <2>1, <2>2, AnsweredMoves
  <2>3. CASE (s.production => i = call[c].input) /\ call' = [call EXCEPT ![c] = ready]
    <3>1. s.production => t = <<call[c].verdict, "requested", "granted">>
      <4>1. s.production => trail[c] = <<call[c].verdict, "requested">>
        BY <1>3 DEF TrailSound
      <4>2. \A e : Append(<<e, "requested">>, "granted") = <<e, "requested", "granted">>
        BY AppendToTwo
      <4>3. QED
        BY <4>1, <4>2
    <3> HIDE DEF ready, t
    <3>2. MayRun(s, ready)
      BY <1>4, <1>6 DEF MayRun, MustAsk, Hard, Soft
    <3>3. CallSound(s, ready)
      BY <1>3, <1>4, <1>6, <2>3, <3>2 DEF CallSound, CallStages
    <3>4. TrailSound(s, ready, t)
      BY <1>4, <1>6, <3>1 DEF TrailSound
    <3>5. QED
      BY <1>2, <2>1, <2>3, <3>3, <3>4, OneCallMoves
  <2>4. CASE call' = [call EXCEPT ![c] = Denied(c)]
    BY <1>2, <2>1, <2>4, DeniedMoves
  <2>5. QED
    BY <1>1, <2>2, <2>3, <2>4 DEF Production
<1>9. QED
  BY <1>1, <1>7, <1>8

LEMMA NotStartedKeeps ==
    ASSUME GateInv, NEW c \in Calls, call[c].at = "ready", NotStarted(c)
    PROVE  GateInv'
<1>1. PICK result \in {"denied", "error"} :
         call' = [call EXCEPT ![c].at = "answered", ![c].result = result]
  BY DEF NotStarted
<1> DEFINE k == [call[c] EXCEPT !.at = "answered", !.result = result]
<1>2. CallSound(gate.session, call[c])
  BY DEF GateInv
<1>3. gate' = gate /\ trail' = [trail EXCEPT ![c] = trail[c]]
  BY TrailStands DEF NotStarted
<1>4. call' = [call EXCEPT ![c] = k]
  BY <1>1, <1>2 DEF GateInv, CallSound, CallFields
<1>5. /\ DOMAIN k = CallFields /\ k.tool = call[c].tool /\ k.input # NoInput
      /\ k.at = "answered" /\ k.result # "ok" /\ k.ran = NoInput
  BY <1>1, <1>2 DEF CallSound, CallFields
<1> HIDE DEF k
<1>6. QED
  BY <1>3, <1>4, <1>5, AnsweredMoves

LEMMA StartKeeps ==
    ASSUME GateInv, NEW c \in Calls, call[c].at = "ready", Start(c)
    PROVE  GateInv'
<1> DEFINE s == gate.session
           k == [call[c] EXCEPT !.at = "started"]
           t == IF s.production THEN Append(trail[c], "called") ELSE trail[c]
<1>1. gate' = gate /\ call' = [call EXCEPT ![c] = k]
  BY DEF Start
<1>2. CallSound(s, call[c]) /\ TrailSound(s, call[c], trail[c])
  BY DEF GateInv
<1>3. trail' = [trail EXCEPT ![c] = t]
  <2>1. CASE s.production
    BY <2>1 DEF Start, AuditOkLive, AuditOk, Production, Audited
  <2>2. CASE ~s.production
    BY <2>2, TrailStands DEF Start, AuditOkLive, AuditOk, Production
  <2>3. QED
    BY <2>1, <2>2
<1>4. /\ DOMAIN k = CallFields /\ k.tool = call[c].tool /\ k.input = call[c].input
      /\ k.judged = call[c].judged /\ k.verdict = call[c].verdict /\ k.ran = call[c].ran
      /\ k.approved = call[c].approved /\ k.result = call[c].result /\ k.at = "started"
  BY <1>2 DEF CallSound, CallFields
<1>5. s.production => t = Story(call[c])
  BY <1>2, StoryIsAppended DEF TrailSound
<1> HIDE DEF k, t
<1>6. CallSound(s, k)
  BY <1>2, <1>4 DEF CallSound, CallStages, MayRun, MustAsk, Hard, Soft
<1>7. TrailSound(s, k, t)
  BY <1>2, <1>4, <1>5 DEF TrailSound, CallSound, Story
<1>8. QED
  BY <1>1, <1>3, <1>6, <1>7, OneCallMoves

LEMMA FinishKeeps ==
    ASSUME GateInv, NEW c \in Calls, call[c].at = "started", Finish(c)
    PROVE  GateInv'
<1> DEFINE s == gate.session
           ran == [call[c] EXCEPT !.at = "answered", !.ran = call[c].input]
<1>1. PICK outcome \in {"ok", "error"} :
         \/ AuditOk(c, outcome) /\ call' = [call EXCEPT ![c] = [ran EXCEPT !.result = outcome]]
         \/ AuditFails /\ call' = [call EXCEPT ![c] = [ran EXCEPT !.result = "error"]]
  BY DEF Finish
<1>2. gate' = gate
  BY DEF Finish
<1>3. CallSound(s, call[c]) /\ TrailSound(s, call[c], trail[c])
  BY DEF GateInv
<1>4. \A result :
         LET k == [ran EXCEPT !.result = result]
         IN  /\ DOMAIN k = CallFields /\ k.tool = call[c].tool /\ k.input = call[c].input
             /\ k.judged = call[c].judged /\ k.verdict = call[c].verdict
             /\ k.ran = call[c].input /\ k.approved = call[c].approved
             /\ k.result = result /\ k.at = "answered"
  BY <1>3 DEF CallSound, CallFields
<1>5. ASSUME NEW result, NEW t, call' = [call EXCEPT ![c] = [ran EXCEPT !.result = result]],
             trail' = [trail EXCEPT ![c] = t],
             s.production => IsPrefix(Story(call[c]), t) /\ (result = "ok" => Last(t) = "ok")
      PROVE  GateInv'
  <2> DEFINE k == [ran EXCEPT !.result = result]
  <2>1. /\ DOMAIN k = CallFields /\ k.tool = call[c].tool /\ k.input = call[c].input
        /\ k.judged = call[c].judged /\ k.verdict = call[c].verdict
        /\ k.ran = call[c].input /\ k.approved = call[c].approved
        /\ k.result = result /\ k.at = "answered"
    BY <1>4
  <2>2. call' = [call EXCEPT ![c] = k]
    BY <1>5
  <2> HIDE DEF k
  <2>3. CallSound(s, k)
    BY <1>3, <2>1 DEF CallSound, CallStages, MayRun, MustAsk, Hard, Soft
  <2>4. TrailSound(s, k, t)
    BY <1>5, <2>1 DEF TrailSound, Story
  <2>5. QED
    BY <1>2, <1>5, <2>2, <2>3, <2>4, OneCallMoves
<1>6. s.production => trail[c] = Story(call[c])
  BY <1>3 DEF TrailSound
<1> HIDE DEF ran
<1>7. CASE AuditFails /\ call' = [call EXCEPT ![c] = [ran EXCEPT !.result = "error"]]
  <2>1. trail' = [trail EXCEPT ![c] = trail[c]]
    BY <1>7, TrailStands DEF AuditFails
  <2>2. s.production => IsPrefix(Story(call[c]), trail[c])
    BY <1>6, StoryIsPrefix
  <2> DEFINE result == "error"
  <2>3. call' = [call EXCEPT ![c] = [ran EXCEPT !.result = result]] /\ result # "ok"
    BY <1>7
  <2> HIDE DEF result
  <2>4. QED
    BY <1>5, <2>1, <2>2, <2>3
<1>8. CASE AuditOk(c, outcome) /\ call' = [call EXCEPT ![c] = [ran EXCEPT !.result = outcome]]
  <2> DEFINE t == IF s.production THEN Append(trail[c], outcome) ELSE trail[c]
  <2>1. trail' = [trail EXCEPT ![c] = t]
    <3>1. CASE s.production
      BY <1>8, <3>1 DEF AuditOk, Production, Audited
    <3>2. CASE ~s.production
      BY <1>8, <3>2, TrailStands DEF AuditOk, Production
    <3>3. QED
      BY <3>1, <3>2
  <2>2. s.production => IsPrefix(Story(call[c]), t) /\ (outcome = "ok" => Last(t) = "ok")
    BY <1>6, StoryIsPrefix
  <2> HIDE DEF t
  <2>3. QED
    BY <1>5, <1>8, <2>1, <2>2
<1>9. QED
  BY <1>1, <1>7, <1>8

\* Nobody waits any longer: the calls whose question was not emitted end.
LEMMA EmitRequestsKeeps == GateInv /\ EmitRequests => GateInv'
<1> SUFFICES ASSUME GateInv, EmitRequests PROVE GateInv'
  OBVIOUS
<1> DEFINE s == gate.session
<1>1. trail' = trail /\ gate'.session = s /\ DOMAIN gate' = {"session", "phase"}
  BY DEF EmitRequests, GateInv
<1>2. CASE UNCHANGED call
  BY <1>1, <1>2 DEF GateInv
<1>3. CASE call' = [c \in Calls |-> IF call[c].at = "asking"
                                    THEN [call[c] EXCEPT !.at = "answered"] ELSE call[c]]
  <2>1. ASSUME NEW c \in Calls
        PROVE  CallSound(s, call'[c]) /\ TrailSound(s, call'[c], trail[c])
    <3>1. CallSound(s, call[c]) /\ TrailSound(s, call[c], trail[c])
      BY DEF GateInv
    <3>2. CASE call[c].at # "asking"
      BY <1>3, <3>1, <3>2
    <3>3. CASE call[c].at = "asking"
      <4> DEFINE k == [call[c] EXCEPT !.at = "answered"]
      <4>1. call'[c] = k
        BY <1>3, <3>3
      <4>2. /\ DOMAIN k = CallFields /\ k.tool = call[c].tool /\ k.input = call[c].input
            /\ k.ran = call[c].ran /\ k.result = call[c].result /\ k.at = "answered"
        BY <3>1 DEF CallSound, CallFields
      <4>3. k.ran = NoInput /\ k.result # "ok"
        BY <3>1, <3>3, <4>2 DEF CallSound
      <4> HIDE DEF k
      <4>4. CallSound(s, k) /\ TrailSound(s, k, trail[c])
        BY <3>1, <4>2, <4>3 DEF CallSound, TrailSound, CallStages
      <4>5. QED
        BY <4>1, <4>4
    <3>4. QED
      BY <3>2, <3>3
  <2>2. DOMAIN call' = Calls
    BY <1>3
  <2>3. QED
    BY <1>1, <2>1, <2>2 DEF GateInv
<1>4. QED
  BY <1>2, <1>3 DEF EmitRequests

LEMMA GateInitHolds == GateInit => GateInv
<1> SUFFICES ASSUME NEW s \in Sessions, GateStarts(s), call \in [Calls -> ProposedTo(s)]
             PROVE  GateInv
  BY DEF GateInit
<1>1. gate = [session |-> s, phase |-> "screening"] /\ trail = [c \in Calls |-> <<>>]
  BY DEF GateStarts
<1>2. ASSUME NEW c \in Calls
      PROVE  CallSound(s, call[c]) /\ TrailSound(s, call[c], trail[c])
  <2>0. PICK t \in s.tools : call[c] \in {Proposed(t, i) : i \in Inputs(t)}
    BY DEF ProposedTo
  <2>1. PICK i \in Inputs(t) : call[c] = Proposed(t, i)
    BY <2>0
  <2>2. i # NoInput
    BY <2>1, InputsAreInputs
  <2>3. /\ DOMAIN call[c] = CallFields /\ call[c].tool = t /\ call[c].input = i
        /\ call[c].at = "new" /\ call[c].result = "none" /\ call[c].approved = NoInput
        /\ call[c].ran = NoInput
    BY <2>1 DEF Proposed, CallFields
  <2>4. QED
    BY <1>1, <2>2, <2>3 DEF CallSound, TrailSound, CallStages
<1>3. QED
  BY <1>1, <1>2 DEF GateInv

LEMMA GateNextHolds == GateInv /\ [GateNext]_gateVars => GateInv'
<1> SUFFICES ASSUME GateInv, [GateNext]_gateVars PROVE GateInv'
  OBVIOUS
<1>1. ASSUME UNCHANGED <<call, trail>>, DOMAIN gate' = {"session", "phase"},
             gate'.session = gate.session
      PROVE  GateInv'
  BY <1>1 DEF GateInv
<1>2. CASE UNCHANGED gateVars
  BY <1>1, <1>2 DEF gateVars, GateInv
<1>3. CASE CancelRun
  BY <1>1, <1>3 DEF CancelRun, GateInv
<1>4. CASE EndAsking
  BY <1>1, <1>4 DEF EndAsking, GateInv
<1>5. QED
  BY <1>2, <1>3, <1>4, EmitRequestsKeeps, PolicyFailsKeeps, ScreenKeeps, ConsultKeeps,
     RefusedKeeps, AllowedKeeps, NotStartedKeeps, StartKeeps, FinishKeeps
     DEF GateNext, Foremost

-----------------------------------------------------------------------------
\* Rules over composite commands

\* What one rule says of a command and of each of its segments.
LEMMA RuleOnSegment ==
    ASSUME NEW rules, NEW i, NEW tool, tool.name = "Bash", NEW input, NEW k \in DOMAIN input
    PROVE  LET whole == RuleVerdictAt(rules, i, tool, input)
               part == RuleVerdictAt(rules, i, tool, <<input[k]>>)
           IN  (whole = "allow" => part = "allow") /\ (part = "deny" => whole = "deny")
<1> DEFINE rule == rules[i]
           bash == BashRulesFrom(rules, i)
           verdicts == {FirstMatchingBashDecision(bash, input[n]) : n \in DOMAIN input}
           single == {FirstMatchingBashDecision(bash, <<input[k]>>[n]) : n \in DOMAIN <<input[k]>>}
           d == FirstMatchingBashDecision(bash, input[k])
<1>1. single = {d} /\ <<input[k]>> # <<>> /\ d \in verdicts
  OBVIOUS
<1>2. EvaluateBashRules(bash, <<input[k]>>) = IF d \in {"allow", "deny"} THEN d ELSE "none"
  <2> HIDE DEF d
  <2>1. QED
    BY <1>1 DEF EvaluateBashRules, d
<1>3. "deny" \in verdicts => EvaluateBashRules(bash, input) = "deny"
  BY DEF EvaluateBashRules
<1>4. EvaluateBashRules(bash, input) = "allow" => verdicts = {"allow"}
  BY DEF EvaluateBashRules
<1>5. MatchToolRule(rule, tool, input) = MatchToolRule(rule, tool, <<input[k]>>)
  BY DEF MatchToolRule
<1>6. ~MatchPathRule(rule, tool, input) /\ ~MatchPathRule(rule, tool, <<input[k]>>)
  BY DEF MatchPathRule
<1> HIDE DEF bash, verdicts, d, single
<1>7. rule.kind = "bash" /\ Decisive(rule) =>
         /\ RuleVerdictAt(rules, i, tool, input) = EvaluateBashRules(bash, input)
         /\ RuleVerdictAt(rules, i, tool, <<input[k]>>) = EvaluateBashRules(bash, <<input[k]>>)
  BY DEF RuleVerdictAt, bash
<1>8. CASE rule.kind = "bash" /\ Decisive(rule)
  BY <1>1, <1>2, <1>3, <1>4, <1>7, <1>8
<1>9. CASE ~(rule.kind = "bash" /\ Decisive(rule))
  BY <1>5, <1>6, <1>9 DEF RuleVerdictAt
<1>10. QED
  BY <1>8, <1>9

FirstVerdict(rules, tool, input, v) ==
    \E i \in DOMAIN rules :
       /\ RuleVerdictAt(rules, i, tool, input) = v
       /\ \A j \in DOMAIN rules : j < i => RuleVerdictAt(rules, j, tool, input) = "none"

LEMMA FirstDecides ==
    ASSUME NEW S, NEW rules \in Seq(S), NEW tool, NEW input, NEW v, v # "none"
    PROVE  RuleVerdict(rules, tool, input) = v <=> FirstVerdict(rules, tool, input, v)
<1> DEFINE at(i) == RuleVerdictAt(rules, i, tool, input)
           deciding == {i \in DOMAIN rules : at(i) # "none"}
           first == Min(deciding)
<1>1. DOMAIN rules \subseteq Nat
  OBVIOUS
<1>2. RuleVerdict(rules, tool, input) = IF deciding = {} THEN "none" ELSE at(first)
  BY DEF RuleVerdict
<1>3. deciding # {} => first \in deciding /\ \A i \in deciding : first <= i
  <2>1. deciding \subseteq Nat
    BY <1>1
  <2> HIDE DEF deciding
  <2>2. QED
    BY <2>1, MinimumExists
<1> HIDE DEF first
<1>4. ASSUME deciding # {}
      PROVE  \A j \in DOMAIN rules : j < first => at(j) = "none"
  <2>1. ASSUME NEW j \in DOMAIN rules, j < first, at(j) # "none"
        PROVE  FALSE
    <3>1. j \in deciding /\ first <= j /\ first \in Nat /\ j \in Nat
      BY <1>1, <1>3, <1>4, <2>1
    <3>2. QED
      BY <2>1, <3>1
  <2>2. QED
    BY <2>1
<1>5. ASSUME NEW i \in DOMAIN rules, at(i) = v, \A j \in DOMAIN rules : j < i => at(j) = "none"
      PROVE  deciding # {} /\ first = i
  <2>1. i \in deciding
    BY <1>5
  <2>2. first \in DOMAIN rules /\ first <= i /\ at(first) # "none"
    BY <1>3, <2>1
  <2>3. ~(first < i)
    BY <1>5, <2>2
  <2>4. QED
    BY <1>1, <2>1, <2>2, <2>3
<1> HIDE DEF at
<1>6. ASSUME RuleVerdict(rules, tool, input) = v
      PROVE  \E i \in DOMAIN rules :
                at(i) = v /\ \A j \in DOMAIN rules : j < i => at(j) = "none"
  <2>1. deciding # {} /\ at(first) = v
    BY <1>2, <1>6
  <2>2. first \in DOMAIN rules
    BY <1>3, <2>1
  <2>3. QED
    BY <1>4, <2>1, <2>2
<1>7. QED
  BY <1>2, <1>5, <1>6 DEF at, FirstVerdict

\* A command as a whole is never judged more leniently than one of its segments.
LEMMA CompositeRules ==
    ASSUME NEW S, NEW rules \in Seq(S), NEW tool, tool.name = "Bash", NEW input,
           NEW k \in DOMAIN input
    PROVE  LET whole == RuleVerdict(rules, tool, input)
               part == RuleVerdict(rules, tool, <<input[k]>>)
           IN  (whole = "allow" => part = "allow") /\ (part = "deny" => whole = "deny")
<1> DEFINE all(i) == RuleVerdictAt(rules, i, tool, input)
           one(i) == RuleVerdictAt(rules, i, tool, <<input[k]>>)
           verdict == RuleVerdict(rules, tool, input)
           part == RuleVerdict(rules, tool, <<input[k]>>)
<1>1. \A i : (all(i) = "allow" => one(i) = "allow") /\ (one(i) = "deny" => all(i) = "deny")
  BY RuleOnSegment
<1>2. \A i : all(i) \in {"none", "allow", "deny"} /\ one(i) \in {"none", "allow", "deny"}
  BY RuleVerdictAtType
<1>3. DOMAIN rules \subseteq Nat
  OBVIOUS
<1>4. \A v : v # "none" => (verdict = v <=> FirstVerdict(rules, tool, input, v))
  BY FirstDecides
<1>5. \A v : v # "none" => (part = v <=> FirstVerdict(rules, tool, <<input[k]>>, v))
  BY FirstDecides
<1> HIDE DEF all, one, verdict, part
\* the first rule that decides on the segment, when it comes before i
<1>6. ASSUME NEW i \in DOMAIN rules, one(i) # "none"
      PROVE  \E n \in DOMAIN rules :
                n <= i /\ one(n) # "none" /\ \A j \in DOMAIN rules : j < n => one(j) = "none"
  <2> DEFINE D == {n \in DOMAIN rules : one(n) # "none"}
  <2>1. D \subseteq Nat /\ D # {} /\ i \in D
    BY <1>3, <1>6
  <2>2. Min(D) \in D /\ \A y \in D : Min(D) <= y
    <3> HIDE DEF D
    <3>1. QED
      BY <2>1, MinimumExists
  <2> DEFINE n == Min(D)
  <2> HIDE DEF n
  <2>3. n \in DOMAIN rules /\ n <= i /\ one(n) # "none"
    BY <2>1, <2>2 DEF n
  <2>4. ASSUME NEW j \in DOMAIN rules, j < n PROVE one(j) = "none"
    <3>1. ~(n <= j)
      BY <1>3, <2>3, <2>4
    <3>2. QED
      BY <2>2, <2>4, <3>1 DEF n
  <2>5. QED
    BY <2>3, <2>4
<1>7. ASSUME NEW i \in DOMAIN rules, all(i) # "none"
      PROVE  \E n \in DOMAIN rules :
                n <= i /\ all(n) # "none" /\ \A j \in DOMAIN rules : j < n => all(j) = "none"
  <2> DEFINE D == {n \in DOMAIN rules : all(n) # "none"}
  <2>1. D \subseteq Nat /\ D # {} /\ i \in D
    BY <1>3, <1>7
  <2>2. Min(D) \in D /\ \A y \in D : Min(D) <= y
    <3> HIDE DEF D
    <3>1. QED
      BY <2>1, MinimumExists
  <2> DEFINE n == Min(D)
  <2> HIDE DEF n
  <2>3. n \in DOMAIN rules /\ n <= i /\ all(n) # "none"
    BY <2>1, <2>2 DEF n
  <2>4. ASSUME NEW j \in DOMAIN rules, j < n PROVE all(j) = "none"
    <3>1. ~(n <= j)
      BY <1>3, <2>3, <2>4
    <3>2. QED
      BY <2>2, <2>4, <3>1 DEF n
  <2>5. QED
    BY <2>3, <2>4
<1>8. ASSUME verdict = "allow" PROVE part = "allow"
  <2>1. PICK i \in DOMAIN rules :
           all(i) = "allow" /\ \A j \in DOMAIN rules : j < i => all(j) = "none"
    BY <1>4, <1>8 DEF FirstVerdict, all
  <2>2. PICK n \in DOMAIN rules :
           n <= i /\ one(n) # "none" /\ \A j \in DOMAIN rules : j < n => one(j) = "none"
    BY <1>1, <1>6, <2>1
  <2>3. one(n) = "allow"
    <3>1. n < i \/ n = i
      BY <1>3, <2>2
    <3>2. CASE n = i
      BY <1>1, <2>1, <3>2
    <3>3. CASE n < i
      BY <1>1, <1>2, <2>1, <2>2, <3>3
    <3>4. QED
      BY <3>1, <3>2, <3>3
  <2>4. QED
    BY <1>5, <2>2, <2>3 DEF FirstVerdict, one
<1>9. ASSUME part = "deny" PROVE verdict = "deny"
  <2>1. PICK i \in DOMAIN rules :
           one(i) = "deny" /\ \A j \in DOMAIN rules : j < i => one(j) = "none"
    BY <1>5, <1>9 DEF FirstVerdict, one
  <2>2. PICK n \in DOMAIN rules :
           n <= i /\ all(n) # "none" /\ \A j \in DOMAIN rules : j < n => all(j) = "none"
    BY <1>1, <1>7, <2>1
  <2>3. all(n) = "deny"
    <3>1. n < i \/ n = i
      BY <1>3, <2>2
    <3>2. CASE n = i
      BY <1>1, <2>1, <3>2
    <3>3. CASE n < i
      BY <1>1, <1>2, <2>1, <2>2, <3>3
    <3>4. QED
      BY <3>1, <3>2, <3>3
  <2>4. QED
    BY <1>4, <2>2, <2>3 DEF FirstVerdict, all
<1>10. QED
  BY <1>8, <1>9 DEF verdict, part

LEMMA GateInvImplies == GateInv => GateSound
<1> SUFFICES ASSUME GateInv PROVE GateSound
  OBVIOUS
<1> DEFINE s == gate.session
<1>1. \A c \in Calls : CallSound(s, call[c]) /\ TrailSound(s, call[c], trail[c])
  BY DEF GateInv
<1>2. NothingRunsUnasked
  BY <1>1 DEF NothingRunsUnasked, CallSound, MayRun, MustAsk, Hard, Soft, Production
<1>3. ExecutedAsJudged
  BY <1>1 DEF ExecutedAsJudged, CallSound, Production
<1>4. AuditTellsTheStory
  BY <1>1, StoryIsPrefix DEF AuditTellsTheStory, TrailSound, Production
<1>5. CompositeNeverWider
  <2> SUFFICES ASSUME NEW tool \in {t \in s.tools : t.name = "Bash"}, NEW input \in Inputs(tool)
               PROVE  LET whole == RuleVerdict(s.rules, tool, input)
                          parts == {RuleVerdict(s.rules, tool, <<input[i]>>) : i \in DOMAIN input}
                      IN  (whole = "allow" => parts \subseteq {"allow"})
                          /\ ("deny" \in parts => whole = "deny")
    BY DEF CompositeNeverWider
  <2>1. s.rules \in Seq(Range(s.rules))
    BY GateAssumption DEF GateInv
  <2>2. \A k \in DOMAIN input :
           /\ RuleVerdict(s.rules, tool, input) = "allow"
              => RuleVerdict(s.rules, tool, <<input[k]>>) = "allow"
           /\ RuleVerdict(s.rules, tool, <<input[k]>>) = "deny"
              => RuleVerdict(s.rules, tool, input) = "deny"
    BY <2>1, CompositeRules
  <2>3. QED
    BY <2>2
<1>6. QED
  BY <1>2, <1>3, <1>4, <1>5 DEF GateSound

\* Whatever the model proposes, the policy and the rules say, the callback
\* answers and the audit loses, in any order of the calls of a batch: a call
\* runs only as it was judged and allowed, production has its story before it
\* runs, and a composite command is never judged more leniently than its parts.
THEOREM GateHolds == GateSpec => []GateSound
<1>1. GateInit => GateInv
  BY GateInitHolds
<1>2. GateInv /\ [GateNext]_gateVars => GateInv'
  BY GateNextHolds
<1>3. GateInv => GateSound
  BY GateInvImplies
<1>4. QED
  BY <1>1, <1>2, <1>3, PTL DEF GateSpec

-----------------------------------------------------------------------------
\* The runners of an evaluation

\* A scenario in the hands of a goroutine, and one that has been judged.
Holding(w) == worker[w].at \in {"has", "calling"}
Judged(i) == Len(answers[i]) = 1 /\ cases[i].scenario = i

EvalInv ==
    /\ suite \in Suites /\ Count \in Nat /\ next \in 1 .. Count + 1
    /\ pc \in {"new", "enqueueing", "closed", "done"}
    /\ DOMAIN cases = 1 .. Count /\ DOMAIN answers = 1 .. Count /\ DOMAIN worker = Pool
    /\ \A w \in Pool : DOMAIN worker[w] = {"at", "job"}
    /\ \A w \in Pool : Holding(w) =>
          /\ worker[w].job \in 1 .. next - 1
          /\ answers[worker[w].job] = <<>>
          /\ \A v \in Pool : v # w /\ Holding(v) => worker[v].job # worker[w].job
    /\ \A i \in next .. Count : answers[i] = <<>>
    /\ ~failed => \A i \in 1 .. next - 1 :
          Judged(i) \/ \E w \in Pool : Holding(w) /\ worker[w].job = i
    /\ pc = "closed" => failed \/ next = Count + 1
    /\ report # {} => pc = "done" /\ \A w \in Pool : worker[w].at = "gone"
    /\ ReportIsWhole

LEMMA CaseIsOfScenario ==
    ASSUME suite \in Suites, NEW i, NEW reply
    PROVE  CaseOf(i, reply).scenario = i
<1>1. suite.kind \in {"workflow", "agent", "extractor"}
  BY EvaluationAssumption
<1>2. WorkflowCase(i, reply).scenario = i
  BY DEF WorkflowCase
<1>3. AgentCase(i, reply).scenario = i
  BY DEF AgentCase
<1>4. ExtractionCase(i, reply).scenario = i
  BY DEF ExtractionCase
<1>5. QED
  BY <1>1, <1>2, <1>3, <1>4 DEF CaseOf

\* While no report has been returned there is nothing to be wrong about.
LEMMA NoReportYet == EvalInv /\ pc # "done" => report = {}
BY DEF EvalInv

\* A step that leaves what was run and judged alone.
LEMMA NothingJudged ==
    ASSUME EvalInv, UNCHANGED <<suite, next, worker, cases, answers, report>>, failed => failed',
           pc' \in {"new", "enqueueing", "closed", "done"},
           pc' = "closed" => failed' \/ next = Count + 1, report # {} => pc' = "done"
    PROVE  EvalInv'
<1>1. Count' = Count /\ ReportIsWhole'
  BY DEF EvalInv, ReportIsWhole, Count
<1>2. \A w : Holding(w)' <=> Holding(w)
  BY DEF Holding
<1>3. \A i : Judged(i)' <=> Judged(i)
  BY DEF Judged
<1>4. QED
  BY <1>1, <1>2, <1>3 DEF EvalInv

LEMMA StartSuiteKeeps == EvalInv /\ StartSuite => EvalInv'
<1> SUFFICES ASSUME EvalInv, StartSuite PROVE EvalInv'
  OBVIOUS
<1>1. /\ UNCHANGED <<suite, next, worker, cases, failed, answers, report>> /\ pc = "new"
      /\ pc' \in {"enqueueing", "done"}
  BY DEF StartSuite
<1>2. report = {}
  BY <1>1, NoReportYet
<1>3. QED
  BY <1>1, <1>2, NothingJudged

LEMMA CancelSuiteKeeps == EvalInv /\ CancelSuite => EvalInv'
<1> SUFFICES ASSUME EvalInv, CancelSuite PROVE EvalInv'
  OBVIOUS
<1>1. UNCHANGED <<suite, pc, next, worker, cases, failed, report, answers>>
  BY DEF CancelSuite
<1>2. QED
  BY <1>1, NothingJudged DEF EvalInv

LEMMA CloseJobsKeeps == EvalInv /\ CloseJobs => EvalInv'
<1> SUFFICES ASSUME EvalInv, CloseJobs PROVE EvalInv'
  OBVIOUS
<1>1. /\ UNCHANGED <<suite, next, worker, cases, answers, report>>
      /\ pc = "enqueueing" /\ pc' = "closed"
      /\ (next > Count /\ failed' = failed) \/ failed'
  BY DEF CloseJobs
<1>2. report = {}
  BY <1>1, NoReportYet
<1>3. next > Count => next = Count + 1
  BY DEF EvalInv
<1>4. QED
  BY <1>1, <1>2, <1>3, NothingJudged

LEMMA FinishSuiteKeeps == EvalInv /\ FinishSuite => EvalInv'
<1> SUFFICES ASSUME EvalInv, FinishSuite PROVE EvalInv'
  OBVIOUS
<1>1. /\ UNCHANGED <<suite, next, worker, cases, failed, answers>> /\ pc = "closed" /\ pc' = "done"
      /\ \A w \in Pool : worker[w].at = "gone"
      /\ report' # {} => ~failed /\ \A r \in report' : r.cases = cases
  BY DEF FinishSuite, Finished
<1>2. Count' = Count
  BY <1>1 DEF Count
<1>3. \A w : Holding(w)' <=> Holding(w)
  BY <1>1 DEF Holding
<1>4. \A i : Judged(i)' <=> Judged(i)
  BY <1>1 DEF Judged
<1>5. report' # {} => \A i \in 1 .. Count : Judged(i)
  <2> SUFFICES ASSUME report' # {}, NEW i \in 1 .. Count PROVE Judged(i)
    OBVIOUS
  <2>1. ~failed /\ next = Count + 1 /\ Count \in Nat
    BY <1>1 DEF EvalInv
  <2>2. i \in 1 .. next - 1 /\ \A w \in Pool : ~Holding(w)
    BY <1>1, <2>1 DEF Holding
  <2>3. QED
    BY <2>1, <2>2 DEF EvalInv
<1>6. ReportIsWhole'
  BY <1>1, <1>2, <1>5 DEF ReportIsWhole, Judged
<1>7. QED
  BY <1>1, <1>2, <1>3, <1>4, <1>6 DEF EvalInv

LEMMA RunScenarioKeeps ==
    ASSUME EvalInv, NEW reply, RunScenario(reply)
    PROVE  EvalInv'
<1>1. /\ UNCHANGED <<suite, worker, report>> /\ pc = "enqueueing" /\ next <= Count /\ report = {}
  BY NoReportYet DEF RunScenario
<1>2. CASE ~live
  <2>1. UNCHANGED <<cases, answers, next>> /\ failed' = TRUE /\ pc' = "closed"
    BY <1>2 DEF RunScenario
  <2>2. QED
    BY <1>1, <2>1, NothingJudged
<1>3. CASE live
  <2>1. /\ cases' = [cases EXCEPT ![next] = CaseOf(next, reply)]
        /\ answers' = [answers EXCEPT ![next] = Append(answers[next], reply)]
        /\ next' = next + 1 /\ UNCHANGED <<pc, failed>>
    BY <1>3 DEF RunScenario
  <2>2. next \in 1 .. Count /\ Count \in Nat /\ next \in Nat /\ Count' = Count
        /\ answers[next] = <<>>
    BY <1>1 DEF EvalInv, Count
  <2>3. Len(Append(answers[next], reply)) = 1
    BY <2>2
  <2>4. Len(answers'[next]) = 1 /\ cases'[next].scenario = next
    BY <2>1, <2>2, <2>3, CaseIsOfScenario DEF EvalInv
  <2>5. \A i \in 1 .. Count : i # next => answers'[i] = answers[i] /\ cases'[i] = cases[i]
    BY <2>1 DEF EvalInv
  <2>6. \A i \in 1 .. next - 1 : i # next /\ i \in 1 .. Count /\ (Judged(i) => Judged(i)')
    BY <2>2, <2>5 DEF Judged
  <2>7. \A w : Holding(w)' <=> Holding(w)
    BY <1>1 DEF Holding
  <2>8. \A w \in Pool : Holding(w)' =>
           /\ worker'[w].job \in 1 .. next' - 1
           /\ answers'[worker'[w].job] = <<>>
           /\ \A v \in Pool : v # w /\ Holding(v)' => worker'[v].job # worker'[w].job
    BY <1>1, <2>1, <2>2, <2>5, <2>6, <2>7 DEF EvalInv
  <2>9. \A i \in next' .. Count' : answers'[i] = <<>>
    BY <2>1, <2>2, <2>5 DEF EvalInv
  <2>10. ~failed' => \A i \in 1 .. next' - 1 :
            Judged(i)' \/ \E w \in Pool : Holding(w)' /\ worker'[w].job = i
    <3> SUFFICES ASSUME ~failed, NEW i \in 1 .. next
                 PROVE  Judged(i)' \/ \E w \in Pool : Holding(w)' /\ worker'[w].job = i
      BY <2>1, <2>2
    <3>1. CASE i = next
      BY <2>4, <3>1 DEF Judged
    <3>2. CASE i # next
      <4>1. i \in 1 .. next - 1
        BY <2>2, <3>2
      <4>2. QED
        BY <1>1, <2>6, <2>7, <4>1 DEF EvalInv
    <3>3. QED
      BY <3>1, <3>2
  <2>11. ReportIsWhole'
    BY <1>1 DEF ReportIsWhole
  <2>12. next' \in 1 .. Count' + 1
    BY <2>1, <2>2
  <2>13. DOMAIN cases' = 1 .. Count' /\ DOMAIN answers' = 1 .. Count'
    BY <2>1, <2>2 DEF EvalInv
  <2>14. QED
    BY <1>1, <2>1, <2>2, <2>8, <2>9, <2>10, <2>11, <2>12, <2>13 DEF EvalInv
<1>4. QED
  BY <1>2, <1>3

\* A goroutine that moves without taking or giving back a scenario.
LEMMA WorkerMoves ==
    ASSUME EvalInv, NEW w \in Pool, NEW at, worker' = [worker EXCEPT ![w].at = at],
           at \in {"has", "calling"} => Holding(w),
           Holding(w) => at \in {"has", "calling"} \/ failed',
           UNCHANGED <<suite, pc, next, cases, answers, report>>, failed => failed',
           report = {} \/ at = "gone"
    PROVE  EvalInv'
<1>1. Count' = Count
  BY DEF Count
<1>2. /\ DOMAIN worker' = Pool /\ \A v \in Pool : v # w => worker'[v] = worker[v]
      /\ worker'[w].at = at /\ worker'[w].job = worker[w].job
      /\ DOMAIN worker'[w] = {"at", "job"}
  BY DEF EvalInv
<1>3. \A v \in Pool : Holding(v)' => Holding(v)
  BY <1>2 DEF Holding
<1>4. \A v \in Pool : worker'[v].job = worker[v].job
  BY <1>2
<1>5. ~failed' => \A v \in Pool : Holding(v) => Holding(v)'
  BY <1>2 DEF Holding
<1>6. \A i : Judged(i)' <=> Judged(i)
  BY DEF Judged
<1>7. \A v \in Pool : DOMAIN worker'[v] = {"at", "job"}
  BY <1>2 DEF EvalInv
<1>8. report' # {} => \A v \in Pool : worker'[v].at = "gone"
  BY <1>2 DEF EvalInv
<1>9. ReportIsWhole'
  BY <1>1 DEF EvalInv, ReportIsWhole
<1>10. \A v \in Pool : Holding(v)' =>
          /\ worker'[v].job \in 1 .. next' - 1 /\ answers'[worker'[v].job] = <<>>
          /\ \A x \in Pool : x # v /\ Holding(x)' => worker'[x].job # worker'[v].job
  BY <1>3, <1>4 DEF EvalInv
<1>11. ~failed' => \A i \in 1 .. next' - 1 :
          Judged(i)' \/ \E v \in Pool : Holding(v)' /\ worker'[v].job = i
  BY <1>4, <1>5, <1>6 DEF EvalInv
<1>12. QED
  BY <1>1, <1>2, <1>7, <1>8, <1>9, <1>10, <1>11 DEF EvalInv

LEMMA CallKeeps == ASSUME EvalInv, NEW w \in Pool, Call(w) PROVE EvalInv'
<1>1. /\ worker[w].at = "has" /\ UNCHANGED <<suite, pc, next, cases, report, answers>>
  BY DEF Call
<1>2. report = {} /\ Holding(w)
  BY <1>1 DEF EvalInv, Holding
<1>3. CASE live
  <2>1. worker' = [worker EXCEPT ![w].at = "calling"] /\ UNCHANGED failed
    BY <1>3 DEF Call
  <2>2. QED
    BY <1>1, <1>2, <2>1, WorkerMoves
<1>4. CASE ~live
  <2>1. worker' = [worker EXCEPT ![w].at = "idle"] /\ failed' = TRUE
    BY <1>4 DEF Call
  <2>2. QED
    BY <1>1, <1>2, <2>1, WorkerMoves
<1>5. QED
  BY <1>3, <1>4

LEMMA LeaveKeeps == ASSUME EvalInv, NEW w \in Pool, Leave(w) PROVE EvalInv'
<1>1. /\ worker[w].at = "idle" /\ worker' = [worker EXCEPT ![w].at = "gone"]
      /\ UNCHANGED <<suite, pc, next, cases, failed, report, answers>>
  BY DEF Leave
<1>2. ~Holding(w)
  BY <1>1 DEF Holding
<1>3. QED
  BY <1>1, <1>2, WorkerMoves

LEMMA EnqueueKeeps == ASSUME EvalInv, NEW w \in Pool, Enqueue(w) PROVE EvalInv'
<1>1. /\ pc = "enqueueing" /\ next <= Count /\ worker[w].at = "idle" /\ report = {}
      /\ worker' = [worker EXCEPT ![w] = [at |-> "has", job |-> next]] /\ next' = next + 1
      /\ UNCHANGED <<suite, pc, cases, failed, report, answers>>
  BY NoReportYet DEF Enqueue
<1>2. Count' = Count /\ Count \in Nat /\ next \in 1 .. Count /\ next \in Nat /\ answers[next] = <<>>
  BY <1>1 DEF EvalInv, Count
<1>3. /\ DOMAIN worker' = Pool /\ \A v \in Pool : v # w => worker'[v] = worker[v]
      /\ worker'[w].at = "has" /\ worker'[w].job = next /\ DOMAIN worker'[w] = {"at", "job"}
  BY <1>1 DEF EvalInv
<1>4. ~Holding(w) /\ \A v \in Pool : v # w => (Holding(v)' <=> Holding(v))
  BY <1>1, <1>3 DEF Holding
<1>5. \A i : Judged(i)' <=> Judged(i)
  BY <1>1 DEF Judged
<1>6. \A v \in Pool : Holding(v)' =>
          /\ worker'[v].job \in 1 .. next' - 1 /\ answers'[worker'[v].job] = <<>>
          /\ \A x \in Pool : x # v /\ Holding(x)' => worker'[x].job # worker'[v].job
  <2> SUFFICES ASSUME NEW v \in Pool, Holding(v)'
               PROVE  /\ worker'[v].job \in 1 .. next' - 1 /\ answers'[worker'[v].job] = <<>>
                      /\ \A x \in Pool : x # v /\ Holding(x)' => worker'[x].job # worker'[v].job
    OBVIOUS
  <2>1. \A x \in Pool : x # w /\ Holding(x)' => worker'[x].job \in 1 .. next - 1
    BY <1>3, <1>4 DEF EvalInv
  <2>2. CASE v = w
    BY <1>1, <1>2, <1>3, <2>1, <2>2
  <2>3. CASE v # w
    BY <1>1, <1>2, <1>3, <1>4, <2>1, <2>3 DEF EvalInv
  <2>4. QED
    BY <2>2, <2>3
<1>7. ~failed' => \A i \in 1 .. next' - 1 :
          Judged(i)' \/ \E v \in Pool : Holding(v)' /\ worker'[v].job = i
  <2> SUFFICES ASSUME ~failed, NEW i \in 1 .. next
               PROVE  Judged(i)' \/ \E v \in Pool : Holding(v)' /\ worker'[v].job = i
    BY <1>1, <1>2
  <2>1. CASE i = next
    <3>1. Holding(w)'
      BY <1>3 DEF Holding
    <3>2. QED
      BY <1>3, <2>1, <3>1
  <2>2. CASE i # next
    <3>1. i \in 1 .. next - 1
      BY <1>2, <2>2
    <3>2. Judged(i) \/ \E v \in Pool : Holding(v) /\ worker[v].job = i
      BY <3>1 DEF EvalInv
    <3>3. QED
      BY <1>3, <1>4, <1>5, <3>2
  <2>3. QED
    BY <2>1, <2>2
<1>8. \A i \in next' .. Count' : answers'[i] = <<>>
  BY <1>1, <1>2 DEF EvalInv
<1>9. ReportIsWhole'
  BY <1>1 DEF ReportIsWhole
<1>10. next' \in 1 .. Count' + 1
  BY <1>1, <1>2
<1>11. \A v \in Pool : DOMAIN worker'[v] = {"at", "job"}
  BY <1>3 DEF EvalInv
<1>12. QED
  BY <1>1, <1>2, <1>3, <1>6, <1>7, <1>8, <1>9, <1>10, <1>11 DEF EvalInv

LEMMA AnswerKeeps == ASSUME EvalInv, NEW w \in Pool, NEW reply, Answer(w, reply) PROVE EvalInv'
<1> DEFINE job == worker[w].job
           broken == suite.kind = "agent" /\ reply.error # ""
<1>1. /\ worker[w].at = "calling" /\ failed' = (failed \/ broken)
      /\ cases' = IF broken THEN cases ELSE [cases EXCEPT ![job] = CaseOf(job, reply)]
      /\ answers' = [answers EXCEPT ![job] = Append(answers[job], reply)]
      /\ worker' = [worker EXCEPT ![w].at = "idle"]
      /\ UNCHANGED <<suite, pc, next, report>>
  BY DEF Answer
<1>2. Holding(w) /\ report = {} /\ Count' = Count
  BY <1>1 DEF EvalInv, Holding, Count
<1>3. job \in 1 .. next - 1 /\ job \in 1 .. Count /\ answers[job] = <<>> /\ next \in Nat
      /\ Count \in Nat
  BY <1>2 DEF EvalInv
<1>4. /\ DOMAIN worker' = Pool /\ \A v \in Pool : v # w => worker'[v] = worker[v]
      /\ worker'[w].at = "idle" /\ worker'[w].job = job /\ DOMAIN worker'[w] = {"at", "job"}
  <2>1. worker' = [worker EXCEPT ![w].at = "idle"]
    BY <1>1
  <2>2. QED
    BY <2>1 DEF EvalInv
<1>5. ~Holding(w)' /\ \A v \in Pool : v # w => (Holding(v)' <=> Holding(v))
  BY <1>4 DEF Holding
<1>6. \A i \in 1 .. Count : i # job => answers'[i] = answers[i] /\ cases'[i] = cases[i]
  BY <1>1 DEF EvalInv
<1>7. DOMAIN cases' = 1 .. Count' /\ DOMAIN answers' = 1 .. Count'
  BY <1>1, <1>2 DEF EvalInv
<1>8. ~failed' => Len(answers'[job]) = 1 /\ cases'[job].scenario = job
  <2>1. Len(Append(answers[job], reply)) = 1
    BY <1>3
  <2>2. CaseOf(job, reply).scenario = job
    BY CaseIsOfScenario DEF EvalInv
  <2> HIDE DEF job, broken
  <2>3. QED
    BY <1>1, <1>3, <2>1, <2>2 DEF EvalInv
<1> HIDE DEF broken
<1>9. \A v \in Pool : Holding(v)' =>
          /\ v # w /\ worker'[v].job \in 1 .. next' - 1 /\ answers'[worker'[v].job] = <<>>
          /\ \A x \in Pool : x # v /\ Holding(x)' => worker'[x].job # worker'[v].job
  <2> SUFFICES ASSUME NEW v \in Pool, Holding(v)'
               PROVE  /\ v # w /\ worker'[v].job \in 1 .. next' - 1
                      /\ answers'[worker'[v].job] = <<>>
                      /\ \A x \in Pool : x # v /\ Holding(x)' => worker'[x].job # worker'[v].job
    OBVIOUS
  <2>1. v # w /\ Holding(v) /\ worker'[v] = worker[v]
    BY <1>4, <1>5
  <2>2. worker[v].job # job /\ worker[v].job \in 1 .. next - 1 /\ answers[worker[v].job] = <<>>
    BY <1>2, <2>1 DEF EvalInv
  <2>3. worker[v].job \in 1 .. Count
    BY <1>3, <2>2 DEF EvalInv
  <2>4. \A x \in Pool : x # v /\ Holding(x)' => worker'[x].job # worker'[v].job
    BY <1>4, <1>5, <2>1 DEF EvalInv
  <2>5. QED
    BY <1>1, <1>6, <2>1, <2>2, <2>3, <2>4
<1>10. ~failed' => \A i \in 1 .. next' - 1 :
          Judged(i)' \/ \E v \in Pool : Holding(v)' /\ worker'[v].job = i
  <2> SUFFICES ASSUME ~failed', NEW i \in 1 .. next - 1
               PROVE  Judged(i)' \/ \E v \in Pool : Holding(v)' /\ worker'[v].job = i
    BY <1>1
  <2>1. CASE i = job
    BY <1>8, <2>1 DEF Judged
  <2>2. CASE i # job
    <3>1. i \in 1 .. Count /\ ~failed
      <4>1. failed => failed'
        BY <1>1
      <4>2. next \in 1 .. Count + 1
        BY DEF EvalInv
      <4>3. QED
        BY <1>3, <4>1, <4>2
    <3>2. Judged(i) \/ \E v \in Pool : Holding(v) /\ worker[v].job = i
      BY <3>1 DEF EvalInv
    <3>3. Judged(i) => Judged(i)'
      BY <1>6, <2>2, <3>1 DEF Judged
    <3>4. QED
      BY <1>4, <1>5, <2>2, <3>2, <3>3
  <2>3. QED
    BY <2>1, <2>2
<1>11. \A i \in next' .. Count' : answers'[i] = <<>>
  BY <1>1, <1>2, <1>3, <1>6 DEF EvalInv
<1>12. ReportIsWhole'
  BY <1>1, <1>2 DEF ReportIsWhole
<1>13. \A v \in Pool : DOMAIN worker'[v] = {"at", "job"}
  BY <1>4 DEF EvalInv
<1>14. pc' = "closed" => failed' \/ next' = Count' + 1
  BY <1>1, <1>2 DEF EvalInv
<1>15. QED
  BY <1>1, <1>2, <1>4, <1>7, <1>9, <1>10, <1>11, <1>12, <1>13, <1>14 DEF EvalInv

LEMMA EvalInitHolds == EvalInit => EvalInv
<1> SUFFICES ASSUME NEW chosen \in Suites, EvalStarts(chosen) PROVE EvalInv
  BY DEF EvalInit
<1>1. /\ suite = chosen /\ pc = "new" /\ next = 1 /\ failed = FALSE /\ report = {}
      /\ worker = [w \in Pool |-> [at |-> "idle", job |-> 0]]
      /\ cases = [i \in 1 .. Count |-> NoCase] /\ answers = [i \in 1 .. Count |-> <<>>]
  BY DEF EvalStarts
<1>2. Count \in Nat
  BY <1>1, EvaluationAssumption DEF Count
<1>3. \A w \in Pool : ~Holding(w)
  BY <1>1 DEF Holding
<1>4. QED
  BY <1>1, <1>2, <1>3 DEF EvalInv, ReportIsWhole

LEMMA EvalNextHolds == EvalInv /\ [EvalNext]_evalVars => EvalInv'
<1> SUFFICES ASSUME EvalInv, [EvalNext]_evalVars PROVE EvalInv'
  OBVIOUS
<1>1. CASE UNCHANGED evalVars
  <2>1. UNCHANGED <<suite, pc, next, worker, cases, failed, answers, report>>
    BY <1>1 DEF evalVars
  <2>2. QED
    BY <2>1, NothingJudged DEF EvalInv
<1>2. QED
  BY <1>1, CancelSuiteKeeps, StartSuiteKeeps, CloseJobsKeeps, FinishSuiteKeeps, RunScenarioKeeps,
     EnqueueKeeps, CallKeeps, LeaveKeeps, AnswerKeeps
     DEF EvalNext, Proceed, Work

\* Whatever the executors answer, in whatever order the goroutines of the pool
\* take scenarios, fail and finish, and whenever the caller gives up: a report
\* has every scenario in the order of the suite, each judged on its own answer.
THEOREM ReportsAreWhole == EvalSpec => []ReportIsWhole
<1>1. EvalInit => EvalInv
  BY EvalInitHolds
<1>2. EvalInv /\ [EvalNext]_evalVars => EvalInv'
  BY EvalNextHolds
<1>3. EvalInv => ReportIsWhole
  BY DEF EvalInv
<1>4. QED
  BY <1>1, <1>2, <1>3, PTL DEF EvalSpec
-----------------------------------------------------------------------------
\* What the totals of a report say of the answers: the gates

\* The totals over the first k pairs.
IsRunning(run, n, pairs) ==
    /\ run[0] = <<0, 0>> /\ run[n] = Total(pairs)
    /\ \A k \in 1..n : run[k] = Plus(run[k - 1], pairs[k])

LEMMA TotalStages ==
    ASSUME NEW n \in Nat, NEW pairs \in [1..n -> Nat \X Nat]
    PROVE  \E run \in [0..n -> Nat \X Nat] : IsRunning(run, n, pairs)
<1> DEFINE Pairs == Nat \X Nat
           Eq(f) == [s \in SUBSET (1..n) |->
                       IF s = {} THEN <<0, 0>>
                       ELSE Plus(f[s \ {Max(s)}], pairs[Max(s)])]
           iter == CHOOSE f : f = Eq(f)
           F == [k \in 1..n |-> [x \in Pairs |-> Plus(x, pairs[k])]]
<1>1. Total(pairs) = iter[1..n]
  <2>1. DOMAIN pairs = 1..n
    OBVIOUS
  <2>2. QED
    BY <2>1, Zenon DEF Total, FoldLeft, MapThenFoldSet
<1>2. <<0, 0>> \in Pairs /\ \A p, q \in Pairs : Plus(p, q) \in Pairs
  BY DEF Plus
<1> HIDE DEF Pairs
<1>3. \A k \in 1..n : pairs[k] \in Pairs
  BY DEF Pairs
<1>4. iter = Eq(iter)
  <2>1. F \in [1..n -> [Pairs -> Pairs]]
    BY <1>2, <1>3
  <2>2. PICK g \in [SUBSET (1..n) -> Pairs] : IsFold(g, n, <<0, 0>>, F)
    <3> HIDE DEF F
    <3>1. QED
      BY ONLY <2>1, n \in Nat, <1>2, FoldExists
  <2>3. \A s \in SUBSET (1..n) : s # {} => Max(s) \in 1..n /\ s \ {Max(s)} \in SUBSET (1..n)
    BY GreatestExists
  <2>4. g = Eq(g)
    BY <2>2, <2>3 DEF IsFold
  <2>5. QED
    BY <2>4
<1>5. \A k \in 1..n : iter[1..k] = Plus(iter[1..k - 1], pairs[k])
  <2> SUFFICES ASSUME NEW k \in 1..n PROVE iter[1..k] = Plus(iter[1..k - 1], pairs[k])
    OBVIOUS
  <2> HIDE DEF iter
  <2>1. iter[1..k] = Eq(iter)[1..k]
    BY <1>4
  <2>2. 1..k \in SUBSET (1..n) /\ 1..k # {} /\ Max(1..k) = k /\ (1..k) \ {Max(1..k)} = 1..k - 1
    <3>1. k \in Nat \ {0} /\ 1..k \in SUBSET (1..n)
      OBVIOUS
    <3>2. QED
      BY ONLY <3>1, GreatestOfInterval
  <2>3. QED
    BY <2>1, <2>2
<1>6. iter[1..0] = <<0, 0>>
  <2> HIDE DEF iter
  <2>1. 1..0 = {}
    OBVIOUS
  <2>2. QED
    BY <1>4, <2>1
<1>7. \A k \in 0..n : iter[1..k] \in Pairs
  <2> DEFINE T == {k \in 0..n : iter[1..k] \in Pairs}
  <2> HIDE DEF iter
  <2>1. 0 \in T
    <3>1. 0 \in 0..n
      OBVIOUS
    <3>2. iter[1..0] \in Pairs
      BY ONLY <1>2, <1>6
    <3>3. QED
      BY <3>1, <3>2, Zenon
  <2>2. \A k \in 0..n - 1 : k \in T => k + 1 \in T
    <3> SUFFICES ASSUME NEW k \in 0..n - 1, iter[1..k] \in Pairs PROVE k + 1 \in T
      OBVIOUS
    <3>1. k + 1 \in 1..n /\ (k + 1) - 1 = k
      OBVIOUS
    <3>2. iter[1..k + 1] = Plus(iter[1..k], pairs[k + 1])
      BY <1>5, <3>1
    <3>3. QED
      BY <1>2, <1>3, <3>1, <3>2
  <2>3. 0..n \subseteq T
    <3> HIDE DEF T
    <3>1. QED
      BY ONLY <2>1, <2>2, n \in Nat, SetInduction
  <2>4. QED
    BY <2>3
<1>8. QED
  <2> DEFINE run == [k \in 0..n |-> iter[1..k]]
  <2> HIDE DEF iter
  <2>1. run \in [0..n -> Pairs]
    BY <1>7
  <2>2. run[0] = <<0, 0>> /\ run[n] = Total(pairs)
    BY <1>1, <1>6
  <2>3. \A k \in 1..n : run[k] = Plus(run[k - 1], pairs[k])
    <3>1. \A k \in 1..n : k \in 0..n /\ k - 1 \in 0..n
      OBVIOUS
    <3>2. QED
      BY <1>5, <3>1
  <2> HIDE DEF run
  <2>4. IsRunning(run, n, pairs)
    BY <2>2, <2>3 DEF IsRunning
  <2>5. QED
    BY <2>1, <2>4 DEF Pairs

\* What a total says of the pairs it is made of.
LEMMA TotalSums ==
    ASSUME NEW n \in Nat, NEW pairs \in [1..n -> Nat \X Nat]
    PROVE  /\ Total(pairs) \in Nat \X Nat
           /\ \A j \in 1..n : pairs[j][1] <= Total(pairs)[1] /\ pairs[j][2] <= Total(pairs)[2]
           /\ Total(pairs)[2] > 0 => \E j \in 1..n : pairs[j][2] > 0
           /\ (\A j \in 1..n : pairs[j][1] <= pairs[j][2]) =>
                 /\ Total(pairs)[1] <= Total(pairs)[2]
                 /\ Total(pairs)[1] >= Total(pairs)[2] => \A j \in 1..n : Perfect(pairs[j])
<1>1. PICK run \in [0..n -> Nat \X Nat] : IsRunning(run, n, pairs)
  BY TotalStages
<1> DEFINE Bounds(k) == \A j \in 1..k : pairs[j][1] <= run[k][1] /\ pairs[j][2] <= run[k][2]
           Sampled(k) == run[k][2] > 0 => \E j \in 1..k : pairs[j][2] > 0
           Rated(k) == (\A j \in 1..k : pairs[j][1] <= pairs[j][2]) =>
                          /\ run[k][1] <= run[k][2]
                          /\ run[k][1] >= run[k][2] => \A j \in 1..k : Perfect(pairs[j])
           T == {k \in 0..n : Bounds(k) /\ Sampled(k) /\ Rated(k)}
<1>2. 0 \in T
  <2>1. run[0] = <<0, 0>> /\ 1..0 = {}
    BY <1>1 DEF IsRunning
  <2>2. Bounds(0) /\ Sampled(0) /\ Rated(0)
    BY <2>1
  <2>3. QED
    BY <2>2
<1>3. \A k \in 0..n - 1 : k \in T => k + 1 \in T
  <2> SUFFICES ASSUME NEW k \in 0..n - 1, Bounds(k), Sampled(k), Rated(k)
               PROVE  k + 1 \in T
    OBVIOUS
  <2>1. k + 1 \in 1..n /\ (k + 1) - 1 = k /\ k \in 0..n
    OBVIOUS
  <2>2. /\ run[k + 1][1] = run[k][1] + pairs[k + 1][1]
        /\ run[k + 1][2] = run[k][2] + pairs[k + 1][2]
    <3>1. run[k + 1] = Plus(run[k], pairs[k + 1])
      BY <1>1, <2>1 DEF IsRunning
    <3>2. QED
      BY <3>1 DEF Plus
  <2>3. /\ run[k][1] \in Nat /\ run[k][2] \in Nat
        /\ pairs[k + 1][1] \in Nat /\ pairs[k + 1][2] \in Nat
    BY <2>1
  <2>4. \A j \in 1..k + 1 : j \in 1..n /\ (j \in 1..k \/ j = k + 1)
    BY ONLY n \in Nat, k \in 0..n - 1
  <2>8. k + 1 \in 0..n
    OBVIOUS
  <2>5. Bounds(k + 1)
    <3> SUFFICES ASSUME NEW j \in 1..k + 1
                 PROVE  pairs[j][1] <= run[k + 1][1] /\ pairs[j][2] <= run[k + 1][2]
      OBVIOUS
    <3>0. \A a, b, c, d \in Nat : c = a + b => b <= c /\ (d <= a => d <= c)
      OBVIOUS
    <3>1. CASE j \in 1..k
      <4>1. pairs[j][1] <= run[k][1] /\ pairs[j][2] <= run[k][2]
        BY <3>1
      <4>2. pairs[j][1] \in Nat /\ pairs[j][2] \in Nat
        BY <2>4
      <4>3. run[k + 1][1] \in Nat /\ run[k + 1][2] \in Nat
        BY <2>8
      <4> DEFINE x1 == pairs[j][1]  x2 == pairs[j][2]
                 a1 == run[k][1]  a2 == run[k][2]  c1 == run[k + 1][1]  c2 == run[k + 1][2]
                 b1 == pairs[k + 1][1]  b2 == pairs[k + 1][2]
      <4>4. /\ x1 <= a1 /\ x2 <= a2 /\ c1 = a1 + b1 /\ c2 = a2 + b2
            /\ x1 \in Nat /\ x2 \in Nat /\ a1 \in Nat /\ a2 \in Nat /\ b1 \in Nat /\ b2 \in Nat
        BY ONLY <4>1, <4>2, <2>2, <2>3
      <4>5. x1 <= c1 /\ x2 <= c2
        <5> HIDE DEF x1, x2, a1, a2, b1, b2, c1, c2
        <5>1. QED
          BY ONLY <4>4
      <4>6. QED
        BY <4>5
    <3>2. CASE j = k + 1
      <4>1. run[k + 1][1] \in Nat /\ run[k + 1][2] \in Nat
        BY <2>8
      <4>2. QED
        BY ONLY <3>0, <3>2, <4>1, <2>2, <2>3
    <3>3. QED
      BY <2>4, <3>1, <3>2
  <2>6. Sampled(k + 1)
    <3> SUFFICES ASSUME run[k + 1][2] > 0 PROVE \E j \in 1..k + 1 : pairs[j][2] > 0
      OBVIOUS
    <3>1. CASE pairs[k + 1][2] > 0
      BY <3>1
    <3>2. CASE ~(pairs[k + 1][2] > 0)
      <4>1. run[k][2] > 0
        BY <2>1, <2>2, <2>3, <3>2
      <4>2. PICK j \in 1..k : pairs[j][2] > 0
        BY <4>1
      <4>3. QED
        BY <4>2
    <3>3. QED
      BY <3>1, <3>2
  <2>7. Rated(k + 1)
    <3> SUFFICES ASSUME \A j \in 1..k + 1 : pairs[j][1] <= pairs[j][2]
                 PROVE  /\ run[k + 1][1] <= run[k + 1][2]
                        /\ run[k + 1][1] >= run[k + 1][2] => \A j \in 1..k + 1 : Perfect(pairs[j])
      OBVIOUS
    <3>1. run[k][1] <= run[k][2] /\ pairs[k + 1][1] <= pairs[k + 1][2]
      OBVIOUS
    <3>2. run[k + 1][1] <= run[k + 1][2]
      BY <2>1, <2>2, <2>3, <3>1
    <3>3. ASSUME run[k + 1][1] >= run[k + 1][2], NEW j \in 1..k + 1 PROVE Perfect(pairs[j])
      <4>1. run[k][1] >= run[k][2] /\ pairs[k + 1][1] = pairs[k + 1][2]
        <5>1. run[k + 1][1] >= run[k + 1][2]
          BY <3>3
        <5> DEFINE a1 == run[k][1]  a2 == run[k][2]  c1 == run[k + 1][1]  c2 == run[k + 1][2]
                   b1 == pairs[k + 1][1]  b2 == pairs[k + 1][2]
        <5>2. /\ c1 >= c2 /\ a1 <= a2 /\ b1 <= b2 /\ c1 = a1 + b1 /\ c2 = a2 + b2
              /\ a1 \in Nat /\ a2 \in Nat /\ b1 \in Nat /\ b2 \in Nat
          BY ONLY <5>1, <2>2, <2>3, <3>1
        <5>3. a1 >= a2 /\ b1 = b2
          <6> HIDE DEF a1, a2, b1, b2, c1, c2
          <6>1. QED
            BY ONLY <5>2
        <5>4. QED
          BY <5>3
      <4>2. CASE j \in 1..k
        BY <4>1, <4>2
      <4>3. CASE j = k + 1
        BY <4>1, <4>3 DEF Perfect
      <4>4. QED
        BY <2>4, <4>2, <4>3
    <3>4. QED
      BY <3>2, <3>3
  <2> HIDE DEF Bounds, Sampled, Rated
  <2>9. QED
    BY <2>5, <2>6, <2>7, <2>8
<1>4. n \in T
  <2> HIDE DEF T
  <2>1. 0..n \subseteq T
    BY ONLY <1>2, <1>3, n \in Nat, SetInduction
  <2>2. QED
    BY <2>1
<1>5. run[n] = Total(pairs) /\ run[n] \in Nat \X Nat
  BY <1>1 DEF IsRunning
<1>6. QED
  BY <1>4, <1>5

\* Two finite sets of arguments: what they share is counted against the paths
\* either names.
LEMMA SharedArguments ==
    ASSUME NEW A, NEW B, IsArguments(A), IsArguments(B), NEW keys, keys = {leaf[1] : leaf \in A \cup B}
    PROVE  /\ Cardinality(A \cap B) \in Nat /\ Cardinality(keys) \in Nat
           /\ Cardinality(A \cap B) <= Cardinality(keys)
           /\ Cardinality(A \cap B) = Cardinality(keys) => A = B
           /\ keys = {} => A = B
<1> DEFINE shared == A \cap B
           f == [leaf \in shared |-> leaf[1]]
           g == [leaf \in A \cup B |-> leaf[1]]
<1>1. IsFiniteSet(A) /\ IsFiniteSet(B) /\ IsFiniteSet(A \cup B)
  BY FS_Union DEF IsArguments
<1>2. IsFiniteSet(shared)
  BY <1>1, FS_Subset
<1>3. IsFiniteSet(keys)
  <2>1. g \in Surjection(A \cup B, keys)
    BY DEF Surjection
  <2> HIDE DEF g
  <2>2. QED
    BY <1>1, <2>1, FS_Surjection
<1>4. f \in Injection(shared, keys)
  <2>1. f \in [shared -> keys]
    OBVIOUS
  <2>2. \A x, y \in shared : f[x] = f[y] => x = y
    BY DEF IsArguments
  <2> HIDE DEF f
  <2>3. QED
    BY <2>1, <2>2 DEF Injection, IsInjective
<1>5. /\ Cardinality(shared) <= Cardinality(keys)
      /\ Cardinality(shared) = Cardinality(keys) => f \in Surjection(shared, keys)
  <2> HIDE DEF f, shared
  <2>1. QED
    BY <1>3, <1>4, FS_Injection
<1>6. Cardinality(shared) \in Nat /\ Cardinality(keys) \in Nat
  <2> HIDE DEF shared
  <2>1. QED
    BY <1>2, <1>3, FS_CardinalityType
<1>7. ASSUME f \in Surjection(shared, keys) PROVE A = B
  <2>1. \A x \in A \cup B : \E y \in shared : y[1] = x[1]
    <3> SUFFICES ASSUME NEW x \in A \cup B PROVE \E y \in shared : y[1] = x[1]
      OBVIOUS
    <3>1. x[1] \in keys
      OBVIOUS
    <3>2. PICK y \in shared : f[y] = x[1]
      BY <1>7, <3>1 DEF Surjection
    <3>3. QED
      BY <3>2
  <2>2. \A x \in A : x \in B
    BY <2>1 DEF IsArguments
  <2>3. \A x \in B : x \in A
    BY <2>1 DEF IsArguments
  <2>4. QED
    BY <2>2, <2>3
<1>8. ASSUME keys = {} PROVE A = B
  <2>1. \A x \in A \cup B : x[1] \in keys
    OBVIOUS
  <2>2. QED
    BY <2>1, <1>8
<1>9. QED
  BY <1>5, <1>6, <1>7, <1>8

LEMMA LeavesAreArguments ==
    ASSUME NEW args, IsArguments(args)
    PROVE  IsArguments(FlattenMap(args)) /\ Cardinality(FlattenMap(args)) \in Nat
           /\ Cardinality(args) \in Nat
<1>1. FlattenMap(args) \in SUBSET args
  BY DEF FlattenMap
<1>2. IsFiniteSet(args) /\ IsFiniteSet(FlattenMap(args))
  BY <1>1, FS_Subset DEF IsArguments
<1>3. QED
  BY <1>1, <1>2, FS_CardinalityType DEF IsArguments

LEMMA CompareArgumentsSound ==
    ASSUME NEW x, NEW y, IsArguments(x), IsArguments(y)
    PROVE  /\ CompareArguments(x, y) \in Nat \X Nat
           /\ CompareArguments(x, y)[1] <= CompareArguments(x, y)[2]
           /\ Perfect(CompareArguments(x, y)) => FlattenMap(x) = FlattenMap(y)
<1> DEFINE e == FlattenMap(x)  a == FlattenMap(y)
           keys == {leaf[1] : leaf \in e \cup a}
<1>1. CompareArguments(x, y) = IF keys = {} THEN <<1, 1>>
                               ELSE <<Cardinality(e \cap a), Cardinality(keys)>>
  BY DEF CompareArguments
<1>2. IsArguments(e) /\ IsArguments(a)
  BY LeavesAreArguments
<1>3. /\ Cardinality(e \cap a) \in Nat /\ Cardinality(keys) \in Nat
      /\ Cardinality(e \cap a) <= Cardinality(keys)
      /\ Cardinality(e \cap a) = Cardinality(keys) => e = a
      /\ keys = {} => e = a
  <2> HIDE DEF e, a
  <2>1. QED
    BY <1>2, SharedArguments
<1> HIDE DEF e, a, keys
<1>4. CompareArguments(x, y) \in Nat \X Nat
      /\ CompareArguments(x, y)[1] <= CompareArguments(x, y)[2]
      /\ (Perfect(CompareArguments(x, y)) => e = a)
  BY <1>1, <1>3 DEF Perfect
<1>5. QED
  BY <1>4 DEF e, a

LEMMA StepsShape ==
    ASSUME NEW s, IsSteps(s)
    PROVE  /\ Len(s) \in Nat /\ DOMAIN s = 1..Len(s)
           /\ \A k \in 1..Len(s) : IsArguments(s[k].args) /\ (s[k].tool = NoTool => s[k].args = {})
           /\ Len(s) = 0 => s = <<>>
<1>1. s \in Seq(Range(s))
  BY DEF IsSteps
<1>2. Len(s) \in Nat /\ DOMAIN s = 1..Len(s) /\ (Len(s) = 0 => s = <<>>)
  BY <1>1
<1>3. \A k \in 1..Len(s) : s[k] \in Range(s)
  BY <1>2 DEF Range
<1>4. QED
  BY <1>2, <1>3 DEF IsSteps

LEMMA LengthsAre ==
    ASSUME NEW s, NEW t, IsSteps(s), IsSteps(t)
    PROVE  /\ Len(Longer(s, t)) \in Nat /\ Shorter(s, t) \in Nat
           /\ IsSteps(Longer(s, t))
           /\ \A k \in 1..Len(Longer(s, t)) : k <= Shorter(s, t) => k \in 1..Len(s) /\ k \in 1..Len(t)
<1>1. Len(s) \in Nat /\ Len(t) \in Nat
  BY StepsShape
<1>2. QED
  BY <1>1 DEF Longer, Shorter

\* The pairs of a total over the steps of two sides.
LEMMA PerfectTotal ==
    ASSUME NEW s, NEW t, IsSteps(s), IsSteps(t),
           NEW pairs, pairs = [k \in 1..Len(Longer(s, t)) |-> pairs[k]],
           \A k \in 1..Len(Longer(s, t)) :
              /\ pairs[k] \in Nat \X Nat /\ pairs[k][1] <= pairs[k][2]
              /\ Perfect(pairs[k]) => IF k <= Shorter(s, t)
                                      THEN FlattenMap(s[k].args) = FlattenMap(t[k].args)
                                      ELSE Longer(s, t)[k].tool = NoTool
    PROVE  /\ Total(pairs) \in Nat \X Nat /\ Total(pairs)[1] <= Total(pairs)[2]
           /\ Total(pairs)[1] >= Total(pairs)[2] => SameArguments(s, t)
<1> DEFINE n == Len(Longer(s, t))
<1>1. n \in Nat /\ Shorter(s, t) \in Nat /\ pairs \in [1..n -> Nat \X Nat]
  BY LengthsAre
<1>2. Shorter(s, t) <= n
  <2>1. Len(s) \in Nat /\ Len(t) \in Nat
    BY StepsShape
  <2>2. QED
    BY <2>1 DEF Shorter, Longer
<1>3. /\ Total(pairs) \in Nat \X Nat /\ Total(pairs)[1] <= Total(pairs)[2]
      /\ Total(pairs)[1] >= Total(pairs)[2] => \A k \in 1..n : Perfect(pairs[k])
  <2> HIDE DEF n
  <2>1. \A k \in 1..n : pairs[k][1] <= pairs[k][2]
    BY DEF n
  <2>2. QED
    BY <1>1, <2>1, TotalSums
<1>4. ASSUME \A k \in 1..n : Perfect(pairs[k]) PROVE SameArguments(s, t)
  <2>1. \A k \in 1..Shorter(s, t) : k \in 1..n /\ k <= Shorter(s, t)
    BY <1>1, <1>2
  <2>2. \A k \in Shorter(s, t) + 1..n : k \in 1..n /\ ~(k <= Shorter(s, t))
    BY <1>1, <1>2
  <2>3. QED
    BY <1>4, <2>1, <2>2 DEF SameArguments
<1>5. QED
  BY <1>3, <1>4

LEMMA ParametersTallySound ==
    ASSUME NEW s, NEW t, IsSteps(s), IsSteps(t)
    PROVE  /\ ParametersTally(s, t) \in Nat \X Nat
           /\ ParametersTally(s, t)[1] <= ParametersTally(s, t)[2]
           /\ Perfect(ParametersTally(s, t)) => SameArguments(s, t)
<1> DEFINE n == Len(Longer(s, t))
           missing(k) == Cardinality(FlattenMap(Longer(s, t)[k].args))
           pairs == [k \in 1..n |-> IF k <= Shorter(s, t)
                                    THEN CompareArguments(s[k].args, t[k].args)
                                    ELSE <<0, AtLeastOne(missing(k))>>]
<1>1. CASE s = <<>> /\ t = <<>>
  <2>1. ParametersTally(s, t) = <<1, 1>>
    BY <1>1 DEF ParametersTally
  <2>2. Shorter(s, t) = 0 /\ Len(Longer(s, t)) = 0
    BY <1>1 DEF Shorter, Longer
  <2>3. SameArguments(s, t)
    BY <2>2 DEF SameArguments
  <2>4. QED
    BY <2>1, <2>3
<1>2. CASE ~(s = <<>> /\ t = <<>>)
  <2>1. ParametersTally(s, t) = Total(pairs)
    BY <1>2 DEF ParametersTally
  <2>2. ASSUME NEW k \in 1..n
        PROVE  /\ pairs[k] \in Nat \X Nat /\ pairs[k][1] <= pairs[k][2]
               /\ Perfect(pairs[k]) => IF k <= Shorter(s, t)
                                       THEN FlattenMap(s[k].args) = FlattenMap(t[k].args)
                                       ELSE Longer(s, t)[k].tool = NoTool
    <3>1. CASE k <= Shorter(s, t)
      <4>1. IsArguments(s[k].args) /\ IsArguments(t[k].args)
        BY <3>1, LengthsAre, StepsShape
      <4>2. pairs[k] = CompareArguments(s[k].args, t[k].args)
        BY <3>1
      <4> HIDE DEF pairs
      <4>3. QED
        BY <3>1, <4>1, <4>2, CompareArgumentsSound
    <3>2. CASE ~(k <= Shorter(s, t))
      <4>1. missing(k) \in Nat
        BY LengthsAre, StepsShape, LeavesAreArguments
      <4>2. pairs[k] = <<0, AtLeastOne(missing(k))>>
        BY <3>2
      <4>3. AtLeastOne(missing(k)) \in Nat /\ AtLeastOne(missing(k)) > 0
        <5> HIDE DEF missing
        <5>1. QED
          BY <4>1 DEF AtLeastOne
      <4> HIDE DEF pairs, missing
      <4>4. QED
        BY <3>2, <4>2, <4>3 DEF Perfect
    <3>3. QED
      BY <3>1, <3>2
  <2>3. pairs = [k \in 1..n |-> pairs[k]]
    OBVIOUS
  <2> HIDE DEF pairs
  <2>4. /\ Total(pairs) \in Nat \X Nat /\ Total(pairs)[1] <= Total(pairs)[2]
        /\ Total(pairs)[1] >= Total(pairs)[2] => SameArguments(s, t)
    BY <2>2, <2>3, PerfectTotal
  <2>5. QED
    BY <2>1, <2>4 DEF Perfect
<1>3. QED
  BY <1>1, <1>2

LEMMA StepParametersSound ==
    ASSUME NEW s, NEW t, IsSteps(s), IsSteps(t)
    PROVE  /\ StepParameters(s, t) \in Nat \X Nat
           /\ StepParameters(s, t)[1] <= StepParameters(s, t)[2]
           /\ Perfect(StepParameters(s, t)) => SameArguments(s, t)
<1> DEFINE n == Len(Longer(s, t))
           keys(k) == {a[1] : a \in s[k].args \cup t[k].args}
           shared(k) == s[k].args \cap t[k].args
           missing(k) == Cardinality(Longer(s, t)[k].args)
           both(k) == IF s[k].tool = NoTool /\ t[k].tool = NoTool THEN <<0, 0>>
                      ELSE IF keys(k) = {} THEN <<1, 1>>
                           ELSE <<Cardinality(shared(k)), Cardinality(keys(k))>>
           one(k) == IF Longer(s, t)[k].tool = NoTool THEN <<0, 0>>
                     ELSE <<0, AtLeastOne(missing(k))>>
           pairs == [k \in 1..n |-> IF k <= Shorter(s, t) THEN both(k) ELSE one(k)]
<1>1. StepParameters(s, t) = Total(pairs)
  BY DEF StepParameters
<1>2. ASSUME NEW k \in 1..n
      PROVE  /\ pairs[k] \in Nat \X Nat /\ pairs[k][1] <= pairs[k][2]
             /\ Perfect(pairs[k]) => IF k <= Shorter(s, t)
                                     THEN FlattenMap(s[k].args) = FlattenMap(t[k].args)
                                     ELSE Longer(s, t)[k].tool = NoTool
  <2>1. CASE k <= Shorter(s, t)
    <3>1. /\ IsArguments(s[k].args) /\ IsArguments(t[k].args)
          /\ s[k].tool = NoTool /\ t[k].tool = NoTool => s[k].args = t[k].args
      BY <2>1, LengthsAre, StepsShape
    <3>2. pairs[k] = both(k)
      BY <2>1
    <3>3. /\ Cardinality(shared(k)) \in Nat /\ Cardinality(keys(k)) \in Nat
          /\ Cardinality(shared(k)) <= Cardinality(keys(k))
          /\ Cardinality(shared(k)) = Cardinality(keys(k)) => s[k].args = t[k].args
          /\ keys(k) = {} => s[k].args = t[k].args
      BY <3>1, SharedArguments
    <3> HIDE DEF pairs, shared, keys
    <3>4. /\ pairs[k] \in Nat \X Nat /\ pairs[k][1] <= pairs[k][2]
          /\ Perfect(pairs[k]) => s[k].args = t[k].args
      BY <3>1, <3>2, <3>3 DEF Perfect
    <3>5. QED
      BY <2>1, <3>4
  <2>2. CASE ~(k <= Shorter(s, t))
    <3>1. missing(k) \in Nat
      BY LengthsAre, StepsShape, LeavesAreArguments
    <3>2. pairs[k] = one(k)
      BY <2>2
    <3>3. AtLeastOne(missing(k)) \in Nat /\ AtLeastOne(missing(k)) > 0
      <4> HIDE DEF missing
      <4>1. QED
        BY <3>1 DEF AtLeastOne
    <3> HIDE DEF pairs, missing
    <3>4. QED
      BY <2>2, <3>2, <3>3 DEF Perfect
  <2>3. QED
    BY <2>1, <2>2
<1>3. pairs = [k \in 1..n |-> pairs[k]]
  OBVIOUS
<1> HIDE DEF pairs
<1>4. /\ Total(pairs) \in Nat \X Nat /\ Total(pairs)[1] <= Total(pairs)[2]
      /\ Total(pairs)[1] >= Total(pairs)[2] => SameArguments(s, t)
  BY <1>2, <1>3, PerfectTotal
<1>5. QED
  BY <1>1, <1>4 DEF Perfect

\* A case that has been judged was judged on an answer its executor could give;
\* an error of an agent is not judged, it fails the run.
Fair(i) ==
    cases[i].scenario # 0 =>
        /\ answers[i] # <<>> /\ AnswerTo(i) \in Replies(suite.kind)
        /\ cases[i] = CaseOf(i, AnswerTo(i))
        /\ suite.kind = "agent" => AnswerTo(i).error = ""

\* A report is about the cases as they are, all of them judged, and its gates
\* are about metrics of its kind.
Returned(r) ==
    /\ r.violations = EvaluateNamedGates
    /\ \A i \in 1..Count : cases[i].scenario # 0
    /\ \A g \in suite.gates : g.metric \in Metrics

FairInv == (\A i \in 1..Count : Fair(i)) /\ \A r \in report : Returned(r)

LEMMA NothingAnswered ==
    ASSUME FairInv, UNCHANGED <<suite, cases, answers, report>>
    PROVE  FairInv'
<1>1. Count' = Count /\ \A i : Fair(i)' <=> Fair(i)
  BY DEF Count, Fair, AnswerTo, CaseOf, WorkflowCase, AgentCase, ExtractionCase
<1>2. \A r : Returned(r)' <=> Returned(r)
  BY <1>1 DEF Returned, EvaluateNamedGates, Violated, Reading, Metrics, Count
<1>3. QED
  BY <1>1, <1>2 DEF FairInv

LEMMA CaseStays ==
    ASSUME UNCHANGED <<suite>>, NEW i, NEW reply
    PROVE  CaseOf(i, reply)' = CaseOf(i, reply)
BY DEF CaseOf, WorkflowCase, AgentCase, ExtractionCase

LEMMA FirstAnswer ==
    ASSUME NEW reply
    PROVE  Append(<<>>, reply) # <<>> /\ Append(<<>>, reply)[1] = reply
OBVIOUS

\* An answer to a scenario that had none yet, judged unless it broke the run.
LEMMA AnswerIsFair ==
    ASSUME EvalInv, FairInv, NEW i \in 1..Count, NEW reply \in Replies(suite.kind),
           answers[i] = <<>>, report = {}, UNCHANGED <<suite, report>>,
           answers' = [answers EXCEPT ![i] = Append(answers[i], reply)],
           \/ cases' = cases
           \/ /\ cases' = [cases EXCEPT ![i] = CaseOf(i, reply)]
              /\ suite.kind = "agent" => reply.error = ""
    PROVE  FairInv'
<1>1. Count' = Count /\ DOMAIN answers = 1..Count /\ DOMAIN cases = 1..Count
  BY DEF Count, EvalInv
<1>2. \A j, r : CaseOf(j, r)' = CaseOf(j, r)
  BY CaseStays
<1>3. ASSUME NEW j \in 1..Count PROVE Fair(j)'
  <2>1. CASE j # i
    <3>1. cases'[j] = cases[j] /\ answers'[j] = answers[j] /\ Fair(j)
      BY <1>1, <2>1 DEF FairInv
    <3>2. QED
      BY <1>2, <3>1 DEF Fair, AnswerTo
  <2>2. CASE j = i
    <3>1. answers'[i] = Append(<<>>, reply)
      BY <1>1
    <3>2. answers'[i] # <<>> /\ answers'[i][1] = reply
      BY <3>1, FirstAnswer
    <3>3. CASE cases' = cases
      <4>1. cases[i].scenario = 0
        BY DEF FairInv, Fair
      <4>2. QED
        BY <2>2, <3>3, <4>1 DEF Fair
    <3>4. CASE cases' = [cases EXCEPT ![i] = CaseOf(i, reply)] /\ (suite.kind = "agent" => reply.error = "")
      <4>1. cases'[i] = CaseOf(i, reply)
        BY <1>1, <3>4
      <4>2. QED
        BY <1>2, <2>2, <3>2, <3>4, <4>1 DEF Fair, AnswerTo
    <3>5. QED
      BY <3>3, <3>4
  <2>3. QED
    BY <2>1, <2>2
<1>4. QED
  BY <1>1, <1>3 DEF FairInv

LEMMA FairStep ==
    ASSUME EvalInv, FairInv, EvalNext
    PROVE  FairInv'
<1>1. CASE CancelSuite
  BY <1>1, NothingAnswered DEF CancelSuite
<1>2. CASE StartSuite
  BY <1>2, NothingAnswered DEF StartSuite
<1>3. CASE CloseJobs
  BY <1>3, NothingAnswered DEF CloseJobs
<1>4. CASE FinishSuite
  <2>1. UNCHANGED <<suite, cases, answers>>
    BY <1>4 DEF FinishSuite
  <2>2. \/ report' = {}
        \/ /\ \A g \in suite.gates : g.metric \in Metrics
           /\ ValidReport
           /\ report' = {[cases |-> cases, violations |-> EvaluateNamedGates]}
    BY <1>4 DEF FinishSuite, Finished
  <2>3. Count' = Count /\ EvaluateNamedGates' = EvaluateNamedGates /\ Metrics' = Metrics
    BY <2>1 DEF Count, EvaluateNamedGates, Violated, Reading, Metrics
  <2>4. \A i : Fair(i)' <=> Fair(i)
    BY <2>1 DEF Fair, AnswerTo, CaseOf, WorkflowCase, AgentCase, ExtractionCase
  <2>5. \A r \in report' : Returned(r)'
    BY <2>1, <2>2, <2>3 DEF Returned, ValidReport
  <2>6. QED
    BY <2>3, <2>4, <2>5 DEF FairInv
<1>5. ASSUME NEW reply \in Replies("workflow"), RunScenario(reply) PROVE FairInv'
  <2>1. /\ suite.kind = "workflow" /\ pc = "enqueueing" /\ next <= Count
        /\ UNCHANGED <<suite, report>>
    BY <1>5 DEF RunScenario
  <2>2. next \in 1..Count /\ answers[next] = <<>> /\ report = {}
    BY <2>1, NoReportYet DEF EvalInv, Count
  <2>3. CASE live
    <3>1. /\ cases' = [cases EXCEPT ![next] = CaseOf(next, reply)]
          /\ answers' = [answers EXCEPT ![next] = Append(answers[next], reply)]
      BY <1>5, <2>3 DEF RunScenario
    <3>2. QED
      BY <1>5, <2>1, <2>2, <3>1, AnswerIsFair
  <2>4. CASE ~live
    BY <1>5, <2>4, NothingAnswered DEF RunScenario
  <2>5. QED
    BY <2>3, <2>4
<1>6. ASSUME NEW w \in Pool, Enqueue(w) PROVE FairInv'
  BY <1>6, NothingAnswered DEF Enqueue
<1>7. ASSUME NEW w \in Pool, Call(w) PROVE FairInv'
  BY <1>7, NothingAnswered DEF Call
<1>8. ASSUME NEW w \in Pool, Leave(w) PROVE FairInv'
  BY <1>8, NothingAnswered DEF Leave
<1>9. ASSUME NEW w \in Pool, NEW reply \in Replies(suite.kind), Answer(w, reply) PROVE FairInv'
  <2> DEFINE job == worker[w].job
             broken == suite.kind = "agent" /\ reply.error # ""
  <2>1. /\ worker[w].at = "calling" /\ UNCHANGED <<suite, report>>
        /\ cases' = IF broken THEN cases ELSE [cases EXCEPT ![job] = CaseOf(job, reply)]
        /\ answers' = [answers EXCEPT ![job] = Append(answers[job], reply)]
    BY <1>9 DEF Answer
  <2>2. Holding(w) /\ report = {}
    BY <2>1 DEF EvalInv, Holding
  <2>3. job \in 1..Count /\ answers[job] = <<>>
    BY <2>2 DEF EvalInv
  <2> HIDE DEF job
  <2>4. QED
    BY <2>1, <2>2, <2>3, AnswerIsFair
<1>10. QED
  BY <1>1, <1>2, <1>3, <1>4, <1>5, <1>6, <1>7, <1>8, <1>9 DEF EvalNext, Proceed, Work

LEMMA FairStarts == EvalInit => FairInv
<1> SUFFICES ASSUME NEW chosen \in Suites, EvalStarts(chosen) PROVE FairInv
  BY DEF EvalInit
<1>1. report = {} /\ cases = [i \in 1..Count |-> NoCase]
  BY DEF EvalStarts
<1>2. \A i \in 1..Count : cases[i].scenario = 0
  BY <1>1 DEF NoCase
<1>3. QED
  BY <1>1, <1>2 DEF FairInv, Fair

Counted(metric) == [i \in 1..Count |-> cases[i].tally[metric]]

\* What a gate that is not violated says of its reading.
LEMMA RateIsRead ==
    ASSUME NEW g, ~Violated(g), g.metric # "p95_latency", g.metric # "average_llm_calls",
           Total(Counted(g.metric)) \in Nat \X Nat
    PROVE  LET total == Total(Counted(g.metric))
           IN  /\ g.metric \notin ZeroWhenUnmeasured => total[2] > 0
               /\ g.operator = "at_least" /\ g.value = <<1, 1>> => total[1] >= total[2]
               /\ g.operator = "at_most" /\ g.value = <<0, 1>> => total[2] = 0 \/ total[1] = 0
<1> DEFINE total == Total(Counted(g.metric))
           rate == MakeRate(g.metric, total, \A i \in 1..Count : cases[i].usage)
<1>1. Reading(g.metric) = rate
  BY DEF Reading, Counted
<1>2. total[1] \in Nat /\ total[2] \in Nat
  OBVIOUS
<1> HIDE DEF total
<1>3. /\ rate.num = (IF total[2] = 0 THEN 0 ELSE total[1]) /\ rate.den = AtLeastOne(total[2])
      /\ rate.measured = (total[2] > 0 \/ g.metric \in ZeroWhenUnmeasured)
  BY DEF MakeRate
<1> HIDE DEF rate
<1>4. /\ rate.measured
      /\ g.operator = "at_least" => ~(rate.num * g.value[2] < g.value[1] * rate.den)
      /\ g.operator = "at_most" => ~(rate.num * g.value[2] > g.value[1] * rate.den)
  BY <1>1 DEF Violated
<1>5. rate.num \in Nat /\ rate.den \in Nat
  BY <1>2, <1>3 DEF AtLeastOne
<1>6. g.metric \notin ZeroWhenUnmeasured => total[2] > 0
  BY <1>3, <1>4
<1>7. ASSUME g.operator = "at_least", g.value = <<1, 1>> PROVE total[1] >= total[2]
  <2>1. ~(rate.num * 1 < 1 * rate.den)
    BY <1>4, <1>7
  <2>2. ~(rate.num < rate.den)
    BY <2>1, <1>5
  <2>3. QED
    BY <2>2, <1>2, <1>3 DEF AtLeastOne
<1>8. ASSUME g.operator = "at_most", g.value = <<0, 1>> PROVE total[2] = 0 \/ total[1] = 0
  <2>1. ~(rate.num * 1 > 0 * rate.den)
    BY <1>4, <1>8
  <2>2. rate.num = 0
    BY <2>1, <1>5
  <2>3. QED
    BY <2>2, <1>2, <1>3
<1>9. QED
  BY <1>6, <1>7, <1>8 DEF total

\* Usage is an average over cases that all reported theirs.
LEMMA UsageIsRead ==
    ASSUME NEW g, ~Violated(g), g.metric = "average_llm_calls"
    PROVE  \A i \in 1..Count : cases[i].usage
<1> DEFINE total == Total(Counted(g.metric))
           used == \A i \in 1..Count : cases[i].usage
<1>1. Reading(g.metric).measured
  BY DEF Violated
<1>2. Reading(g.metric) = MakeRate(g.metric, total, used)
  BY DEF Reading, Counted
<1> HIDE DEF total, used
<1>3. MakeRate(g.metric, total, used).measured = used
  BY DEF MakeRate
<1>4. used
  BY <1>1, <1>2, <1>3
<1>5. QED
  BY <1>4 DEF used

\* The case of an answer, as the report has it.
Answered(i) ==
    /\ cases[i] = CaseOf(i, AnswerTo(i))
    /\ AnswerTo(i) \in Replies(suite.kind)
    /\ suite.kind = "agent" => AnswerTo(i).error = ""

LEMMA KindIs == EvalInv => suite.kind \in {"workflow", "agent", "extractor"}
BY EvaluationAssumption DEF EvalInv

\* What the cases of the three kinds hold, field by field.
LEMMA WorkflowCaseIs ==
    ASSUME NEW i, NEW a
    PROVE  LET c == WorkflowCase(i, a)  s == suite.scenarios[i]
           IN  /\ c.passed = (a.error = "" /\ CompareOutcome(s, a))
               /\ c.tally["task_success"] = <<Number(c.passed), 1>>
               /\ c.tally["parameters"] = Wanted(s, a).parameters
               /\ c.tally["unsafe_action"] = <<UnsafeActions(a.calls), Len(a.calls)>>
BY Zenon DEF WorkflowCase

LEMMA AgentCaseIs ==
    ASSUME NEW i, NEW a
    PROVE  LET c == AgentCase(i, a)  s == suite.scenarios[i]
           IN  /\ c.passed = CompareOutcome(s, a)
               /\ c.tally["task_success"] = <<Number(c.passed), 1>>
               /\ c.tally["parameters"] = Wanted(s, a).parameters
               /\ c.tally["unsafe_action"] = <<UnsafeActions(a.calls), Len(a.calls)>>
BY Zenon DEF AgentCase

LEMMA ExtractionCaseIs ==
    ASSUME NEW i, NEW a
    PROVE  LET c == ExtractionCase(i, a)  s == suite.scenarios[i]
           IN  /\ c.passed => ~Unexpected(s, a) /\ (a.error = "" => a.status = "valid")
               /\ c.tally["task_success"] = <<Number(c.passed), 1>>
               /\ c.usage = a.usage
BY Zenon DEF ExtractionCase

LEMMA CandidatesAre ==
    ASSUME NEW i, NEW a
    PROVE  \E both, one \in {0, 1} :
              /\ ExtractionCase(i, a).tally["unsafe_candidate"] = <<both, one>>
              /\ both = 0 => (suite.scenarios[i].critical => a.error # "")
              /\ one = 1 => suite.scenarios[i].critical
<1> DEFINE c == suite.scenarios[i].critical  d == a.error
           both == Number(c /\ d = "")  one == Number(c)
<1>1. ExtractionCase(i, a).tally["unsafe_candidate"] = <<both, one>>
  BY Zenon DEF ExtractionCase
<1> HIDE DEF c, d
<1>2. /\ both \in {0, 1} /\ one \in {0, 1}
      /\ both = 0 => (c => d # "")
      /\ one = 1 => c
  BY 0 # 1 DEF Number
<1> HIDE DEF both, one
<1>3. \E x, y \in {0, 1} :
         /\ ExtractionCase(i, a).tally["unsafe_candidate"] = <<x, y>>
         /\ x = 0 => (c => d # "")
         /\ y = 1 => c
  BY <1>1, <1>2
<1>4. QED
  BY <1>3, Zenon DEF c, d

LEMMA ExtractionParametersAre ==
    ASSUME NEW i, NEW a
    PROVE  LET s == suite.scenarios[i]
           IN  ExtractionCase(i, a).tally["parameters"] =
                  IF (IF a.error = "" THEN s.calls ELSE {}) = {} THEN <<0, 0>>
                  ELSE StepParameters(CHOOSE e \in IF a.error = "" THEN s.calls ELSE {} : TRUE,
                                      a.calls)
BY Zenon DEF ExtractionCase, Compared

LEMMA TaskIsTallied ==
    ASSUME EvalInv, NEW i \in 1..Count, Answered(i)
    PROVE  /\ cases[i].tally["task_success"] \in Nat \X Nat
           /\ cases[i].tally["task_success"][1] <= cases[i].tally["task_success"][2]
           /\ Perfect(cases[i].tally["task_success"]) => Succeeded(suite.scenarios[i], AnswerTo(i))
<1> DEFINE a == AnswerTo(i)  s == suite.scenarios[i]  passed == cases[i].passed
<1>1. cases[i].tally["task_success"] = <<Number(passed), 1>>
      /\ (passed => Succeeded(s, a))
  <2>1. CASE suite.kind = "workflow"
    <3>1. cases[i] = WorkflowCase(i, a)
      BY <2>1 DEF Answered, CaseOf
    <3>2. cases[i].tally["task_success"] = <<Number(passed), 1>>
      BY <3>1, WorkflowCaseIs
    <3>3. passed => a.error = "" /\ CompareOutcome(s, a)
      BY <3>1, WorkflowCaseIs
    <3>4. QED
      BY <2>1, <3>2, <3>3 DEF Succeeded, CompareOutcome
  <2>2. CASE suite.kind = "agent"
    <3>1. cases[i] = AgentCase(i, a)
      BY <2>2 DEF Answered, CaseOf
    <3>2. cases[i].tally["task_success"] = <<Number(passed), 1>>
      BY <3>1, AgentCaseIs
    <3>3. passed => CompareOutcome(s, a)
      BY <3>1, AgentCaseIs
    <3>4. QED
      BY <2>2, <3>2, <3>3 DEF Succeeded, CompareOutcome, Answered
  <2>3. CASE suite.kind = "extractor"
    <3>1. cases[i] = ExtractionCase(i, a)
      BY <2>3 DEF Answered, CaseOf
    <3>2. cases[i].tally["task_success"] = <<Number(passed), 1>>
      BY <3>1, ExtractionCaseIs
    <3>3. passed => ~Unexpected(s, a) /\ (a.error = "" => a.status = "valid")
      BY <3>1, ExtractionCaseIs
    <3>4. QED
      BY <2>3, <3>2, <3>3 DEF Succeeded, Unexpected
  <2>4. QED
    BY <2>1, <2>2, <2>3, KindIs
<1>2. Number(passed) \in {0, 1} /\ (Number(passed) = 1 => passed)
  BY DEF Number
<1> HIDE DEF a, s, passed
<1>3. /\ cases[i].tally["task_success"] \in Nat \X Nat
      /\ cases[i].tally["task_success"][1] <= cases[i].tally["task_success"][2]
      /\ Perfect(cases[i].tally["task_success"]) => Succeeded(s, a)
  BY <1>1, <1>2 DEF Perfect
<1>4. QED
  BY <1>3 DEF s, a

LEMMA ParametersAreTallied ==
    ASSUME EvalInv, NEW i \in 1..Count, Answered(i)
    PROVE  LET pair == cases[i].tally["parameters"]  s == suite.scenarios[i]
           IN  /\ pair \in Nat \X Nat /\ pair[1] <= pair[2]
               /\ pair[2] > 0 => s.calls # {}
               /\ Perfect(pair) => \A e \in s.calls :
                     AnswerTo(i).error = "" => SameArguments(e, AnswerTo(i).calls)
<1> DEFINE a == AnswerTo(i)  s == suite.scenarios[i]  pair == cases[i].tally["parameters"]
           first == CHOOSE e \in s.calls : TRUE
           taken == IF suite.kind = "extractor" /\ a.error # "" THEN {} ELSE s.calls
           told == IF suite.kind = "extractor" THEN StepParameters(first, a.calls)
                   ELSE ParametersTally(first, a.calls)
<1>1. pair = IF taken = {} THEN <<0, 0>> ELSE told
  <2>1. CASE suite.kind = "workflow"
    <3>1. cases[i] = WorkflowCase(i, a)
      BY <2>1 DEF Answered, CaseOf
    <3>2. pair = Wanted(s, a).parameters
      BY <3>1, WorkflowCaseIs
    <3>3. QED
      BY <2>1, <3>2 DEF Wanted, Compared
  <2>2. CASE suite.kind = "agent"
    <3>1. cases[i] = AgentCase(i, a)
      BY <2>2 DEF Answered, CaseOf
    <3>2. pair = Wanted(s, a).parameters
      BY <3>1, AgentCaseIs
    <3>3. QED
      BY <2>2, <3>2 DEF Wanted, Compared
  <2>3. CASE suite.kind = "extractor"
    <3>1. cases[i] = ExtractionCase(i, a)
      BY <2>3 DEF Answered, CaseOf
    <3>2. a.error # "" => pair = <<0, 0>>
      BY <3>1, ExtractionParametersAre
    <3>3. a.error = "" => pair = IF s.calls = {} THEN <<0, 0>> ELSE StepParameters(first, a.calls)
      BY <3>1, ExtractionParametersAre
    <3>4. QED
      BY <2>3, <3>2, <3>3
  <2>4. QED
    BY <2>1, <2>2, <2>3, KindIs
<1>2. /\ \A e \in s.calls : IsSteps(e) /\ e = first
      /\ IsSteps(a.calls)
  <2>1. suite \in Suites /\ Count \in Nat
    BY DEF EvalInv
  <2>2. suite.scenarios \in Seq(Range(suite.scenarios))
    BY <2>1, EvaluationAssumption
  <2>3. s \in Range(suite.scenarios)
    <3>1. DOMAIN suite.scenarios = 1..Count
      BY <2>2 DEF Count
    <3>2. QED
      BY <3>1 DEF Range
  <2>4. \A e, f \in s.calls : IsSteps(e) /\ e = f
    BY <2>1, <2>3, EvaluationAssumption
  <2>5. IsSteps(a.calls)
    BY KindIs, EvaluationAssumption DEF Answered
  <2>6. QED
    BY <2>4, <2>5
<1>3. s.calls # {} => IsSteps(first)
  BY <1>2
<1>4. s.calls # {} =>
         /\ told \in Nat \X Nat /\ told[1] <= told[2]
         /\ Perfect(told) => SameArguments(first, a.calls)
  <2>1. SUFFICES ASSUME s.calls # {}
                 PROVE  /\ told \in Nat \X Nat /\ told[1] <= told[2]
                        /\ Perfect(told) => SameArguments(first, a.calls)
    OBVIOUS
  <2>2. CASE suite.kind = "extractor"
    <3>1. told = StepParameters(first, a.calls) /\ IsSteps(first) /\ IsSteps(a.calls)
      BY <1>2, <1>3, <2>1, <2>2
    <3> HIDE DEF told, first, a, s
    <3>2. QED
      BY <3>1, StepParametersSound
  <2>3. CASE suite.kind # "extractor"
    <3>1. told = ParametersTally(first, a.calls) /\ IsSteps(first) /\ IsSteps(a.calls)
      BY <1>2, <1>3, <2>1, <2>3
    <3> HIDE DEF told, first, a, s
    <3>2. QED
      BY <3>1, ParametersTallySound
  <2>4. QED
    BY <2>2, <2>3
<1>5. taken # {} => s.calls # {}
  OBVIOUS
<1>6. taken = {} => \A e \in s.calls : a.error # ""
  OBVIOUS
<1> HIDE DEF told, first, taken
<1>7. /\ pair \in Nat \X Nat /\ pair[1] <= pair[2]
      /\ pair[2] > 0 => s.calls # {}
      /\ Perfect(pair) => \A e \in s.calls : a.error = "" => SameArguments(e, a.calls)
  <2> HIDE DEF pair, s, a
  <2>1. CASE taken = {}
    <3>1. pair = <<0, 0>>
      BY <1>1, <2>1
    <3>2. pair[1] = 0 /\ pair[2] = 0 /\ pair \in Nat \X Nat
      BY <3>1
    <3>3. pair[1] <= pair[2] /\ ~(pair[2] > 0)
      BY ONLY <3>2
    <3>4. \A e \in s.calls : a.error # ""
      BY <1>6, <2>1
    <3>5. QED
      BY ONLY <3>2, <3>3, <3>4, Zenon
  <2>2. CASE taken # {}
    <3>1. pair = told /\ s.calls # {}
      BY <1>1, <1>5, <2>2
    <3>2. QED
      BY <1>2, <1>4, <3>1
  <2>3. QED
    BY <2>1, <2>2
<1>8. QED
  BY <1>7

LEMMA UnsafeIsTallied ==
    ASSUME EvalInv, NEW i \in 1..Count, Answered(i), suite.kind # "extractor"
    PROVE  LET pair == cases[i].tally["unsafe_action"]
           IN  /\ pair \in Nat \X Nat
               /\ pair[1] = 0 \/ pair[2] = 0 => AskedBefore(AnswerTo(i))
<1> DEFINE a == AnswerTo(i)  pair == cases[i].tally["unsafe_action"]
           S == {k \in DOMAIN a.calls : a.calls[k].tool \in Consequential /\ ~a.calls[k].asked}
<1>1. pair = <<UnsafeActions(a.calls), Len(a.calls)>>
  <2>1. CASE suite.kind = "workflow"
    <3>1. cases[i] = WorkflowCase(i, a)
      BY <2>1 DEF Answered, CaseOf
    <3>2. QED
      BY <3>1, WorkflowCaseIs
  <2>2. CASE suite.kind = "agent"
    <3>1. cases[i] = AgentCase(i, a)
      BY <2>2 DEF Answered, CaseOf
    <3>2. QED
      BY <3>1, AgentCaseIs
  <2>3. QED
    BY <2>1, <2>2, KindIs
<1>2. UnsafeActions(a.calls) = Cardinality(S)
  BY DEF UnsafeActions
<1>3. Len(a.calls) \in Nat /\ DOMAIN a.calls = 1..Len(a.calls)
  <2>1. IsSteps(a.calls)
    BY KindIs, EvaluationAssumption DEF Answered
  <2> HIDE DEF a
  <2>2. QED
    BY <2>1, StepsShape
<1>4. IsFiniteSet(S)
  <2>1. S \in SUBSET (1..Len(a.calls))
    BY <1>3
  <2> DEFINE n == Len(a.calls)
  <2>2. n \in Nat
    BY <1>3
  <2> HIDE DEF n
  <2>3. IsFiniteSet(1..n)
    BY <2>2, FS_Interval
  <2> HIDE DEF S
  <2>4. QED
    BY <2>1, <2>3, FS_Subset DEF n
<1>5. Cardinality(S) \in Nat /\ (Cardinality(S) = 0 => S = {})
  <2> HIDE DEF S
  <2>1. QED
    BY <1>4, FS_CardinalityType, FS_EmptySet
<1>6. S = {} \/ Len(a.calls) = 0 => AskedBefore(a)
  <2>1. Len(a.calls) = 0 => DOMAIN a.calls = {}
    BY <1>3
  <2>2. QED
    BY <2>1 DEF AskedBefore
<1> HIDE DEF S, a
<1>7. pair \in Nat \X Nat /\ (pair[1] = 0 \/ pair[2] = 0 => AskedBefore(a))
  BY <1>1, <1>2, <1>3, <1>5, <1>6
<1>8. QED
  BY <1>7 DEF a

LEMMA CandidateIsTallied ==
    ASSUME EvalInv, NEW i \in 1..Count, Answered(i), suite.kind = "extractor"
    PROVE  LET pair == cases[i].tally["unsafe_candidate"]  s == suite.scenarios[i]
           IN  /\ pair \in Nat \X Nat
               /\ pair[2] > 0 => s.critical
               /\ pair[1] = 0 => (s.critical => AnswerTo(i).error # "")
<1> DEFINE a == AnswerTo(i)  s == suite.scenarios[i]
<1>1. cases[i] = ExtractionCase(i, a)
  BY DEF Answered, CaseOf
<1>2. PICK both \in {0, 1}, one \in {0, 1} :
         /\ cases[i].tally["unsafe_candidate"] = <<both, one>>
         /\ both = 0 => (s.critical => a.error # "")
         /\ one = 1 => s.critical
  BY <1>1, CandidatesAre
<1> HIDE DEF a, s
<1>3. both \in Nat /\ one \in Nat /\ (one > 0 => one = 1)
  OBVIOUS
<1>4. /\ <<both, one>> \in Nat \X Nat
      /\ <<both, one>>[2] > 0 => s.critical
      /\ <<both, one>>[1] = 0 => (s.critical => a.error # "")
  BY <1>2, <1>3
<1>5. QED
  BY <1>2, <1>4 DEF a, s

\* Each gate that is not violated is earned by the answers.
LEMMA GatesEarned ==
    ASSUME EvalInv, NEW g, ~Violated(g), g.metric \in Metrics,
           \A i \in 1..Count : Answered(i)
    PROVE  Earned(g)
<1> DEFINE pairs == Counted(g.metric)
           total == Total(pairs)
<1>1. Count \in Nat /\ \A i \in 1..Count : pairs[i] = cases[i].tally[g.metric]
  BY DEF EvalInv, Counted
<1>2. (\A i \in 1..Count : pairs[i] \in Nat \X Nat) => pairs \in [1..Count -> Nat \X Nat]
  BY DEF Counted
<1>3. ASSUME g.operator = "at_least", g.value = <<1, 1>>, g.metric = "task_success"
      PROVE  \A i \in 1..Count : Succeeded(suite.scenarios[i], AnswerTo(i))
  <2>1. \A i \in 1..Count :
           /\ pairs[i] \in Nat \X Nat /\ pairs[i][1] <= pairs[i][2]
           /\ Perfect(pairs[i]) => Succeeded(suite.scenarios[i], AnswerTo(i))
    BY <1>1, <1>3, TaskIsTallied
  <2>2. pairs \in [1..Count -> Nat \X Nat] /\ total \in Nat \X Nat
    <3>1. pairs \in [1..Count -> Nat \X Nat]
      BY <1>2, <2>1
    <3> HIDE DEF pairs
    <3>2. QED
      BY <1>1, <3>1, TotalSums
  <2>3. total[1] >= total[2]
    BY <1>3, <2>2, RateIsRead DEF ZeroWhenUnmeasured
  <2> HIDE DEF pairs
  <2>4. \A i \in 1..Count : Perfect(pairs[i])
    BY <1>1, <2>1, <2>2, <2>3, TotalSums
  <2>5. QED
    BY <2>1, <2>4
<1>4. ASSUME g.operator = "at_least", g.value = <<1, 1>>, g.metric = "parameters"
      PROVE  /\ \E i \in 1..Count : suite.scenarios[i].calls # {}
             /\ \A i \in 1..Count : \A e \in suite.scenarios[i].calls :
                   AnswerTo(i).error = "" => SameArguments(e, AnswerTo(i).calls)
  <2>1. \A i \in 1..Count :
           /\ pairs[i] \in Nat \X Nat /\ pairs[i][1] <= pairs[i][2]
           /\ pairs[i][2] > 0 => suite.scenarios[i].calls # {}
           /\ Perfect(pairs[i]) => \A e \in suite.scenarios[i].calls :
                 AnswerTo(i).error = "" => SameArguments(e, AnswerTo(i).calls)
    BY <1>1, <1>4, ParametersAreTallied
  <2>2. pairs \in [1..Count -> Nat \X Nat] /\ total \in Nat \X Nat
    <3>1. pairs \in [1..Count -> Nat \X Nat]
      BY <1>2, <2>1
    <3> HIDE DEF pairs
    <3>2. QED
      BY <1>1, <3>1, TotalSums
  <2>3. total[1] >= total[2] /\ total[2] > 0
    BY <1>4, <2>2, RateIsRead DEF ZeroWhenUnmeasured
  <2> HIDE DEF pairs
  <2>4. (\A i \in 1..Count : Perfect(pairs[i])) /\ \E i \in 1..Count : pairs[i][2] > 0
    BY <1>1, <2>1, <2>2, <2>3, TotalSums
  <2>5. QED
    BY <2>1, <2>4
<1>5. ASSUME g.operator = "at_most", g.value = <<0, 1>>, g.metric = "unsafe_action"
      PROVE  \A i \in 1..Count : AskedBefore(AnswerTo(i))
  <2>1. suite.kind # "extractor"
    BY <1>5 DEF Metrics, ExtractorMetrics
  <2>2. \A i \in 1..Count :
           /\ pairs[i] \in Nat \X Nat
           /\ pairs[i][1] = 0 \/ pairs[i][2] = 0 => AskedBefore(AnswerTo(i))
    BY <1>1, <1>5, <2>1, UnsafeIsTallied
  <2>3. pairs \in [1..Count -> Nat \X Nat] /\ total \in Nat \X Nat
    <3>1. pairs \in [1..Count -> Nat \X Nat]
      BY <1>2, <2>2
    <3> HIDE DEF pairs
    <3>2. QED
      BY <1>1, <3>1, TotalSums
  <2>4. total[1] = 0 \/ total[2] = 0
    BY <1>5, <2>3, RateIsRead
  <2> HIDE DEF pairs
  <2>5. \A i \in 1..Count : pairs[i][1] <= total[1] /\ pairs[i][2] <= total[2]
    BY <1>1, <2>3, TotalSums
  <2>6. \A i \in 1..Count : pairs[i][1] = 0 \/ pairs[i][2] = 0
    BY <2>3, <2>4, <2>5
  <2>7. QED
    BY <2>2, <2>6
<1>6. ASSUME g.operator = "at_most", g.value = <<0, 1>>, g.metric = "unsafe_candidate"
      PROVE  /\ \E i \in 1..Count : suite.scenarios[i].critical
             /\ \A i \in 1..Count : suite.scenarios[i].critical => AnswerTo(i).error # ""
  <2>1. suite.kind = "extractor"
    BY <1>6, KindIs DEF Metrics, AgentMetrics, WorkflowMetrics
  <2>2. \A i \in 1..Count :
           /\ pairs[i] \in Nat \X Nat
           /\ pairs[i][2] > 0 => suite.scenarios[i].critical
           /\ pairs[i][1] = 0 => (suite.scenarios[i].critical => AnswerTo(i).error # "")
    BY <1>1, <1>6, <2>1, CandidateIsTallied
  <2>3. pairs \in [1..Count -> Nat \X Nat] /\ total \in Nat \X Nat
    <3>1. pairs \in [1..Count -> Nat \X Nat]
      BY <1>2, <2>2
    <3> HIDE DEF pairs
    <3>2. QED
      BY <1>1, <3>1, TotalSums
  <2>4. total[2] > 0 /\ (total[1] = 0 \/ total[2] = 0)
    BY <1>6, <2>3, RateIsRead DEF ZeroWhenUnmeasured
  <2> HIDE DEF pairs
  <2>5. /\ \E i \in 1..Count : pairs[i][2] > 0
        /\ \A i \in 1..Count : pairs[i][1] <= total[1]
    BY <1>1, <2>3, <2>4, TotalSums
  <2>6. \A i \in 1..Count : pairs[i][1] = 0
    <3> HIDE DEF total
    <3>1. total[1] = 0
      BY <2>3, <2>4
    <3>2. QED
      BY <2>3, <2>5, <3>1
  <2>7. QED
    BY <2>2, <2>5, <2>6
<1>7. ASSUME g.metric = "average_llm_calls"
      PROVE  \A i \in 1..Count : AnswerTo(i).usage
  <2>1. suite.kind = "extractor"
    BY <1>7, KindIs DEF Metrics, AgentMetrics, WorkflowMetrics
  <2>2. \A i \in 1..Count : cases[i].usage
    BY <1>7, UsageIsRead
  <2>3. \A i \in 1..Count : cases[i] = ExtractionCase(i, AnswerTo(i))
    BY <2>1 DEF Answered, CaseOf
  <2>4. \A i \in 1..Count : ExtractionCase(i, AnswerTo(i)).usage = AnswerTo(i).usage
    BY ExtractionCaseIs
  <2>5. QED
    BY <2>2, <2>3, <2>4
<1>8. QED
  BY <1>3, <1>4, <1>5, <1>6, <1>7 DEF Earned

LEMMA SoundWhenFair == EvalInv /\ FairInv => EvaluationSound
<1> SUFFICES ASSUME EvalInv, FairInv PROVE EvaluationSound
  OBVIOUS
<1>1. ASSUME NEW r \in report, r.violations = {}, NEW g \in suite.gates PROVE Earned(g)
  <2>1. Returned(r)
    BY DEF FairInv
  <2>2. ~Violated(g) /\ g.metric \in Metrics
    BY <1>1, <2>1 DEF Returned, EvaluateNamedGates
  <2>3. \A i \in 1..Count : Answered(i)
    BY <2>1 DEF FairInv, Returned, Fair, Answered
  <2>4. QED
    BY <2>2, <2>3, GatesEarned
<1>2. GatesAreEarned
  BY <1>1 DEF GatesAreEarned
<1>3. QED
  BY <1>2 DEF EvaluationSound, EvalInv

\* Whatever the executors answer and in whatever order: a report is whole, and
\* when none of its gates is violated every gate says of the answers what it is
\* for. A gate at the limit of a rate is met by every case of the suite, and a
\* rate without a sample meets none.
THEOREM EvaluationIsSound == EvalSpec => []EvaluationSound
<1>1. EvalInit => EvalInv /\ FairInv
  BY EvalInitHolds, FairStarts
<1>2. EvalInv /\ FairInv /\ [EvalNext]_evalVars => (EvalInv /\ FairInv)'
  <2> SUFFICES ASSUME EvalInv, FairInv, [EvalNext]_evalVars PROVE EvalInv' /\ FairInv'
    OBVIOUS
  <2>1. EvalInv'
    BY EvalNextHolds
  <2>2. CASE UNCHANGED evalVars
    BY <2>1, <2>2, NothingAnswered DEF evalVars
  <2>3. CASE EvalNext
    BY <2>1, <2>3, FairStep
  <2>4. QED
    BY <2>2, <2>3
<1>3. EvalInv /\ FairInv => EvaluationSound
  BY SoundWhenFair
<1>4. QED
  BY <1>1, <1>2, <1>3, PTL DEF EvalSpec
==============================================================================
