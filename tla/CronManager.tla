---------------------------- MODULE CronManager ----------------------------
(* The scheduled prompts of the tool host: tools.CronManager. Each job has  *)
(* a goroutine that sleeps until its next minute, looks whether the job is  *)
(* still registered, appends the prompt to the session, and computes the    *)
(* next minute. CronDelete and Close take the job out of the map under the  *)
(* lock and cancel its context. The wall clock never steps back: the loop   *)
(* computes each next minute from it, and would fire again in one that it   *)
(* repeats.                                                                 *)
EXTENDS Integers, FiniteSets, FiniteSetsExt

CONSTANTS
    MaxJobs,            \* bound: jobs ever created
    MaxMinute,          \* bound: the minutes that pass; also the search horizon
    Schedules           \* the expressions: each the set of minutes it matches

Jobs == 1 .. MaxJobs
Minutes == 0 .. MaxMinute
NoMinute == -1

ASSUME CronAssumption ==
    /\ MaxJobs \in Nat /\ MaxMinute \in Nat
    /\ Schedules \subseteq SUBSET Minutes

VARIABLES
    minute,         \* the wall clock
    jobs,           \* the manager's map
    created,        \* the manager's sequence number
    cronEnded,      \* the manager's context has been cancelled
    loop,           \* job -> its goroutine, its context and its schedule
    deleting        \* the job a CronDelete has taken out and not yet cancelled
cronVars == <<minute, jobs, created, cronEnded, loop, deleting>>

(* since, fires and late are for the properties: when the job was created,  *)
(* how often it has fired, and whether it began to after its CronDelete     *)
(* had returned.                                                            *)
NoLoop == [pc |-> "none", next |-> NoMinute, schedule |-> {}, cancelled |-> FALSE,
           deleted |-> FALSE, since |-> 0, fires |-> 0, late |-> FALSE]

CronInit ==
    /\ minute = 0 /\ created = 0 /\ cronEnded = FALSE /\ deleting = 0
    /\ jobs = {}
    /\ loop = [j \in Jobs |-> NoLoop]

(* nextCronTime: the first matching minute after the one that is running,   *)
(* or no time at all when there is none before the horizon.                 *)
NextCronTime(schedule, now) ==
    LET later == {m \in schedule : m > now}
    IN IF later = {} THEN NoMinute ELSE Min(later)

Cancelled(j) == cronEnded \/ loop[j].cancelled

-----------------------------------------------------------------------------
(* CronCreate: registered under the lock, then the goroutine is started. A  *)
(* job that matches no minute is registered and its goroutine returns.      *)
CronCreate ==
    /\ created < MaxJobs
    /\ \E s \in Schedules :
          LET j == created + 1
              next == NextCronTime(s, minute)
          IN /\ created' = j
             /\ jobs' = jobs \cup {j}
             /\ loop' = [loop EXCEPT ![j] =
                   [NoLoop EXCEPT !.pc = IF next = NoMinute THEN "ended" ELSE "sleeping",
                                  !.next = next, !.schedule = s, !.since = minute]]
    /\ UNCHANGED <<minute, cronEnded, deleting>>

(* CronDelete: out of the map under the lock, then cancelled outside it. An *)
(* unknown job is reported as not found.                                    *)
CronDelete ==
    /\ deleting = 0
    /\ \E j \in jobs : jobs' = jobs \ {j} /\ deleting' = j
    /\ UNCHANGED <<minute, created, cronEnded, loop>>

(* Mutant: the job leaves the map and its context is never cancelled.       *)
CronDeleteForgetsCancel ==
    /\ deleting # 0
    /\ loop' = [loop EXCEPT ![deleting].deleted = TRUE]
    /\ deleting' = 0
    /\ UNCHANGED <<minute, jobs, created, cronEnded>>

CronDeleteReturns ==
    /\ deleting # 0
    /\ loop' = [loop EXCEPT ![deleting].cancelled = TRUE, ![deleting].deleted = TRUE]
    /\ deleting' = 0
    /\ UNCHANGED <<minute, jobs, created, cronEnded>>

CronClose ==
    /\ cronEnded' = TRUE
    /\ loop' = [j \in Jobs |-> [loop[j] EXCEPT !.cancelled = @ \/ j \in jobs]]
    /\ jobs' = {}
    /\ UNCHANGED <<minute, created, deleting>>

-----------------------------------------------------------------------------
(* runCronLoop *)

(* select: the context or the timer, either when both are ready.            *)
Wake(j) ==
    /\ loop[j].pc = "sleeping"
    /\ \/ Cancelled(j) /\ loop' = [loop EXCEPT ![j].pc = "ended"]
       \/ minute >= loop[j].next /\ loop' = [loop EXCEPT ![j].pc = "awake"]
    /\ UNCHANGED <<minute, jobs, created, cronEnded, deleting>>

CheckRegistered(j) ==
    /\ loop[j].pc = "awake"
    /\ loop' = [loop EXCEPT ![j].pc = IF j \in jobs THEN "firing" ELSE "ended"]
    /\ UNCHANGED <<minute, jobs, created, cronEnded, deleting>>

(* AppendMessages, whose first act in every session store is to refuse a    *)
(* cancelled context. The loop ends when it is refused or fails.            *)
BeginFire(j) ==
    /\ loop[j].pc = "firing"
    /\ IF Cancelled(j)
       THEN loop' = [loop EXCEPT ![j].pc = "ended"]
       ELSE loop' = [loop EXCEPT ![j].pc = "appending",
                                 ![j].late = @ \/ loop[j].deleted]
    /\ UNCHANGED <<minute, jobs, created, cronEnded, deleting>>

Fire(j) ==
    /\ loop[j].pc = "appending"
    /\ \/ loop' = [loop EXCEPT ![j].pc = "ended"]
       \/ loop' = [loop EXCEPT ![j].pc = "fired", ![j].fires = @ + 1]
    /\ UNCHANGED <<minute, jobs, created, cronEnded, deleting>>

Reschedule(j) ==
    LET next == NextCronTime(loop[j].schedule, minute) IN
    /\ loop[j].pc = "fired"
    /\ loop' = [loop EXCEPT ![j].pc = IF next = NoMinute THEN "ended" ELSE "sleeping",
                            ![j].next = next]
    /\ UNCHANGED <<minute, jobs, created, cronEnded, deleting>>

Minute ==
    /\ minute < MaxMinute
    /\ minute' = minute + 1
    /\ UNCHANGED <<jobs, created, cronEnded, loop, deleting>>

CronLoop(j) == Wake(j) \/ CheckRegistered(j) \/ BeginFire(j) \/ Fire(j) \/ Reschedule(j)

CronNext ==
    \/ CronCreate \/ CronDelete \/ CronDeleteReturns \/ CronClose \/ Minute
    \/ \E j \in Jobs : CronLoop(j)

CronSpec == CronInit /\ [][CronNext]_cronVars

-----------------------------------------------------------------------------
(* A job fires at most once for every minute its expression has matched     *)
(* since it was created, however long its goroutine was kept waiting.       *)
OneFirePerMinute ==
    \A j \in Jobs :
        loop[j].fires <=
            Cardinality({m \in loop[j].schedule : loop[j].since < m /\ m <= minute})

(* The description of CronDelete: a job does not fire after its deletion.   *)
(* The check of the map and the append are two steps with the deletion in   *)
(* between; what stops the append is the context it carries. A prompt whose *)
(* append had begun may still arrive.                                       *)
NoFireAfterDeletion == \A j \in Jobs : ~loop[j].late

(* A job fires for its minutes, once each, and not after its deletion.      *)
FiresOnSchedule == OneFirePerMinute /\ NoFireAfterDeletion

(* Once its job is deleted or the manager closed, every goroutine ends in   *)
(* the end, those of jobs created after Close included.                     *)
LoopsEnded ==
    \A j \in Jobs : loop[j].pc # "none" /\ (cronEnded \/ loop[j].cancelled) => loop[j].pc = "ended"
=============================================================================
