------------------------------- MODULE AuditOutbox -------------------------------
(***************************************************************************)
(* The audit outbox (MemoryOutbox and the SQLite auditOutbox) with its two *)
(* kinds of users: leased Workers that poll with RunOnce, and Dispatchers  *)
(* whose Append and Flush deliver without looking at leases.               *)
(*                                                                         *)
(* Times are kept as the ticks that remain until them, so that the clock   *)
(* never has to stop: lease_until <= now is lease = 0.  Every operation    *)
(* works inside one tenant; the content of an event never matters.  Ticks  *)
(* are compared as numbers; SQLite compares lease_until and                *)
(* next_attempt_at as RFC 3339 texts without trailing zeros, whose order   *)
(* may be wrong within one second: a tick is longer than that.             *)
(***************************************************************************)
EXTENDS Naturals, FiniteSets

CONSTANTS
    Events,
    Workers, Dispatchers,
    NoWorker,         \* the empty lease owner
    NoEvent,
    BatchSize,        \* WorkerOptions.BatchSize, and Flush's limit
    MaxAttempts, LeaseDuration, BaseBackoff, MaxBackoff,
    GuardsSettled,    \* TRUE: reports test delivered_at and dead_lettered_at
                      \*   (SQLite); FALSE: they test the owner only (memory)
    MaxInterrupts, MaxRequeues, MaxDispatches, MaxLapses   \* environment bounds

Agents == Workers \cup Dispatchers

ASSUME AgentsAssumption ==
    Workers \cap Dispatchers = {} /\ NoWorker \notin Agents
ASSUME EventsAssumption == IsFiniteSet(Events) /\ NoEvent \notin Events
ASSUME OptionsAssumption ==
    /\ {BatchSize, MaxAttempts, LeaseDuration, BaseBackoff} \subseteq Nat \ {0}
    /\ MaxBackoff \in Nat /\ MaxBackoff >= BaseBackoff
    /\ GuardsSettled \in BOOLEAN
    /\ {MaxInterrupts, MaxRequeues, MaxDispatches, MaxLapses} \subseteq Nat

VARIABLES
    items,     \* the stored Delivery of each event
    wait,      \* ticks until its NextAttemptAt
    pc,        \* what each agent does next
    batch,     \* the deliveries it still has to handle
    doing,     \* the event it has sent to the sink and not yet reported on
    seen,      \* Attempts in the Delivery it claimed
    hold,      \* ticks until LeaseUntil of its claim
    sink,      \* the events the sink has taken
    refused,   \* history: failed deliveries since Enqueue or Requeue, capped
    budget     \* what the environment may still do

agents == <<pc, batch, doing, seen, hold>>
vars == <<items, wait, agents, sink, refused, budget>>

NoItem ==
    [created |-> 0, delivered |-> FALSE, dead |-> FALSE, attempts |-> 0,
     owner |-> NoWorker, lease |-> 0]

Queued(e) == items[e].created > 0

Settled(item) == item.delivered \/ item.dead

-------------------------------------------------------------------------------
(* The store *)

\* Mutants: a live lease is no obstacle; an expired one still is.
ReadyIgnoringLeases(e) == Queued(e) /\ ~Settled(items[e]) /\ wait[e] = 0
ReadyUnowned(e) ==
    /\ Queued(e) /\ ~Settled(items[e])
    /\ wait[e] = 0 /\ items[e].owner = NoWorker

(* What Claim selects: due, unsettled, and not under a live lease. *)
Ready(e) ==
    Queued(e) /\ ~Settled(items[e]) /\ wait[e] = 0 /\ items[e].lease = 0

IsOldest(e, S) == e \in S /\ \A f \in S : items[e].created <= items[f].created

(* ORDER BY created_at LIMIT n. *)
OldestOf(S) ==
    {T \in SUBSET S :
        /\ IF Cardinality(S) <= BatchSize THEN T = S
           ELSE Cardinality(T) = BatchSize
        /\ \A e \in T, f \in S \ T : items[e].created < items[f].created}

(* Acknowledge and Fail compare the owner, not the expiry. *)
Reportable(item, w) ==
    item.owner = w /\ (GuardsSettled => ~Settled(item))

Acknowledged(item) ==
    [item EXCEPT !.delivered = TRUE, !.owner = NoWorker, !.lease = 0]

\* Mutant: the last attempt is not made.
ExhaustedEarly(attempt) == attempt + 1 >= MaxAttempts
Exhausted(attempt) == attempt >= MaxAttempts

(* Worker.backoff: doubled for every earlier attempt, up to MaxBackoff. *)
Backoff[attempt \in Nat] ==
    IF attempt <= 1 THEN BaseBackoff
    ELSE IF Backoff[attempt - 1] >= MaxBackoff \div 2 THEN MaxBackoff
         ELSE 2 * Backoff[attempt - 1]

(* Fail: the stored count goes up by one, but whether the event is dead is *)
(* what the worker made of the count it saw when it claimed.               *)
AfterFailure(item, attempt) ==
    [item EXCEPT !.attempts = @ + 1, !.owner = NoWorker, !.lease = 0,
                 !.dead = @ \/ Exhausted(attempt)]

Delay(attempt) == IF Exhausted(attempt) THEN 0 ELSE Backoff[attempt]

(* MarkAttempt and MarkDelivered touch neither leases nor dead letters. *)
Marked(item, delivered) ==
    IF item.delivered THEN item
    ELSE [item EXCEPT !.attempts = @ + 1, !.delivered = delivered]

Requeued(item) ==
    [item EXCEPT !.attempts = 0, !.dead = FALSE,
                 !.owner = NoWorker, !.lease = 0]

-------------------------------------------------------------------------------
Init ==
    /\ items = [e \in Events |-> NoItem]
    /\ wait = [e \in Events |-> 0]
    /\ pc = [a \in Agents |-> "idle"]
    /\ batch = [a \in Agents |-> {}]
    /\ doing = [a \in Agents |-> NoEvent]
    /\ seen = [w \in Workers |-> [e \in Events |-> 0]]
    /\ hold = [w \in Workers |-> 0]
    /\ sink = {}
    /\ refused = [e \in Events |-> 0]
    /\ budget = [interrupts |-> MaxInterrupts, requeues |-> MaxRequeues,
                 dispatches |-> MaxDispatches, lapses |-> MaxLapses]

(* The items after Enqueue; enqueueing the same event again changes        *)
(* nothing.                                                                *)
WithEnqueued(e) ==
    IF Queued(e) THEN items
    ELSE [items EXCEPT ![e].created = Cardinality({f \in Events : Queued(f)}) + 1]

(* Enqueue alone: by UpdateWithEvents together with a checkpoint, or by a  *)
(* Dispatcher that has no sink.                                            *)
Enqueue(e) ==
    /\ ~Queued(e)
    /\ items' = WithEnqueued(e)
    /\ UNCHANGED <<wait, agents, sink, refused, budget>>

(* Dispatcher.Append: enqueue, then try to deliver at once. *)
Append(d, e) ==
    /\ pc[d] = "idle" /\ budget.dispatches > 0
    /\ items' = WithEnqueued(e)
    /\ batch' = [batch EXCEPT ![d] = {e}]
    /\ pc' = [pc EXCEPT ![d] = "deliver"]
    /\ budget' = [budget EXCEPT !.dispatches = @ - 1]
    /\ UNCHANGED <<wait, doing, seen, hold, sink, refused>>

(* Dispatcher.Flush: everything Pending returns, leased or not, due or not.*)
Flush(d) ==
    /\ pc[d] = "idle" /\ budget.dispatches > 0
    /\ \E T \in OldestOf({e \in Events : Queued(e) /\ ~Settled(items[e])}) :
         T # {} /\ batch' = [batch EXCEPT ![d] = T]
    /\ pc' = [pc EXCEPT ![d] = "deliver"]
    /\ budget' = [budget EXCEPT !.dispatches = @ - 1]
    /\ UNCHANGED <<items, wait, doing, seen, hold, sink, refused>>

(* Claim, the first half of RunOnce. *)
Claim(w) ==
    /\ pc[w] = "idle"
    /\ \E T \in OldestOf({e \in Events : Ready(e)}) :
         /\ T # {}
         /\ items' = [e \in Events |->
              IF e \in T
              THEN [items[e] EXCEPT !.owner = w, !.lease = LeaseDuration]
              ELSE items[e]]
         /\ batch' = [batch EXCEPT ![w] = T]
         /\ seen' = [seen EXCEPT ![w] = [e \in Events |->
              IF e \in T THEN items[e].attempts ELSE 0]]
    /\ hold' = [hold EXCEPT ![w] = LeaseDuration]
    /\ pc' = [pc EXCEPT ![w] = "deliver"]
    /\ UNCHANGED <<wait, doing, sink, refused, budget>>

\* Mutant: the report of a failed delivery falls through to the other one.
AnswerUnchecked(ok) == "accepted"

Answer(ok) == IF ok THEN "accepted" ELSE "refused"

(* Sink.Append of the next delivery of the batch; an error does not tell   *)
(* whether the sink has taken the event.                                   *)
Deliver(a) ==
    /\ pc[a] = "deliver"
    /\ \E e \in batch[a], ok \in BOOLEAN :
         /\ IsOldest(e, batch[a])
         /\ doing' = [doing EXCEPT ![a] = e]
         /\ sink' \in IF ok THEN {sink \cup {e}} ELSE {sink, sink \cup {e}}
         /\ refused' = IF ok \/ refused[e] = MaxAttempts THEN refused
                       ELSE [refused EXCEPT ![e] = @ + 1]
         /\ batch' = [batch EXCEPT ![a] = @ \ {e}]
         /\ pc' = [pc EXCEPT ![a] = Answer(ok)]
    /\ UNCHANGED <<items, wait, seen, hold, budget>>

(* After its report, which stores an item and a delay, an agent goes on    *)
(* with its batch.                                                         *)
Report(a, item, delay) ==
    /\ items' = [items EXCEPT ![doing[a]] = item]
    /\ wait' = [wait EXCEPT ![doing[a]] = delay]
    /\ doing' = [doing EXCEPT ![a] = NoEvent]
    /\ IF batch[a] # {}
       THEN pc' = [pc EXCEPT ![a] = "deliver"] /\ UNCHANGED <<hold, seen>>
       ELSE /\ pc' = [pc EXCEPT ![a] = "idle"]
            /\ hold' = [w \in Workers |-> IF w = a THEN 0 ELSE hold[w]]
            /\ seen' = [w \in Workers |->
                 IF w = a THEN [e \in Events |-> 0] ELSE seen[w]]
    /\ UNCHANGED <<batch, sink, refused, budget>>

(* Reports of a worker; one that lost its lease is refused and goes on. *)
Acknowledge(w) ==
    /\ pc[w] = "accepted"
    /\ LET e == doing[w] IN
         Report(w, IF Reportable(items[e], w) THEN Acknowledged(items[e]) ELSE items[e],
                wait[e])

Fail(w) ==
    /\ pc[w] = "refused"
    /\ LET e == doing[w]
           attempt == seen[w][e] + 1 IN
         IF Reportable(items[e], w)
         THEN Report(w, AfterFailure(items[e], attempt), Delay(attempt))
         ELSE Report(w, items[e], wait[e])

(* Reports of a Dispatcher. *)
MarkDelivered(d) ==
    /\ pc[d] = "accepted"
    /\ Report(d, Marked(items[doing[d]], TRUE), wait[doing[d]])

MarkAttempt(d) ==
    /\ pc[d] = "refused"
    /\ Report(d, Marked(items[doing[d]], FALSE), wait[doing[d]])

(* The process dies or its context is canceled: the rest of the batch, and *)
(* perhaps a report, are abandoned with their leases.                      *)
Interrupt(a) ==
    /\ pc[a] # "idle" /\ budget.interrupts > 0
    /\ budget' = [budget EXCEPT !.interrupts = @ - 1]
    /\ pc' = [pc EXCEPT ![a] = "idle"]
    /\ batch' = [batch EXCEPT ![a] = {}]
    /\ doing' = [doing EXCEPT ![a] = NoEvent]
    /\ hold' = [w \in Workers |-> IF w = a THEN 0 ELSE hold[w]]
    /\ seen' = [w \in Workers |-> IF w = a THEN [e \in Events |-> 0] ELSE seen[w]]
    /\ UNCHANGED <<items, wait, sink, refused>>

(* Requeue, by an operator, due at once. *)
Requeue(e) ==
    /\ items[e].dead /\ budget.requeues > 0
    /\ items' = [items EXCEPT ![e] = Requeued(@)]
    /\ wait' = [wait EXCEPT ![e] = 0]
    /\ refused' = [refused EXCEPT ![e] = 0]
    /\ budget' = [budget EXCEPT !.requeues = @ - 1]
    /\ UNCHANGED <<agents, sink>>

Less(n) == IF n = 0 THEN 0 ELSE n - 1

(* Time passes.  A lease may run out under a worker that is still busy     *)
(* only MaxLapses times.                                                   *)
Tick ==
    /\ \/ \E e \in Events : items[e].lease > 0 \/ wait[e] > 0
       \/ \E w \in Workers : hold[w] > 0
    /\ IF \E w \in Workers : hold[w] = 1
       THEN /\ budget.lapses > 0
            /\ budget' = [budget EXCEPT !.lapses = @ - 1]
       ELSE UNCHANGED budget
    /\ items' = [e \in Events |-> [items[e] EXCEPT !.lease = Less(@)]]
    /\ wait' = [e \in Events |-> Less(wait[e])]
    /\ hold' = [w \in Workers |-> Less(hold[w])]
    /\ UNCHANGED <<pc, batch, doing, seen, sink, refused>>

RunOnce(w) == Claim(w) \/ Deliver(w) \/ Acknowledge(w) \/ Fail(w)

Dispatch(d) ==
    \/ \E e \in Events : Append(d, e)
    \/ Flush(d) \/ Deliver(d) \/ MarkDelivered(d) \/ MarkAttempt(d)

Next ==
    \/ Tick
    \/ \E e \in Events : Enqueue(e) \/ Requeue(e)
    \/ \E w \in Workers : RunOnce(w)
    \/ \E d \in Dispatchers : Dispatch(d)
    \/ \E a \in Agents : Interrupt(a)

Spec == Init /\ [][Next]_vars

(* Workers keep polling and answering, and time goes on; nothing is        *)
(* assumed of dispatchers, operators or the answers of the sink.           *)
FairSpec == Spec /\ WF_vars(Tick) /\ \A w \in Workers : WF_vars(RunOnce(w))

-------------------------------------------------------------------------------
(* Properties *)

Status ==
    [e \in Events |->
        IF ~Queued(e) THEN "absent"
        ELSE IF items[e].delivered THEN "delivered"
        ELSE IF items[e].dead THEN "dead" ELSE "pending"]

Promise == INSTANCE AuditPromise WITH status <- Status, accepted <- sink

(* The outbox with its workers and dispatchers does what AuditPromise      *)
(* promises, whatever leases lapse, processes die and reports come late.   *)
ImplementsPromise == Promise!Spec

Holds(w, e) ==
    hold[w] > 0 /\ (e \in batch[w] \/ doing[w] = e)

(* Two workers never both work under an unexpired claim of one event       *)
(* (LeasedOutbox: "Claim must atomically exclude live leases held by       *)
(* another worker").                                                       *)
ClaimsExclusive ==
    \A v, w \in Workers, e \in Events : Holds(v, e) /\ Holds(w, e) => v = w

(* Until a dispatcher interferes, an event is dead-lettered only after MaxAttempts    *)
(* failed deliveries since it was enqueued or requeued, although each      *)
(* worker decides on the count it saw when it claimed; and it is then not  *)
(* delivered as well.                                                      *)
DeadLetterIsEarned ==
    budget.dispatches = MaxDispatches =>
        \A e \in Events : items[e].dead =>
            refused[e] = MaxAttempts /\ ~items[e].delivered

(* The report of a worker whose claim was superseded leaves an event that  *)
(* another worker holds as it is.                                          *)
LateReportRefused ==
    [][\A v, w \in Workers, e \in Events :
          /\ v # w /\ Holds(w, e)
          /\ pc[v] \in {"accepted", "refused"} /\ pc'[v] # pc[v]
          /\ budget' = budget
          => items'[e] = items[e]]_vars

(* Both: the promise is kept, and kept by those who hold the events.       *)
PromiseKept == ImplementsPromise /\ LateReportRefused

(* Under fair workers every enqueued event is delivered or dead-lettered,  *)
(* through backoff, crashes, abandoned leases and requeues.                *)
EventuallySettled ==
    \A e \in Events : Queued(e) ~> Settled(items[e])

================================================================================
