---------------------------- MODULE AuditOutboxProofs ----------------------------
(***************************************************************************)
(* Proofs about AuditOutbox for any sets of workers, dispatchers and       *)
(* events, both kinds of store and every option: leases exclude one        *)
(* another, late reports change nothing, dead letters are earned, and the  *)
(* outbox implements AuditPromise.                                         *)
(***************************************************************************)
EXTENDS AuditOutbox, FiniteSetTheorems, TLAPS

(* The options are natural numbers, all but MaxBackoff positive. *)
LEMMA OptionsType ==
    /\ BatchSize \in Nat /\ BatchSize > 0
    /\ MaxAttempts \in Nat /\ MaxAttempts > 0
    /\ LeaseDuration \in Nat /\ LeaseDuration > 0
    /\ {MaxInterrupts, MaxRequeues, MaxDispatches, MaxLapses} \subseteq Nat
<1>1. {BatchSize, MaxAttempts, LeaseDuration, BaseBackoff} \subseteq Nat \ {0}
  BY OptionsAssumption
<1> QED
  BY <1>1, OptionsAssumption

StoredItem ==
    [created : Nat, delivered : BOOLEAN, dead : BOOLEAN, attempts : Nat,
     owner : Workers \cup {NoWorker}, lease : Nat]

Budget == [interrupts : Nat, requeues : Nat, dispatches : Nat, lapses : Nat]

Shape ==
    /\ items \in [Events -> StoredItem]
    /\ pc \in [Agents -> {"idle", "deliver", "accepted", "refused"}]
    /\ batch \in [Agents -> SUBSET Events]
    /\ doing \in [Agents -> Events \cup {NoEvent}]
    /\ seen \in [Workers -> [Events -> Nat]]
    /\ hold \in [Workers -> Nat]
    /\ sink \subseteq Events
    /\ refused \in [Events -> 0 .. MaxAttempts]
    /\ budget \in Budget

Reporting(a) == pc[a] \in {"accepted", "refused"}

(* What an agent has in hand agrees with where it is, and is in the store. *)
InHand ==
    \A a \in Agents :
        /\ Reporting(a) <=> doing[a] # NoEvent
        /\ doing[a] \notin batch[a]
        /\ pc[a] = "idle" => batch[a] = {}
        /\ pc[a] = "accepted" => doing[a] \in sink
        /\ \A e \in Events : e \in batch[a] \/ doing[a] = e => Queued(e)

UnqueuedIsUnsettled == \A e \in Events : ~Queued(e) => ~Settled(items[e])

Pipeline == Shape /\ InHand /\ UnqueuedIsUnsettled

-------------------------------------------------------------------------------
(* What the operations do to one item *)

(* Acknowledge leaves a delivered item without an owner. *)
LEMMA AcknowledgedItem ==
    ASSUME NEW item \in StoredItem
    PROVE  /\ Acknowledged(item) \in StoredItem
           /\ Acknowledged(item).created = item.created
           /\ Acknowledged(item).delivered
           /\ Acknowledged(item).dead = item.dead
           /\ Acknowledged(item).attempts = item.attempts
           /\ Acknowledged(item).owner = NoWorker
           /\ Acknowledged(item).lease = 0
BY DEF Acknowledged, StoredItem

(* The part of Fail that does not depend on the options. *)
LEMMA FreedItem ==
    ASSUME NEW item \in StoredItem, NEW n \in Nat
    PROVE  LET freed == [item EXCEPT !.attempts = n, !.owner = NoWorker, !.lease = 0] IN
           /\ freed \in StoredItem
           /\ freed.created = item.created
           /\ freed.delivered = item.delivered
           /\ freed.dead = item.dead
           /\ freed.attempts = n
           /\ freed.owner = NoWorker
           /\ freed.lease = 0
BY DEF StoredItem

(* Fail counts the attempt, frees the item and may dead-letter it. *)
LEMMA AfterFailureItem ==
    ASSUME NEW item \in StoredItem, NEW attempt \in Nat
    PROVE  /\ AfterFailure(item, attempt) \in StoredItem
           /\ AfterFailure(item, attempt).created = item.created
           /\ AfterFailure(item, attempt).delivered = item.delivered
           /\ AfterFailure(item, attempt).dead <=> (item.dead \/ attempt >= MaxAttempts)
           /\ AfterFailure(item, attempt).attempts = item.attempts + 1
           /\ AfterFailure(item, attempt).owner = NoWorker
           /\ AfterFailure(item, attempt).lease = 0
<1>0. PICK n \in Nat : n = item.attempts + 1
  BY DEF StoredItem
<1> DEFINE freed == [item EXCEPT !.attempts = n, !.owner = NoWorker, !.lease = 0]
<1>1. /\ freed \in StoredItem
      /\ freed.created = item.created
      /\ freed.delivered = item.delivered
      /\ freed.dead = item.dead
      /\ freed.attempts = n
      /\ freed.owner = NoWorker
      /\ freed.lease = 0
  BY FreedItem
<1>2. CASE Exhausted(attempt)
  <2>1. AfterFailure(item, attempt) = [freed EXCEPT !.dead = TRUE]
    BY <1>0, <1>2 DEF AfterFailure, StoredItem
  <2> HIDE DEF freed
  <2> QED
    BY <1>0, <1>1, <1>2, <2>1 DEF StoredItem, Exhausted
<1>3. CASE ~Exhausted(attempt)
  <2>1. AfterFailure(item, attempt) = freed
    BY <1>0, <1>3 DEF AfterFailure, StoredItem
  <2> HIDE DEF freed
  <2> QED
    BY <1>0, <1>1, <1>3, <2>1 DEF StoredItem, Exhausted
<1> QED
  BY <1>2, <1>3

(* MarkAttempt and MarkDelivered touch neither the lease nor dead letters. *)
LEMMA MarkedItem ==
    ASSUME NEW item \in StoredItem, NEW delivered \in BOOLEAN
    PROVE  /\ Marked(item, delivered) \in StoredItem
           /\ Marked(item, delivered).created = item.created
           /\ Marked(item, delivered).delivered <=> (item.delivered \/ delivered)
           /\ Marked(item, delivered).dead = item.dead
           /\ Marked(item, delivered).owner = item.owner
           /\ Marked(item, delivered).lease = item.lease
<1>1. CASE item.delivered
  BY <1>1 DEF Marked, StoredItem
<1>2. CASE ~item.delivered
  <2>1. Marked(item, delivered) =
          [created |-> item.created, delivered |-> delivered, dead |-> item.dead,
           attempts |-> item.attempts + 1, owner |-> item.owner, lease |-> item.lease]
    BY <1>2 DEF Marked, StoredItem
  <2> QED
    BY <1>2, <2>1 DEF StoredItem
<1> QED
  BY <1>1, <1>2

(* Requeue gives a dead letter a fresh count. *)
LEMMA RequeuedItem ==
    ASSUME NEW item \in StoredItem
    PROVE  /\ Requeued(item) \in StoredItem
           /\ Requeued(item).created = item.created
           /\ Requeued(item).delivered = item.delivered
           /\ ~Requeued(item).dead
           /\ Requeued(item).attempts = 0
           /\ Requeued(item).owner = NoWorker
           /\ Requeued(item).lease = 0
BY DEF Requeued, StoredItem

(* A claim gives an item an owner and a lease, and nothing else. *)
LEMMA ClaimedItem ==
    ASSUME NEW item \in StoredItem, NEW w \in Workers
    PROVE  LET claimed == [item EXCEPT !.owner = w, !.lease = LeaseDuration] IN
           /\ claimed \in StoredItem
           /\ claimed.created = item.created
           /\ claimed.delivered = item.delivered
           /\ claimed.dead = item.dead
           /\ claimed.attempts = item.attempts
           /\ claimed.owner = w
           /\ claimed.lease = LeaseDuration
BY OptionsType DEF StoredItem

(* Time shortens a lease, and changes nothing else. *)
LEMMA AgedItem ==
    ASSUME NEW item \in StoredItem
    PROVE  LET aged == [item EXCEPT !.lease = Less(@)] IN
           /\ aged \in StoredItem
           /\ aged.created = item.created
           /\ aged.delivered = item.delivered
           /\ aged.dead = item.dead
           /\ aged.attempts = item.attempts
           /\ aged.owner = item.owner
           /\ aged.lease = Less(item.lease)
BY DEF StoredItem, Less

-------------------------------------------------------------------------------
(* Agents and the store *)

(* A report concerns the event in hand, which is stored. *)
LEMMA InHandIsStored ==
    ASSUME Pipeline, NEW a \in Agents, Reporting(a)
    PROVE  doing[a] \in Events /\ Queued(doing[a]) /\ items[doing[a]] \in StoredItem
BY DEF Pipeline, Shape, InHand

(* Any report that keeps the creation time keeps the pipeline in order. *)
LEMMA ReportKeepsPipeline ==
    ASSUME Pipeline, NEW a \in Agents, Reporting(a),
           NEW item \in StoredItem, item.created = items[doing[a]].created,
           NEW delay, Report(a, item, delay)
    PROVE  Pipeline'
<1>1. doing[a] \in Events /\ Queued(doing[a])
  BY InHandIsStored
<1>2. /\ items' \in [Events -> StoredItem]
      /\ items' = [items EXCEPT ![doing[a]] = item]
      /\ \A e \in Events : Queued(e)' <=> Queued(e)
  BY <1>1 DEF Report, Queued, Pipeline, Shape
<1>3. pc' \in [Agents -> {"idle", "deliver", "accepted", "refused"}]
  BY DEF Report, Pipeline, Shape
<1>4. Shape'
  <2>1. seen' \in [Workers -> [Events -> Nat]]
    BY DEF Report, Pipeline, Shape
  <2>2. hold' \in [Workers -> Nat]
    BY DEF Report, Pipeline, Shape
  <2> QED
    BY <1>2, <1>3, <2>1, <2>2 DEF Report, Pipeline, Shape
<1>5. InHand'
  <2>1. ASSUME NEW b \in Agents, b # a
        PROVE  pc'[b] = pc[b] /\ doing'[b] = doing[b] /\ batch'[b] = batch[b]
    BY <2>1 DEF Report, Pipeline, Shape
  <2>2. /\ doing'[a] = NoEvent /\ batch' = batch /\ sink' = sink
        /\ pc'[a] = IF batch[a] # {} THEN "deliver" ELSE "idle"
    BY DEF Report, Pipeline, Shape
  <2>3. NoEvent \notin Events
    BY EventsAssumption
  <2> QED
    BY <1>2, <2>1, <2>2, <2>3 DEF InHand, Pipeline, Shape, Reporting
<1>6. UnqueuedIsUnsettled'
  BY <1>1, <1>2 DEF UnqueuedIsUnsettled, Settled, Queued, Pipeline, Shape
<1> QED
  BY <1>4, <1>5, <1>6 DEF Pipeline

(* Enqueueing adds a fresh item, if any. *)
LEMMA EnqueuedItems ==
    ASSUME Pipeline, NEW e \in Events
    PROVE  /\ WithEnqueued(e) \in [Events -> StoredItem]
           /\ \A f \in Events : f # e => WithEnqueued(e)[f] = items[f]
           /\ Queued(e) => WithEnqueued(e) = items
           /\ WithEnqueued(e)[e].created > 0
           /\ WithEnqueued(e)[e].delivered = items[e].delivered
           /\ WithEnqueued(e)[e].dead = items[e].dead
           /\ WithEnqueued(e)[e].attempts = items[e].attempts
           /\ WithEnqueued(e)[e].owner = items[e].owner
           /\ WithEnqueued(e)[e].lease = items[e].lease
<1> DEFINE n == Cardinality({f \in Events : Queued(f)}) + 1
<1>1. n \in Nat /\ n > 0
  <2>1. IsFiniteSet({f \in Events : Queued(f)})
    BY EventsAssumption, FS_Subset
  <2>2. Cardinality({f \in Events : Queued(f)}) \in Nat
    BY <2>1, FS_CardinalityType
  <2> QED
    BY <2>2
<1>2. CASE Queued(e)
  BY <1>2 DEF WithEnqueued, Queued, Pipeline, Shape
<1>3. CASE ~Queued(e)
  <2> DEFINE fresh == [items[e] EXCEPT !.created = n]
  <2>1. items[e] \in StoredItem
    BY DEF Pipeline, Shape
  <2>2. /\ fresh \in StoredItem
        /\ fresh.created = n
        /\ fresh.delivered = items[e].delivered
        /\ fresh.dead = items[e].dead
        /\ fresh.attempts = items[e].attempts
        /\ fresh.owner = items[e].owner
        /\ fresh.lease = items[e].lease
    <3> HIDE DEF n
    <3> QED
      BY <1>1, <2>1 DEF StoredItem
  <2>3. WithEnqueued(e) = [items EXCEPT ![e] = fresh]
    BY <1>1, <1>3 DEF WithEnqueued, Pipeline, Shape
  <2> HIDE DEF n, fresh
  <2> QED
    BY <1>1, <1>3, <2>2, <2>3 DEF Pipeline, Shape
<1> QED
  BY <1>2, <1>3


-------------------------------------------------------------------------------
(* The pipeline stays in order *)

(* Whatever an agent has in hand is stored, and is answered for only as    *)
(* the sink answered.                                                      *)
LEMMA PipelineStep == Pipeline /\ [Next]_vars => Pipeline'
<1> SUFFICES ASSUME Pipeline, [Next]_vars PROVE Pipeline'
  OBVIOUS
<1> USE DEF Pipeline
<1>0. /\ NoEvent \notin Events
      /\ Workers \subseteq Agents /\ Dispatchers \subseteq Agents
  BY EventsAssumption DEF Agents
<1>1. CASE UNCHANGED vars
  BY <1>1 DEF vars, agents, Shape, InHand, UnqueuedIsUnsettled, Reporting, Queued, Settled
<1>2. CASE Tick
  <2>1. \A e \in Events :
          LET aged == [items[e] EXCEPT !.lease = Less(@)] IN
            /\ aged \in StoredItem /\ aged.created = items[e].created
            /\ aged.delivered = items[e].delivered /\ aged.dead = items[e].dead
    BY AgedItem DEF Shape
  <2>2. /\ items' \in [Events -> StoredItem]
        /\ \A e \in Events :
             /\ items'[e].created = items[e].created
             /\ items'[e].delivered = items[e].delivered
             /\ items'[e].dead = items[e].dead
    BY <1>2, <2>1 DEF Tick
  <2>3. hold' \in [Workers -> Nat]
    <3>1. \A w \in Workers : Less(hold[w]) \in Nat
      BY DEF Less, Shape
    <3> QED
      BY <1>2, <3>1 DEF Tick
  <2>4. budget' \in Budget
    BY <1>2 DEF Tick, Shape, Budget
  <2> QED
    BY <1>2, <2>2, <2>3, <2>4
    DEF Tick, Shape, InHand, UnqueuedIsUnsettled, Reporting, Queued, Settled
<1>3. ASSUME NEW e \in Events, Enqueue(e) PROVE Pipeline'
  BY <1>3, EnqueuedItems
  DEF Enqueue, agents, Shape, InHand, UnqueuedIsUnsettled, Reporting, Queued, Settled
<1>4. ASSUME NEW e \in Events, Requeue(e) PROVE Pipeline'
  <2>1. /\ Requeued(items[e]) \in StoredItem
        /\ Requeued(items[e]).created = items[e].created
        /\ Requeued(items[e]).delivered = items[e].delivered
        /\ ~Requeued(items[e]).dead
    BY RequeuedItem DEF Shape
  <2>2. budget' \in Budget
    BY <1>4 DEF Requeue, Shape, Budget
  <2>3. refused' \in [Events -> 0 .. MaxAttempts]
    BY <1>4, OptionsType DEF Requeue, Shape
  <2> QED
    BY <1>4, <2>1, <2>2, <2>3
    DEF Requeue, agents, Shape, InHand, UnqueuedIsUnsettled, Reporting, Queued, Settled
<1>5. ASSUME NEW w \in Workers, Claim(w) PROVE Pipeline'
  <2>1. PICK T \in OldestOf({e \in Events : Ready(e)}) : Claim(w)!2!(T)
    BY <1>5 DEF Claim
  <2>2. T \subseteq Events /\ \A e \in T : Ready(e)
    BY DEF OldestOf
  <2>3. \A e \in Events :
          LET claimed == [items[e] EXCEPT !.owner = w, !.lease = LeaseDuration] IN
            /\ claimed \in StoredItem /\ claimed.created = items[e].created
            /\ claimed.delivered = items[e].delivered /\ claimed.dead = items[e].dead
    BY ClaimedItem DEF Shape
  <2>4. /\ items' \in [Events -> StoredItem]
        /\ \A e \in Events :
             /\ items'[e].created = items[e].created
             /\ items'[e].delivered = items[e].delivered
             /\ items'[e].dead = items[e].dead
    BY <2>1, <2>3 DEF Shape
  <2>5. seen' \in [Workers -> [Events -> Nat]]
    <3>1. \A e \in Events : items[e].attempts \in Nat
      BY DEF Shape, StoredItem
    <3> QED
      BY <2>1, <3>1 DEF Shape
  <2>6. hold' \in [Workers -> Nat]
    BY <1>5, OptionsType DEF Claim, Shape
  <2>7. Shape'
    BY <1>0, <1>5, <2>1, <2>2, <2>4, <2>5, <2>6 DEF Claim, Shape
  <2>8. InHand'
    <3>1. /\ batch'[w] = T /\ pc'[w] = "deliver" /\ pc[w] = "idle"
          /\ doing' = doing /\ sink' = sink
          /\ \A b \in Agents : b # w => batch'[b] = batch[b] /\ pc'[b] = pc[b]
      BY <1>0, <1>5, <2>1 DEF Claim, Shape
    <3>2. /\ \A e \in Events : Queued(e)' <=> Queued(e)
          /\ \A e \in T : e \in Events /\ Queued(e)
      BY <2>2, <2>4 DEF Queued, Ready
    <3>3. doing[w] = NoEvent
      BY <1>0, <3>1 DEF InHand, Reporting, Shape
    <3> QED
      BY <1>0, <3>1, <3>2, <3>3 DEF InHand, Reporting
  <2> QED
    BY <2>4, <2>7, <2>8 DEF Shape, UnqueuedIsUnsettled, Queued, Settled
<1>6. ASSUME NEW a \in Agents, Deliver(a) PROVE Pipeline'
  <2>1. PICK e \in batch[a], ok \in BOOLEAN : Deliver(a)!2!(e, ok)
    BY <1>6 DEF Deliver
  <2>2. e \in Events /\ Queued(e)
    BY <1>0 DEF Shape, InHand
  <2>3. sink' \subseteq Events /\ sink \subseteq sink' /\ (ok => e \in sink')
    BY <2>1, <2>2 DEF Shape
  <2>4. refused' \in [Events -> 0 .. MaxAttempts]
    <3>1. \/ refused' = refused
          \/ /\ refused[e] # MaxAttempts
             /\ refused' = [refused EXCEPT ![e] = @ + 1]
      BY <2>1
    <3>2. refused[e] \in 0 .. MaxAttempts
      BY <2>2 DEF Shape
    <3>3. refused[e] # MaxAttempts => refused[e] + 1 \in 0 .. MaxAttempts
      BY <3>2, OptionsType
    <3> QED
      BY <2>2, <3>1, <3>3 DEF Shape
  <2>5. Answer(ok) = IF ok THEN "accepted" ELSE "refused"
    BY DEF Answer
  <2>6. Shape'
    BY <1>6, <2>1, <2>2, <2>3, <2>4, <2>5 DEF Deliver, Shape
  <2>7. InHand'
    BY <1>0, <1>6, <2>1, <2>2, <2>3, <2>5 DEF Deliver, Shape, InHand, Reporting, Queued
  <2> QED
    BY <1>6, <2>6, <2>7 DEF Deliver, UnqueuedIsUnsettled, Queued, Settled
<1>7. ASSUME NEW w \in Workers, Acknowledge(w) PROVE Pipeline'
  <2>1. Reporting(w) /\ w \in Agents
    BY <1>0, <1>7 DEF Acknowledge, Reporting
  <2>2. items[doing[w]] \in StoredItem
    BY <2>1, InHandIsStored
  <2> QED
    BY <1>7, <2>1, <2>2, AcknowledgedItem, ReportKeepsPipeline DEF Acknowledge
<1>8. ASSUME NEW w \in Workers, Fail(w) PROVE Pipeline'
  <2>1. Reporting(w) /\ w \in Agents
    BY <1>0, <1>8 DEF Fail, Reporting
  <2>2. items[doing[w]] \in StoredItem /\ doing[w] \in Events
    BY <2>1, InHandIsStored
  <2>3. seen[w][doing[w]] + 1 \in Nat
    BY <2>2 DEF Shape
  <2> QED
    BY <1>8, <2>1, <2>2, <2>3, AfterFailureItem, ReportKeepsPipeline DEF Fail
<1>9. ASSUME NEW d \in Dispatchers, MarkDelivered(d) \/ MarkAttempt(d) PROVE Pipeline'
  <2>1. Reporting(d) /\ d \in Agents
    BY <1>0, <1>9 DEF MarkDelivered, MarkAttempt, Reporting
  <2>2. items[doing[d]] \in StoredItem
    BY <2>1, InHandIsStored
  <2> QED
    BY <1>9, <2>1, <2>2, MarkedItem, ReportKeepsPipeline DEF MarkDelivered, MarkAttempt
<1>10. ASSUME NEW d \in Dispatchers, NEW e \in Events, Append(d, e) PROVE Pipeline'
  <2>1. budget' \in Budget
    BY <1>10 DEF Append, Shape, Budget
  <2> QED
    BY <1>0, <1>10, <2>1, EnqueuedItems
    DEF Append, Shape, InHand, UnqueuedIsUnsettled, Reporting, Queued, Settled
<1>11. ASSUME NEW d \in Dispatchers, Flush(d) PROVE Pipeline'
  <2>1. budget' \in Budget
    BY <1>11 DEF Flush, Shape, Budget
  <2>2. PICK T \in SUBSET Events :
          (\A e \in T : Queued(e)) /\ batch' = [batch EXCEPT ![d] = T]
    BY <1>11 DEF Flush, OldestOf
  <2>3. /\ batch'[d] = T /\ pc'[d] = "deliver" /\ pc[d] = "idle"
        /\ items' = items /\ doing' = doing /\ sink' = sink
        /\ \A b \in Agents : b # d => batch'[b] = batch[b] /\ pc'[b] = pc[b]
    BY <1>0, <1>11, <2>2 DEF Flush, Shape
  <2>4. Shape'
    BY <1>0, <1>11, <2>1, <2>2 DEF Flush, Shape
  <2>5. doing[d] = NoEvent
    BY <1>0, <2>3 DEF InHand, Reporting, Shape
  <2>6. InHand'
    BY <1>0, <2>2, <2>3, <2>5 DEF InHand, Reporting, Queued
  <2> QED
    BY <2>3, <2>4, <2>6 DEF UnqueuedIsUnsettled, Queued, Settled
<1>12. ASSUME NEW a \in Agents, Interrupt(a) PROVE Pipeline'
  <2>1. budget' \in Budget
    BY <1>12 DEF Interrupt, Shape, Budget
  <2> QED
    BY <1>0, <1>12, <2>1
    DEF Interrupt, Shape, InHand, UnqueuedIsUnsettled, Reporting, Queued, Settled
<1> QED
  BY <1>0, <1>1, <1>2, <1>3, <1>4, <1>5, <1>6, <1>7, <1>8, <1>9, <1>10, <1>11, <1>12
  DEF Next, RunOnce, Dispatch


-------------------------------------------------------------------------------
(* Leases *)

(* A worker whose claim has not run out is the owner of what it holds, and *)
(* its own clock agrees with the lease in the store.                       *)
HeldClaims ==
    \A w \in Workers, e \in Events :
        Holds(w, e) =>
            /\ items[e].owner = w /\ items[e].lease = hold[w]
            /\ ~items[e].dead

(* A report keeps the claims if only the owner changes an owned item. *)
LEMMA ReportKeepsClaims ==
    ASSUME Pipeline, HeldClaims, NEW a \in Agents, Reporting(a),
           NEW item \in StoredItem, NEW delay, Report(a, item, delay),
           \/ items[doing[a]].owner \in {a, NoWorker}
           \/ /\ item.owner = items[doing[a]].owner
              /\ item.lease = items[doing[a]].lease
              /\ item.dead = items[doing[a]].dead
    PROVE  HeldClaims'
<1> SUFFICES ASSUME NEW w \in Workers, NEW e \in Events, Holds(w, e)'
             PROVE  items'[e].owner = w /\ items'[e].lease = hold'[w] /\ ~items'[e].dead
  BY DEF HeldClaims
<1>0. doing[a] \in Events /\ NoEvent \notin Events /\ NoWorker \notin Workers
  BY InHandIsStored, EventsAssumption, AgentsAssumption DEF Agents
<1>1. items' = [items EXCEPT ![doing[a]] = item] /\ items \in [Events -> StoredItem]
  BY DEF Report, Pipeline, Shape
<1>2. CASE w = a
  <2>1. /\ hold' = hold /\ e \in batch[a] /\ e # doing[a]
    BY <1>0, <1>2 DEF Report, Holds, Pipeline, Shape, InHand
  <2> QED
    BY <1>0, <1>1, <1>2, <2>1 DEF Holds, HeldClaims
<1>3. CASE w # a
  <2>1. Holds(w, e) /\ hold'[w] = hold[w]
    BY <1>3 DEF Report, Holds, Pipeline, Shape
  <2>2. items[e].owner = w /\ items[e].lease = hold[w] /\ ~items[e].dead
    BY <2>1 DEF HeldClaims
  <2> QED
    BY <1>0, <1>1, <1>3, <2>1, <2>2
<1> QED
  BY <1>2, <1>3

(* No step takes an event from a worker whose claim is still running. *)
LEMMA HeldClaimsStep == Pipeline /\ HeldClaims /\ [Next]_vars => HeldClaims'
<1> SUFFICES ASSUME Pipeline, HeldClaims, [Next]_vars PROVE HeldClaims'
  OBVIOUS
<1>0. /\ NoEvent \notin Events /\ NoWorker \notin Workers
      /\ Workers \subseteq Agents /\ Dispatchers \subseteq Agents
      /\ Workers \cap Dispatchers = {}
  BY EventsAssumption, AgentsAssumption DEF Agents
<1>1. CASE UNCHANGED vars
  BY <1>1 DEF vars, agents, HeldClaims, Holds
<1>2. CASE Tick
  <2>1. \A e \in Events :
          LET aged == [items[e] EXCEPT !.lease = Less(@)] IN
            /\ aged.owner = items[e].owner /\ aged.lease = Less(items[e].lease)
            /\ aged.dead = items[e].dead
    BY AgedItem DEF Pipeline, Shape
  <2>2. \A e \in Events :
          /\ items'[e].owner = items[e].owner
          /\ items'[e].lease = Less(items[e].lease)
          /\ items'[e].dead = items[e].dead
    BY <1>2, <2>1 DEF Tick
  <2>3. \A w \in Workers : hold'[w] = Less(hold[w]) /\ (hold'[w] > 0 => hold[w] > 0)
    BY <1>2 DEF Tick, Less, Pipeline, Shape
  <2> QED
    BY <1>2, <2>2, <2>3 DEF Tick, HeldClaims, Holds
<1>3. ASSUME NEW e \in Events, Enqueue(e) PROVE HeldClaims'
  BY <1>3, EnqueuedItems DEF Enqueue, agents, HeldClaims, Holds
<1>4. ASSUME NEW e \in Events, Requeue(e) PROVE HeldClaims'
  <2>1. \A w \in Workers : ~Holds(w, e)
    BY <1>4 DEF Requeue, HeldClaims
  <2> QED
    BY <1>4, <2>1 DEF Requeue, agents, HeldClaims, Holds, Pipeline, Shape
<1>5. ASSUME NEW w \in Workers, Claim(w) PROVE HeldClaims'
  <2>1. PICK T \in OldestOf({e \in Events : Ready(e)}) : Claim(w)!2!(T)
    BY <1>5 DEF Claim
  <2>2. T \subseteq Events /\ \A e \in T : Ready(e)
    BY DEF OldestOf
  <2>3. \A e \in Events :
          LET claimed == [items[e] EXCEPT !.owner = w, !.lease = LeaseDuration] IN
            /\ claimed.owner = w /\ claimed.lease = LeaseDuration
            /\ claimed.dead = items[e].dead
    <3>1. \A e \in Events : items[e] \in StoredItem
      BY DEF Pipeline, Shape
    <3> QED
      BY <3>1, ClaimedItem
  <2>4. /\ \A e \in T : /\ items'[e].owner = w /\ items'[e].lease = LeaseDuration
                        /\ ~items'[e].dead
        /\ \A e \in Events \ T : items'[e] = items[e]
    BY <2>1, <2>2, <2>3 DEF Ready, Settled
  <2>5. \A v \in Workers, e \in T : ~Holds(v, e)
    BY <2>2 DEF Ready, HeldClaims, Holds
  <2>6. /\ hold' = [hold EXCEPT ![w] = LeaseDuration]
        /\ batch' = [batch EXCEPT ![w] = T]
        /\ doing' = doing /\ doing[w] = NoEvent
    BY <1>0, <1>5, <2>1 DEF Claim, Pipeline, Shape, InHand, Reporting
  <2>7. ASSUME NEW v \in Workers, NEW e \in Events, Holds(v, e)'
        PROVE  items'[e].owner = v /\ items'[e].lease = hold'[v] /\ ~items'[e].dead
    <3>1. CASE v = w
      BY <1>0, <2>4, <2>6, <2>7, <3>1 DEF Holds, Pipeline, Shape
    <3>2. CASE v # w
      BY <2>4, <2>5, <2>6, <2>7, <3>2 DEF Holds, HeldClaims, Pipeline, Shape
    <3> QED
      BY <3>1, <3>2
  <2> QED
    BY <2>7 DEF HeldClaims
<1>6. ASSUME NEW a \in Agents, Deliver(a) PROVE HeldClaims'
  BY <1>0, <1>6 DEF Deliver, HeldClaims, Holds, Pipeline, Shape, InHand, Reporting
<1>7. ASSUME NEW w \in Workers, Acknowledge(w) PROVE HeldClaims'
  <2>1. Reporting(w) /\ w \in Agents
    BY <1>0, <1>7 DEF Acknowledge, Reporting
  <2>2. items[doing[w]] \in StoredItem
    BY <2>1, InHandIsStored
  <2>3. Acknowledged(items[doing[w]]) \in StoredItem
    BY <2>2, AcknowledgedItem
  <2> QED
    BY <1>7, <2>1, <2>2, <2>3, ReportKeepsClaims DEF Acknowledge, Reportable
<1>8. ASSUME NEW w \in Workers, Fail(w) PROVE HeldClaims'
  <2>1. Reporting(w) /\ w \in Agents
    BY <1>0, <1>8 DEF Fail, Reporting
  <2>2. items[doing[w]] \in StoredItem /\ doing[w] \in Events
    BY <2>1, InHandIsStored
  <2>3. seen[w][doing[w]] + 1 \in Nat
    BY <2>2 DEF Pipeline, Shape
  <2>4. AfterFailure(items[doing[w]], seen[w][doing[w]] + 1) \in StoredItem
    BY <2>2, <2>3, AfterFailureItem
  <2> QED
    BY <1>8, <2>1, <2>2, <2>4, ReportKeepsClaims DEF Fail, Reportable
<1>9. ASSUME NEW d \in Dispatchers, MarkDelivered(d) \/ MarkAttempt(d) PROVE HeldClaims'
  <2>1. Reporting(d) /\ d \in Agents
    BY <1>0, <1>9 DEF MarkDelivered, MarkAttempt, Reporting
  <2>2. items[doing[d]] \in StoredItem
    BY <2>1, InHandIsStored
  <2> QED
    BY <1>9, <2>1, <2>2, MarkedItem, ReportKeepsClaims DEF MarkDelivered, MarkAttempt
<1>10. ASSUME NEW d \in Dispatchers, NEW e \in Events, Append(d, e) PROVE HeldClaims'
  <2>1. \A w \in Workers : batch'[w] = batch[w] /\ doing' = doing /\ hold' = hold
    BY <1>0, <1>10 DEF Append, Pipeline, Shape
  <2> QED
    BY <1>10, <2>1, EnqueuedItems DEF Append, HeldClaims, Holds
<1>11. ASSUME NEW d \in Dispatchers, Flush(d) PROVE HeldClaims'
  <2>1. \A w \in Workers : batch'[w] = batch[w] /\ doing' = doing /\ hold' = hold
    BY <1>0, <1>11 DEF Flush, Pipeline, Shape
  <2> QED
    BY <1>11, <2>1 DEF Flush, HeldClaims, Holds
<1>12. ASSUME NEW a \in Agents, Interrupt(a) PROVE HeldClaims'
  BY <1>0, <1>12 DEF Interrupt, HeldClaims, Holds, Pipeline, Shape
<1> QED
  BY <1>0, <1>1, <1>2, <1>3, <1>4, <1>5, <1>6, <1>7, <1>8, <1>9, <1>10, <1>11, <1>12
  DEF Next, RunOnce, Dispatch


LEMMA InitiallyInOrder == Init => Pipeline /\ HeldClaims
<1>1. NoItem \in StoredItem /\ NoItem.created = 0 /\ ~NoItem.delivered /\ ~NoItem.dead
  BY DEF NoItem, StoredItem
<1>2. NoEvent \notin Events
  BY EventsAssumption
<1>3. Init => Shape
  BY <1>1, OptionsType DEF Init, Shape, Budget
<1>4. Init => InHand /\ UnqueuedIsUnsettled /\ HeldClaims
  BY <1>1, <1>2 DEF Init, InHand, UnqueuedIsUnsettled, Reporting, Settled, HeldClaims,
                    Holds, Agents
<1> QED
  BY <1>3, <1>4 DEF Pipeline

(* Every reachable state is in order, with claims that agree with leases. *)
LEMMA AlwaysInOrder == Spec => [](Pipeline /\ HeldClaims)
<1>1. Pipeline /\ HeldClaims /\ [Next]_vars => (Pipeline /\ HeldClaims)'
  BY PipelineStep, HeldClaimsStep
<1> QED
  BY <1>1, InitiallyInOrder, PTL DEF Spec

(* Two workers never both work under an unexpired claim of one event:      *)
(* ClaimsExclusive for any number of workers, events and batch sizes.      *)
THEOREM ClaimsAreExclusive == Spec => []ClaimsExclusive
<1>1. HeldClaims => ClaimsExclusive
  BY DEF HeldClaims, ClaimsExclusive
<1> QED
  BY <1>1, AlwaysInOrder, PTL

(* The report of a superseded worker leaves an event another worker holds  *)
(* as it is, in both kinds of store.                                       *)
THEOREM LateReportsAreRefused == Spec => LateReportRefused
<1> DEFINE Untouched ==
      \A v, w \in Workers, e \in Events :
          /\ v # w /\ Holds(w, e)
          /\ pc[v] \in {"accepted", "refused"} /\ pc'[v] # pc[v]
          /\ budget' = budget
          => items'[e] = items[e]
<1>1. Pipeline /\ HeldClaims /\ [Next]_vars => [Untouched]_vars
  <2> SUFFICES ASSUME Pipeline, HeldClaims, Next,
                      NEW v \in Workers, NEW w \in Workers, NEW e \in Events,
                      v # w, Holds(w, e), pc[v] \in {"accepted", "refused"},
                      pc'[v] # pc[v], budget' = budget
               PROVE  items'[e] = items[e]
    OBVIOUS
  <2>1. items[e].owner = w
    BY DEF HeldClaims
  <2>2. Workers \subseteq Agents /\ Workers \cap Dispatchers = {}
    BY AgentsAssumption DEF Agents
  <2>3. Acknowledge(v) \/ Fail(v)
    <3>1. ~Tick /\ \A f \in Events : ~Enqueue(f) /\ ~Requeue(f)
      BY DEF Tick, Enqueue, Requeue, agents
    <3>2. \A a \in Agents : ~Interrupt(a)
      BY DEF Interrupt, Pipeline, Shape, Budget
    <3>3. \A d \in Dispatchers : ~Dispatch(d)
      <4> SUFFICES ASSUME NEW d \in Dispatchers, Dispatch(d) PROVE pc'[v] = pc[v]
        OBVIOUS
      <4>1. \E where : pc' = [pc EXCEPT ![d] = where]
        BY DEF Dispatch, Append, Flush, Deliver, MarkDelivered, MarkAttempt, Report
      <4> QED
        BY <2>2, <4>1 DEF Pipeline, Shape
    <3>4. \A u \in Workers : ~Claim(u) /\ ~Deliver(u)
      BY <2>2 DEF Claim, Deliver, Pipeline, Shape
    <3>5. \A u \in Workers : Acknowledge(u) \/ Fail(u) => u = v
      BY <2>2 DEF Acknowledge, Fail, Report, Pipeline, Shape
    <3> QED
      BY <3>1, <3>2, <3>3, <3>4, <3>5 DEF Next, RunOnce
  <2>4. doing[v] = e => ~Reportable(items[e], v)
    BY <2>1 DEF Reportable
  <2>5. items' = [items EXCEPT ![doing[v]] = items[doing[v]]] \/ doing[v] # e
    BY <2>3, <2>4 DEF Acknowledge, Fail, Report
  <2>6. \E item : items' = [items EXCEPT ![doing[v]] = item]
    BY <2>3 DEF Acknowledge, Fail, Report
  <2> QED
    BY <2>5, <2>6 DEF Pipeline, Shape
<1> QED
  BY <1>1, AlwaysInOrder, PTL DEF Spec, LateReportRefused


-------------------------------------------------------------------------------
(* What the outbox promises *)

StatusOf(item) ==
    IF ~(item.created > 0) THEN "absent"
    ELSE IF item.delivered THEN "delivered"
    ELSE IF item.dead THEN "dead" ELSE "pending"

(* The status of an event depends on its own item only. *)
LEMMA StatusByItem ==
    /\ Status = [e \in Events |-> StatusOf(items[e])]
    /\ Status' = [e \in Events |-> StatusOf(items'[e])]
BY DEF Status, StatusOf, Queued

(* A step that keeps every item's status and the sink is a stutter. *)
LEMMA SameStatusStutters ==
    ASSUME \A e \in Events : StatusOf(items'[e]) = StatusOf(items[e])
    PROVE  Status' = Status
BY StatusByItem

(* A step that changes one item changes the status of that event only. *)
LEMMA OneStatusChanges ==
    ASSUME NEW e \in Events,
           \A f \in Events : f # e => items'[f] = items[f]
    PROVE  Status' = [Status EXCEPT ![e] = StatusOf(items'[e])]
BY StatusByItem

(* A report moves the status of its event as AuditPromise allows. *)
LEMMA ReportKeepsPromise ==
    ASSUME Pipeline, NEW a \in Agents, Reporting(a),
           NEW item \in StoredItem, item.created = items[doing[a]].created,
           NEW delay, Report(a, item, delay),
           items[doing[a]].delivered => item.delivered,
           items[doing[a]].dead => item.dead,
           item.delivered => items[doing[a]].delivered \/ pc[a] = "accepted"
    PROVE  [Promise!Next]_<<Status, sink>>
<1> DEFINE e == doing[a]
<1>1. e \in Events /\ items[e].created > 0
  BY InHandIsStored DEF Queued
<1>2. items' = [items EXCEPT ![e] = item] /\ items \in [Events -> StoredItem] /\ sink' = sink
  BY DEF Report, Pipeline, Shape
<1>3. items'[e] = item /\ \A f \in Events : f # e => items'[f] = items[f]
  BY <1>1, <1>2
<1>4. Status' = [Status EXCEPT ![e] = StatusOf(item)] /\ Status[e] = StatusOf(items[e])
  BY <1>1, <1>3, OneStatusChanges, StatusByItem
<1>5. Status \in [Events -> {"absent", "pending", "delivered", "dead"}]
  BY StatusByItem DEF StatusOf
<1>6. pc[a] = "accepted" => e \in sink
  BY DEF Pipeline, InHand
<1> HIDE DEF e
<1>7. CASE StatusOf(item) = Status[e]
  <2>1. Status' = Status
    BY <1>1, <1>4, <1>5, <1>7
  <2> QED
    BY <1>2, <2>1
<1>8. CASE StatusOf(item) # Status[e] /\ item.delivered
  <2>1. e \in sink /\ Status[e] \in {"pending", "dead"} /\ StatusOf(item) = "delivered"
    BY <1>1, <1>4, <1>6, <1>8 DEF StatusOf, e
  <2>2. Promise!Deliver(e)
    BY <1>2, <1>4, <2>1 DEF Promise!Deliver, Promise!Move
  <2> QED
    BY <1>1, <2>2 DEF Promise!Next
<1>9. CASE StatusOf(item) # Status[e] /\ ~item.delivered
  <2>1. Status[e] = "pending" /\ StatusOf(item) = "dead"
    BY <1>1, <1>4, <1>9 DEF StatusOf, e
  <2>2. Promise!DeadLetter(e)
    BY <1>2, <1>4, <2>1 DEF Promise!DeadLetter, Promise!Move
  <2> QED
    BY <1>1, <2>2 DEF Promise!Next
<1> QED
  BY <1>7, <1>8, <1>9

(* Enqueueing is a step of AuditPromise, or none. *)
LEMMA EnqueueKeepsPromise ==
    ASSUME Pipeline, NEW e \in Events, items' = WithEnqueued(e), sink' = sink
    PROVE  [Promise!Next]_<<Status, sink>>
<1>1. CASE Queued(e)
  BY <1>1, EnqueuedItems, SameStatusStutters
<1>2. CASE ~Queued(e)
  <2>1. Status[e] = "absent" /\ StatusOf(items'[e]) = "pending"
    BY <1>2, EnqueuedItems, StatusByItem
    DEF StatusOf, Queued, Pipeline, UnqueuedIsUnsettled, Settled
  <2>2. Status' = [Status EXCEPT ![e] = "pending"]
    BY <2>1, EnqueuedItems, OneStatusChanges
  <2>3. Promise!Enqueue(e)
    BY <2>1, <2>2 DEF Promise!Enqueue, Promise!Move
  <2> QED
    BY <2>3 DEF Promise!Next
<1> QED
  BY <1>1, <1>2


(* Every step of the outbox is a step of AuditPromise, or none. *)
LEMMA StepKeepsPromise ==
    Pipeline /\ [Next]_vars => [Promise!Next]_<<Status, sink>>
<1> SUFFICES ASSUME Pipeline, [Next]_vars PROVE [Promise!Next]_<<Status, sink>>
  OBVIOUS
<1>0. Workers \subseteq Agents /\ Dispatchers \subseteq Agents
  BY DEF Agents
<1>1. CASE UNCHANGED vars
  BY <1>1, SameStatusStutters DEF vars
<1>2. CASE Tick
  <2>1. \A e \in Events : items[e] \in StoredItem
    BY DEF Pipeline, Shape
  <2>2. \A e \in Events :
          LET aged == [items[e] EXCEPT !.lease = Less(@)] IN
            /\ aged.created = items[e].created
            /\ aged.delivered = items[e].delivered /\ aged.dead = items[e].dead
    BY <2>1, AgedItem
  <2>3. \A e \in Events : StatusOf(items'[e]) = StatusOf(items[e])
    BY <1>2, <2>2 DEF Tick, StatusOf
  <2> QED
    BY <1>2, <2>3, SameStatusStutters DEF Tick
<1>3. ASSUME NEW e \in Events, Enqueue(e) PROVE [Promise!Next]_<<Status, sink>>
  BY <1>3, EnqueueKeepsPromise DEF Enqueue
<1>4. ASSUME NEW e \in Events, Requeue(e) PROVE [Promise!Next]_<<Status, sink>>
  <2>1. /\ items[e].dead /\ items[e] \in StoredItem
        /\ items' = [items EXCEPT ![e] = Requeued(items[e])]
        /\ sink' = sink
    BY <1>4 DEF Requeue, Pipeline, Shape
  <2>2. /\ Requeued(items[e]).created = items[e].created
        /\ Requeued(items[e]).delivered = items[e].delivered
        /\ ~Requeued(items[e]).dead
    BY <2>1, RequeuedItem
  <2>3. items'[e] = Requeued(items[e]) /\ \A f \in Events : f # e => items'[f] = items[f]
    BY <2>1 DEF Pipeline, Shape
  <2>4. Status' = [Status EXCEPT ![e] = StatusOf(items'[e])] /\ Status[e] = StatusOf(items[e])
    BY <2>3, OneStatusChanges, StatusByItem
  <2>5. items[e].created > 0
    BY <2>1 DEF Pipeline, UnqueuedIsUnsettled, Queued, Settled
  <2>6. CASE items[e].delivered
    <3>1. \A f \in Events : StatusOf(items'[f]) = StatusOf(items[f])
      BY <2>2, <2>3, <2>6 DEF StatusOf
    <3> QED
      BY <2>1, <3>1, SameStatusStutters
  <2>7. CASE ~items[e].delivered
    <3>1. Status[e] = "dead" /\ StatusOf(items'[e]) = "pending"
      BY <2>1, <2>2, <2>3, <2>4, <2>5, <2>7 DEF StatusOf
    <3>2. Promise!Requeue(e)
      BY <2>1, <2>4, <3>1 DEF Promise!Requeue, Promise!Move
    <3> QED
      BY <3>2 DEF Promise!Next
  <2> QED
    BY <2>6, <2>7
<1>5. ASSUME NEW w \in Workers, Claim(w) PROVE [Promise!Next]_<<Status, sink>>
  <2>1. PICK T \in OldestOf({e \in Events : Ready(e)}) : Claim(w)!2!(T)
    BY <1>5 DEF Claim
  <2>2. \A e \in Events : items[e] \in StoredItem
    BY DEF Pipeline, Shape
  <2>3. \A e \in Events :
          LET claimed == [items[e] EXCEPT !.owner = w, !.lease = LeaseDuration] IN
            /\ claimed.created = items[e].created
            /\ claimed.delivered = items[e].delivered /\ claimed.dead = items[e].dead
    BY <2>2, ClaimedItem
  <2>4. \A e \in Events : StatusOf(items'[e]) = StatusOf(items[e])
    BY <2>1, <2>3 DEF StatusOf
  <2> QED
    BY <1>5, <2>4, SameStatusStutters DEF Claim
<1>6. ASSUME NEW a \in Agents, Deliver(a) PROVE [Promise!Next]_<<Status, sink>>
  <2>1. PICK e \in batch[a] : sink' = sink \/ sink' = sink \cup {e}
    BY <1>6 DEF Deliver
  <2>2. e \in Events /\ Queued(e)
    BY DEF Pipeline, Shape, InHand
  <2>3. Status[e] # "absent"
    BY <2>2, StatusByItem DEF StatusOf, Queued
  <2>4. Status' = Status
    BY <1>6, SameStatusStutters DEF Deliver
  <2>5. sink' = sink \/ Promise!Accept(e)
    BY <2>1, <2>3, <2>4 DEF Promise!Accept
  <2> QED
    BY <2>2, <2>4, <2>5 DEF Promise!Next
<1>7. ASSUME NEW w \in Workers, Acknowledge(w) PROVE [Promise!Next]_<<Status, sink>>
  <2>1. Reporting(w) /\ w \in Agents /\ pc[w] = "accepted"
    BY <1>0, <1>7 DEF Acknowledge, Reporting
  <2>2. items[doing[w]] \in StoredItem
    BY <2>1, InHandIsStored
  <2> QED
    BY <1>7, <2>1, <2>2, AcknowledgedItem, ReportKeepsPromise DEF Acknowledge
<1>8. ASSUME NEW w \in Workers, Fail(w) PROVE [Promise!Next]_<<Status, sink>>
  <2>1. Reporting(w) /\ w \in Agents
    BY <1>0, <1>8 DEF Fail, Reporting
  <2>2. items[doing[w]] \in StoredItem /\ doing[w] \in Events
    BY <2>1, InHandIsStored
  <2>3. seen[w][doing[w]] + 1 \in Nat
    BY <2>2 DEF Pipeline, Shape
  <2> DEFINE failed == AfterFailure(items[doing[w]], seen[w][doing[w]] + 1)
  <2>4. /\ failed \in StoredItem /\ failed.created = items[doing[w]].created
        /\ failed.delivered = items[doing[w]].delivered
        /\ items[doing[w]].dead => failed.dead
    BY <2>2, <2>3, AfterFailureItem
  <2>5. \E delay : Report(w, failed, delay) \/ Report(w, items[doing[w]], delay)
    BY <1>8 DEF Fail
  <2> HIDE DEF failed
  <2> QED
    BY <2>1, <2>2, <2>4, <2>5, ReportKeepsPromise
<1>9. ASSUME NEW d \in Dispatchers, MarkDelivered(d) \/ MarkAttempt(d)
      PROVE  [Promise!Next]_<<Status, sink>>
  <2>1. Reporting(d) /\ d \in Agents
    BY <1>0, <1>9 DEF MarkDelivered, MarkAttempt, Reporting
  <2>2. items[doing[d]] \in StoredItem
    BY <2>1, InHandIsStored
  <2> QED
    BY <1>9, <2>1, <2>2, MarkedItem, ReportKeepsPromise DEF MarkDelivered, MarkAttempt
<1>10. ASSUME NEW d \in Dispatchers, NEW e \in Events, Append(d, e)
       PROVE  [Promise!Next]_<<Status, sink>>
  BY <1>10, EnqueueKeepsPromise DEF Append
<1>11. ASSUME NEW d \in Dispatchers, Flush(d) PROVE [Promise!Next]_<<Status, sink>>
  BY <1>11, SameStatusStutters DEF Flush
<1>12. ASSUME NEW a \in Agents, Interrupt(a) PROVE [Promise!Next]_<<Status, sink>>
  BY <1>12, SameStatusStutters DEF Interrupt
<1> QED
  BY <1>0, <1>1, <1>2, <1>3, <1>4, <1>5, <1>6, <1>7, <1>8, <1>9, <1>10, <1>11, <1>12
  DEF Next, RunOnce, Dispatch

(* The outbox, with its workers, dispatchers, leases, crashes and late     *)
(* reports, implements AuditPromise: ImplementsPromise for every value of  *)
(* the constants.                                                          *)
THEOREM OutboxImplementsPromise == Spec => ImplementsPromise
<1>1. Init => Promise!Init
  BY StatusByItem DEF Init, NoItem, StatusOf, Promise!Init
<1> QED
  BY <1>1, StepKeepsPromise, AlwaysInOrder, PTL DEF Spec, ImplementsPromise, Promise!Spec


-------------------------------------------------------------------------------
(* Dead letters *)

(* Counts of the store, of the workers and of the failures agree: an owner *)
(* has seen the stored count, and every counted attempt is a failure.      *)
Counts(e) ==
    /\ items[e].delivered => items[e].owner = NoWorker
    /\ items[e].dead => /\ items[e].owner = NoWorker /\ ~items[e].delivered
                        /\ refused[e] = MaxAttempts
    /\ ~items[e].dead => /\ items[e].attempts < MaxAttempts
                         /\ items[e].attempts <= refused[e]
    /\ \A w \in Workers :
         items[e].owner = w /\ (e \in batch[w] \/ doing[w] = e) =>
             /\ seen[w][e] = items[e].attempts
             /\ pc[w] = "refused" /\ doing[w] = e => items[e].attempts < refused[e]

Undispatched == budget.dispatches = MaxDispatches

Earned ==
    /\ budget.dispatches <= MaxDispatches
    /\ Undispatched =>
         /\ \A d \in Dispatchers : pc[d] = "idle"
         /\ \A e \in Events : Counts(e)

(* While no dispatcher acts, the counts agree after every step. *)
LEMMA EarnedStep == Pipeline /\ Earned /\ [Next]_vars => Earned'
<1> SUFFICES ASSUME Pipeline, Earned, [Next]_vars PROVE Earned'
  OBVIOUS
<1>0. /\ NoEvent \notin Events /\ NoWorker \notin Workers
      /\ Workers \subseteq Agents /\ Dispatchers \subseteq Agents
      /\ Workers \cap Dispatchers = {}
      /\ MaxDispatches \in Nat /\ budget.dispatches \in Nat
      /\ MaxAttempts \in Nat /\ MaxAttempts > 0
      /\ \A e \in Events : /\ items[e] \in StoredItem /\ items[e].attempts \in Nat
                            /\ refused[e] \in 0 .. MaxAttempts
  BY EventsAssumption, AgentsAssumption, OptionsType
  DEF Agents, Pipeline, Shape, Budget, StoredItem
<1>1. CASE UNCHANGED vars
  BY <1>1 DEF vars, agents, Earned, Undispatched, Counts
<1>2. CASE Tick
  <2>1. \A e \in Events :
          LET aged == [items[e] EXCEPT !.lease = Less(@)] IN
            /\ aged.owner = items[e].owner /\ aged.attempts = items[e].attempts
            /\ aged.delivered = items[e].delivered /\ aged.dead = items[e].dead
    BY <1>0, AgedItem
  <2>2. \A e \in Events :
          /\ items'[e].owner = items[e].owner
          /\ items'[e].attempts = items[e].attempts
          /\ items'[e].delivered = items[e].delivered
          /\ items'[e].dead = items[e].dead
    BY <1>2, <2>1 DEF Tick
  <2>3. budget'.dispatches = budget.dispatches
    BY <1>2 DEF Tick, Pipeline, Shape, Budget
  <2> QED
    BY <1>2, <2>2, <2>3 DEF Tick, Earned, Undispatched, Counts
<1>3. ASSUME NEW e \in Events, Enqueue(e) PROVE Earned'
  <2>1. \A f \in Events :
          /\ items'[f].owner = items[f].owner
          /\ items'[f].attempts = items[f].attempts
          /\ items'[f].delivered = items[f].delivered
          /\ items'[f].dead = items[f].dead
    BY <1>3, EnqueuedItems DEF Enqueue
  <2> QED
    BY <1>3, <2>1 DEF Enqueue, agents, Earned, Undispatched, Counts
<1>4. ASSUME NEW e \in Events, Requeue(e) PROVE Earned'
  <2>1. /\ items' = [items EXCEPT ![e] = Requeued(items[e])]
        /\ refused' = [refused EXCEPT ![e] = 0]
        /\ budget'.dispatches = budget.dispatches /\ items[e].dead
    BY <1>4 DEF Requeue, Pipeline, Shape, Budget
  <2>2. /\ items'[e] = Requeued(items[e]) /\ refused'[e] = 0
        /\ \A f \in Events : f # e => items'[f] = items[f] /\ refused'[f] = refused[f]
    BY <2>1 DEF Pipeline, Shape
  <2>3. /\ ~items'[e].dead /\ items'[e].attempts = 0 /\ items'[e].owner = NoWorker
        /\ items'[e].delivered = items[e].delivered
    BY <1>0, <2>2, RequeuedItem
  <2>4. UNCHANGED agents
    BY <1>4 DEF Requeue
  <2> QED
    BY <1>0, <2>1, <2>2, <2>3, <2>4 DEF agents, Earned, Undispatched, Counts
<1>5. ASSUME NEW w \in Workers, Claim(w) PROVE Earned'
  <2>1. PICK T \in OldestOf({e \in Events : Ready(e)}) : Claim(w)!2!(T)
    BY <1>5 DEF Claim
  <2>2. T \subseteq Events /\ \A e \in T : Ready(e)
    BY DEF OldestOf
  <2>3. \A e \in Events :
          LET claimed == [items[e] EXCEPT !.owner = w, !.lease = LeaseDuration] IN
            /\ claimed.owner = w /\ claimed.attempts = items[e].attempts
            /\ claimed.delivered = items[e].delivered /\ claimed.dead = items[e].dead
    BY <1>0, ClaimedItem
  <2>4. \A e \in T :
          /\ items'[e].owner = w /\ items'[e].attempts = items[e].attempts
          /\ ~items'[e].delivered /\ ~items'[e].dead /\ ~items[e].dead
    BY <2>1, <2>2, <2>3 DEF Ready, Settled
  <2>5. \A e \in Events \ T : items'[e] = items[e]
    BY <2>1
  <2>6. /\ batch'[w] = T /\ doing'[w] = NoEvent /\ pc'[w] = "deliver"
        /\ \A e \in T : seen'[w][e] = items[e].attempts
        /\ \A v \in Agents : v # w => /\ batch'[v] = batch[v] /\ doing'[v] = doing[v]
                                      /\ pc'[v] = pc[v]
        /\ \A v \in Workers : v # w => seen'[v] = seen[v]
        /\ refused' = refused /\ budget' = budget
    BY <1>0, <1>5, <2>1, <2>2 DEF Claim, Pipeline, Shape, InHand, Reporting
  <2>7. ASSUME Undispatched, NEW e \in Events PROVE Counts(e)'
    <3>1. Counts(e)
      BY <2>7 DEF Earned
    <3>2. CASE e \in T
      BY <1>0, <2>4, <2>6, <3>1, <3>2 DEF Counts
    <3>3. CASE e \notin T
      BY <1>0, <2>5, <2>6, <3>1, <3>3 DEF Counts
    <3> QED
      BY <3>2, <3>3
  <2> QED
    BY <1>0, <2>6, <2>7 DEF Earned, Undispatched
<1>6. ASSUME NEW a \in Agents, Deliver(a) PROVE Earned'
  <2>1. PICK e \in batch[a], ok \in BOOLEAN : Deliver(a)!2!(e, ok)
    BY <1>6 DEF Deliver
  <2>2. e \in Events /\ NoEvent \notin Events /\ doing[a] = NoEvent
    BY <1>0, <1>6 DEF Deliver, Pipeline, Shape, InHand, Reporting
  <2>3. /\ doing'[a] = e /\ batch'[a] = batch[a] \ {e}
        /\ pc'[a] = IF ok THEN "accepted" ELSE "refused"
        /\ \A b \in Agents : b # a => /\ batch'[b] = batch[b] /\ doing'[b] = doing[b]
                                      /\ pc'[b] = pc[b]
        /\ items' = items /\ seen' = seen /\ budget' = budget
    BY <1>6, <2>1 DEF Deliver, Answer, Pipeline, Shape
  <2>4. /\ \A f \in Events : f # e => refused'[f] = refused[f]
        /\ refused'[e] = IF ok \/ refused[e] = MaxAttempts THEN refused[e]
                         ELSE refused[e] + 1
    BY <2>1, <2>2 DEF Pipeline, Shape
  <2>5. ASSUME Undispatched, NEW f \in Events PROVE Counts(f)'
    <3>1. Counts(f)
      BY <2>5 DEF Earned
    <3>2. refused'[f] >= refused[f] /\ (items[f].dead => refused'[f] = refused[f])
      BY <1>0, <2>4, <3>1 DEF Counts
    <3>3. ASSUME NEW w \in Workers, items[f].owner = w, f \in batch'[w] \/ doing'[w] = f
          PROVE  /\ seen[w][f] = items[f].attempts
                 /\ pc'[w] = "refused" /\ doing'[w] = f => items[f].attempts < refused'[f]
      <4>1. f \in batch[w] \/ doing[w] = f
        BY <1>0, <2>3, <3>3
      <4>2. ~items[f].dead
        BY <1>0, <3>1, <3>3 DEF Counts
      <4>3. CASE w = a
        <5>1. seen[w][f] = items[f].attempts
          BY <3>1, <3>3, <4>1 DEF Counts
        <5>2. /\ items[f].attempts < MaxAttempts /\ items[f].attempts <= refused[f]
              /\ items[f].attempts \in Nat /\ refused[f] \in 0 .. MaxAttempts
          BY <1>0, <3>1, <4>2 DEF Counts
        <5>3. ASSUME pc'[w] = "refused", doing'[w] = f PROVE items[f].attempts < refused'[f]
          <6>1. f = e /\ ~ok
            BY <2>3, <4>3, <5>3
          <6>2. refused'[f] = IF refused[f] = MaxAttempts THEN refused[f] ELSE refused[f] + 1
            BY <2>4, <6>1
          <6> QED
            BY <5>2, <6>2, <1>0
        <5> QED
          BY <5>1, <5>3
      <4>4. CASE w # a
        <5>1. /\ seen[w][f] = items[f].attempts
              /\ pc'[w] = "refused" /\ doing'[w] = f => items[f].attempts < refused[f]
          BY <1>0, <2>3, <3>1, <3>3, <4>1, <4>4 DEF Counts
        <5>2. /\ items[f].attempts \in Nat /\ refused[f] \in Nat /\ refused'[f] \in Nat
              /\ refused[f] <= refused'[f]
          BY <1>0, <2>4, <3>2
        <5> QED
          BY <5>1, <5>2
      <4> QED
        BY <4>3, <4>4
    <3> QED
      BY <1>0, <2>3, <2>4, <3>1, <3>2, <3>3 DEF Counts
  <2>6. Undispatched => a \notin Dispatchers
    BY <1>6 DEF Deliver, Earned
  <2> QED
    BY <1>0, <2>3, <2>5, <2>6 DEF Earned, Undispatched
<1>7. ASSUME NEW w \in Workers, Acknowledge(w) \/ Fail(w) PROVE Earned'
  <2>1. Reporting(w) /\ w \in Agents
    BY <1>0, <1>7 DEF Acknowledge, Fail, Reporting
  <2> DEFINE e == doing[w]
  <2>2. e \in Events /\ items[e] \in StoredItem
    BY <2>1, InHandIsStored
  <2>3. seen[w][e] + 1 \in Nat
    BY <2>2 DEF Pipeline, Shape
  <2>4. PICK item, delay :
          /\ Report(w, item, delay)
          /\ \/ item = items[e]
             \/ items[e].owner = w /\ item = Acknowledged(items[e])
             \/ /\ pc[w] = "refused" /\ items[e].owner = w
                /\ item = AfterFailure(items[e], seen[w][e] + 1)
    BY <1>7 DEF Acknowledge, Fail, Reportable
  <2>5. /\ items'[e] = item /\ \A f \in Events : f # e => items'[f] = items[f]
        /\ batch' = batch /\ refused' = refused /\ budget' = budget
        /\ doing'[w] = NoEvent /\ pc'[w] # "refused"
        /\ \A b \in Agents : b # w => doing'[b] = doing[b] /\ pc'[b] = pc[b]
    BY <2>1, <2>2, <2>4 DEF Report, Pipeline, Shape
  <2>6. /\ \A v \in Workers : v # w => seen'[v] = seen[v]
        /\ batch[w] # {} => seen'[w] = seen[w]
    BY <2>4 DEF Report, Pipeline, Shape
  <2>7. ASSUME Undispatched, NEW f \in Events PROVE Counts(f)'
    <3>1. Counts(f)
      BY <2>7 DEF Earned
    <3>2. CASE f # e \/ item = items[e]
      <4>1. items'[f] = items[f]
        BY <2>5, <3>2
      <4> QED
        BY <1>0, <2>5, <2>6, <3>1, <4>1 DEF Counts
    <3>3. CASE f = e /\ items[e].owner = w /\ item = Acknowledged(items[e])
      <4>1. /\ item.owner = NoWorker /\ item.dead = items[e].dead
            /\ item.attempts = items[e].attempts /\ item.delivered
        BY <2>2, <3>3, AcknowledgedItem
      <4> QED
        BY <1>0, <2>5, <3>1, <3>3, <4>1 DEF Counts
    <3>4. CASE /\ f = e /\ pc[w] = "refused" /\ items[e].owner = w
               /\ item = AfterFailure(items[e], seen[w][e] + 1)
      <4>1. /\ item.owner = NoWorker /\ item.delivered = items[e].delivered
            /\ item.attempts = items[e].attempts + 1
            /\ item.dead <=> (items[e].dead \/ seen[w][e] + 1 >= MaxAttempts)
        BY <2>2, <2>3, <3>4, AfterFailureItem
      <4>2. /\ ~items[e].dead /\ ~items[e].delivered /\ seen[w][e] = items[e].attempts
            /\ items[e].attempts < refused[e]
        BY <1>0, <3>1, <3>4 DEF Counts
      <4> QED
        BY <1>0, <2>2, <2>5, <3>4, <4>1, <4>2 DEF Counts
    <3> QED
      BY <2>4, <3>2, <3>3, <3>4
  <2> QED
    BY <1>0, <2>5, <2>7 DEF Earned, Undispatched
<1>8. ASSUME NEW d \in Dispatchers, Flush(d) \/ \E e \in Events : Append(d, e)
      PROVE  Earned'
  <2>1. budget.dispatches > 0 /\ budget' = [budget EXCEPT !.dispatches = @ - 1]
    BY <1>8 DEF Append, Flush
  <2>2. budget'.dispatches \in Nat /\ budget'.dispatches < budget.dispatches
    BY <1>0, <2>1 DEF Pipeline, Shape, Budget
  <2> QED
    BY <1>0, <2>2 DEF Earned, Undispatched
<1>9. ASSUME NEW d \in Dispatchers, MarkDelivered(d) \/ MarkAttempt(d) PROVE Earned'
  <2>1. ~Undispatched /\ budget' = budget
    BY <1>9 DEF MarkDelivered, MarkAttempt, Report, Earned
  <2> QED
    BY <2>1 DEF Earned, Undispatched
<1>10. ASSUME NEW a \in Agents, Interrupt(a) PROVE Earned'
  <2>1. budget'.dispatches = budget.dispatches
    BY <1>10 DEF Interrupt, Pipeline, Shape, Budget
  <2>2. /\ batch'[a] = {} /\ doing'[a] = NoEvent /\ pc'[a] = "idle"
        /\ \A b \in Agents : b # a => /\ batch'[b] = batch[b] /\ doing'[b] = doing[b]
                                      /\ pc'[b] = pc[b]
        /\ \A v \in Workers : v # a => seen'[v] = seen[v]
        /\ items' = items /\ refused' = refused
    BY <1>10 DEF Interrupt, Pipeline, Shape
  <2> QED
    BY <1>0, <2>1, <2>2 DEF Earned, Undispatched, Counts
<1> QED
  BY <1>0, <1>1, <1>2, <1>3, <1>4, <1>5, <1>6, <1>7, <1>8, <1>9, <1>10
  DEF Next, RunOnce, Dispatch

(* As long as no dispatcher interferes, an event is a dead letter only     *)
(* after MaxAttempts failed deliveries, and is then not delivered as well. *)
THEOREM DeadLettersAreEarned == Spec => []DeadLetterIsEarned
<1>1. Init => Earned
  <2>1. Init => \A e \in Events : Counts(e)
    BY OptionsType, EventsAssumption, AgentsAssumption
    DEF Init, Counts, NoItem, Agents
  <2> QED
    BY <2>1, OptionsType DEF Init, Earned, Undispatched, Agents
<1>2. Earned => DeadLetterIsEarned
  BY DEF Earned, Undispatched, Counts, DeadLetterIsEarned
<1> QED
  BY <1>1, <1>2, EarnedStep, AlwaysInOrder, PTL DEF Spec

(* The promise is kept, and late reports are refused.                      *)
THEOREM PromiseIsKept == Spec => PromiseKept
BY OutboxImplementsPromise, LateReportsAreRefused DEF PromiseKept
===============================================================================
