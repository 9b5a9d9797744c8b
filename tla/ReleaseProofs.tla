---------------------------- MODULE ReleaseProofs ----------------------------
(***************************************************************************)
(* Proofs about ReleaseLifecycle, for any callers, workflows, scripts and  *)
(* bounds: a publication rests on evidence, a task reaches a published     *)
(* version, and what was recorded and learned is kept. And about           *)
(* WorkflowContracts, for any versions, inputs and results: what the       *)
(* preflight accepted is there, and is what it was taken for.              *)
(*                                                                         *)
(* A call is several store calls, and the stores change in between.  What  *)
(* a call remembers is therefore said of the stores as they are now: each  *)
(* of them moves only in a way that keeps it true (Grows), so that one     *)
(* lemma covers all the calls that do not move.                            *)
(***************************************************************************)
EXTENDS ReleaseLifecycle, WorkflowContracts, Induction

\* The shape of documents, rows and calls: their fields, whatever these hold.
IsDoc(doc) ==
    doc = [token |-> doc.token, traces |-> doc.traces, tools |-> doc.tools, status |-> doc.status]
IsRow(row) == row = [status |-> row.status, doc |-> row.doc] /\ IsDoc(row.doc)
IsCall(k) ==
    /\ k = [pc |-> k.pc, wf |-> k.wf, number |-> k.number, doc |-> k.doc, demo |-> k.demo,
            event |-> k.event, base |-> k.base, stored |-> k.stored, at |-> k.at,
            known |-> k.known]
    /\ IsDoc(k.doc)

VersionsShape(vs) ==
    /\ DOMAIN vs = Workflows
    /\ \A w \in Workflows : DOMAIN vs[w] = Numbers /\ \A n \in Numbers : IsRow(vs[w][n])

\* The document of a version as it was when it was a candidate.
Candidate(doc) == [doc EXCEPT !.status = "candidate"]

\* What a version is known by does not change once it is stored.
RowKept(row, row2) ==
    row.status # "none" => row2.status # "none" /\ Candidate(row2.doc) = Candidate(row.doc)

\* The demonstrations that were learned from are what they were.
Frozen(traces, ds) ==
    \A d \in DOMAIN traces : d \in Demos /\ ds[d].status = "completed" /\ ds[d].trace = traces[d]

PublishedIn(vs, w) == \E n \in Numbers : vs[w][n].status = "published"
OnePublished(vs) ==
    \A w \in Workflows, m, n \in Numbers :
        vs[w][m].status = "published" /\ vs[w][n].status = "published" => m = n

\* What the publisher has seen of the reports and reviews.
ReportEvidence(k, rs) ==
    \E r \in rs :
        /\ r.wf = k.wf /\ r.number = k.number /\ r.suite = "required"
        /\ r.verdict = "passed" /\ r.digest = k.doc
        /\ \A q \in k.known[1] : q.suite = "required" => ~Later(q, r)
ReviewEvidence(k, rs) ==
    \E r \in rs :
        /\ r.wf = k.wf /\ r.number = k.number /\ r.digest = k.doc /\ r.verdict = "approved"
        /\ \A q \in k.known[2] : ~Later(q, r)

\* The calls that have a workflow, and those that work on one of its numbers.
PublisherLabels == {"list_reports", "list_reviews", "publish"}
CandidateLabels == PublisherLabels \cup {"save_review"}
NumberLabels == CandidateLabels \cup {"extract", "save_candidate", "load_target", "load_version"}
WorkflowLabels == NumberLabels \cup {"list_demos", "list_versions", "save_route", "resolve"}

EventType == [id : Events, corrects : Events, at : Nat]

\* What a call may rely on, of the stores as they are.
CallSound(k, ds, vs, reps, revs) ==
    /\ IsCall(k)
    /\ Frozen(k.doc.traces, ds)
    /\ k.pc \in WorkflowLabels => k.wf \in Workflows
    /\ k.pc \in NumberLabels => k.number \in Numbers
    /\ k.pc = "append" => k.demo[1] \in Demos /\ k.event[1] \in EventType
    /\ k.pc \in CandidateLabels =>
          vs[k.wf][k.number].status # "none" /\ k.doc = Candidate(vs[k.wf][k.number].doc)
    /\ k.pc \in PublisherLabels =>
          /\ k.known[1] \subseteq {r \in reps : r.wf = k.wf /\ r.number = k.number}
          /\ k.known[2] \subseteq {r \in revs : r.wf = k.wf /\ r.number = k.number}
    /\ k.pc \in {"list_reviews", "publish"} => ReportEvidence(k, reps)
    /\ k.pc = "publish" => ReviewEvidence(k, revs)
    /\ k.pc \in {"load_target", "save_route"} => PublishedIn(vs, k.wf)
    /\ k.pc = "start" => k.doc.status = k.stored

\* A review is of the document of the version as it was a candidate.
ReviewsSound(revs, vs) ==
    \A r \in revs :
        /\ r.wf \in Workflows /\ r.number \in Numbers
        /\ vs[r.wf][r.number].status # "none"
        /\ r.digest = Candidate(vs[r.wf][r.number].doc)

VersionsSound(vs, ds) ==
    /\ VersionsShape(vs) /\ OnePublished(vs)
    /\ \A w \in Workflows, n \in Numbers : Frozen(vs[w][n].doc.traces, ds)

LearnedSound(ls, vs) ==
    \A l \in ls : /\ l[1] \in Workflows /\ l[2] \in Numbers
                  /\ vs[l[1]][l[2]].status # "none" /\ vs[l[1]][l[2]].doc.token = l[3]

Demonstration == [status : {"none", "recording", "completed"}, trace : Seq(EventType)]

TraceOrdered(trace) ==
    \A i \in DOMAIN trace : ValidAppend(SubSeq(trace, 1, i - 1), trace[i])
DemosSound(ds) ==
    /\ ds \in [Demos -> Demonstration]
    /\ \A d \in Demos : TraceOrdered(ds[d].trace)

ExecutionsSound ==
    \A x \in executions :
        /\ x = [id |-> x.id, wf |-> x.wf, number |-> x.number, loadedAs |-> x.loadedAs,
                status |-> x.status]
        /\ x.loadedAs = "published"

CallsSound ==
    /\ DOMAIN calls = Callers
    /\ \A c \in Callers : CallSound(calls[c], demos, versions, reports, reviews)

ReleaseInv ==
    /\ CallsSound
    /\ VersionsSound(versions, demos)
    /\ ReviewsSound(reviews, versions)
    /\ LearnedSound(learned, versions)
    /\ route # NoRoute => route.target \in Workflows /\ PublishedIn(versions, route.target)
    /\ clock \in Nat /\ DemosSound(demos)
    /\ PublishedOnEvidence
    /\ ExecutionsSound

-----------------------------------------------------------------------------
\* Numbers, documents, traces

\* A set of numbers up to m has a largest one.
LEMMA HasLargest ==
    ASSUME NEW m \in Nat, NEW S, S \subseteq 1 .. m, S # {}
    PROVE  \E n \in S : \A k \in S : k <= n
<1> DEFINE R == OpToRel(<, Nat)
           T == {m - k : k \in S}
<1>1. IsWellFoundedOn(R, Nat)
  BY NatLessThanWellFounded
<1>2. T \subseteq Nat /\ T # {}
  <2>1. \A k \in S : m - k \in Nat
    OBVIOUS
  <2>2. QED
    BY <2>1
<1>3. \A x, y \in Nat : y < x => <<y, x>> \in R
  BY DEF OpToRel
<1> HIDE DEF R, T
<1>4. PICK x \in T : \A y \in T : ~ (<<y, x>> \in R)
  BY <1>1, <1>2, WFMin
<1>5. PICK n \in S : x = m - n
  BY <1>4 DEF T
<1>6. ASSUME NEW k \in S PROVE k <= n
  <2>1. m - k \in T /\ m - k \in Nat /\ x \in Nat
    BY <1>2, <1>4 DEF T
  <2>2. ~ (m - k < x)
    BY <1>3, <1>4, <2>1
  <2>3. QED
    BY <1>5, <2>2
<1>7. QED
  BY <1>5, <1>6

LEMMA HighestIn ==
    ASSUME NEW S, S \subseteq Numbers, S # {}
    PROVE  Highest(S) \in S
<1>1. MaxVersion \in Nat
  BY ReleaseAssumption
<1>2. \E n \in S : \A k \in S : k <= n
  BY <1>1, HasLargest DEF Numbers
<1>3. QED
  BY <1>2 DEF Highest

LEMMA NextNumberAbove ==
    ASSUME NEW w, NextNumber(w) <= MaxVersion
    PROVE  NextNumber(w) \in Numbers
<1>1. MaxVersion \in Nat /\ Stored(w) \subseteq Numbers
  BY ReleaseAssumption DEF Stored
<1>2. CASE Stored(w) = {}
  BY <1>1, <1>2 DEF NextNumber, Numbers
<1>3. CASE Stored(w) # {}
  <2>1. Highest(Stored(w)) \in Numbers
    BY <1>1, <1>3, HighestIn
  <2>2. QED
    BY <1>1, <1>3, <2>1 DEF NextNumber, Numbers
<1>4. QED
  BY <1>2, <1>3

\* A document that is given a status.
LEMMA WithStatus ==
    ASSUME NEW doc, IsDoc(doc), NEW s
    PROVE  LET d == [doc EXCEPT !.status = s] IN
           /\ IsDoc(d) /\ d.status = s /\ d.token = doc.token /\ d.traces = doc.traces
           /\ Candidate(d) = Candidate(doc)
<1> DEFINE d == [doc EXCEPT !.status = s]
<1>1. doc = [token |-> doc.token, traces |-> doc.traces, tools |-> doc.tools, status |-> doc.status]
  BY DEF IsDoc
<1>2. d = [token |-> doc.token, traces |-> doc.traces, tools |-> doc.tools, status |-> s]
  BY <1>1
<1>3. Candidate(doc) = [token |-> doc.token, traces |-> doc.traces, tools |-> doc.tools,
                        status |-> "candidate"]
  BY <1>1 DEF Candidate
<1> HIDE DEF d
<1>4. Candidate(d) = [token |-> doc.token, traces |-> doc.traces, tools |-> doc.tools,
                      status |-> "candidate"]
  BY <1>2 DEF Candidate
<1>5. IsDoc(d) /\ d.status = s /\ d.token = doc.token /\ d.traces = doc.traces
  BY <1>2 DEF IsDoc
<1>6. QED
  BY <1>3, <1>4, <1>5 DEF d

LEMMA CandidateFacts ==
    ASSUME NEW doc, NEW d, IsDoc(doc), IsDoc(d), Candidate(d) = Candidate(doc)
    PROVE  d.token = doc.token /\ d.traces = doc.traces
<1>1. Candidate(doc).token = doc.token /\ Candidate(doc).traces = doc.traces
  BY WithStatus DEF Candidate
<1>2. Candidate(d).token = d.token /\ Candidate(d).traces = d.traces
  BY WithStatus DEF Candidate
<1>3. QED
  BY <1>1, <1>2

\* A valid event ends a trace that is in order.
LEMMA TraceGrows ==
    ASSUME NEW trace \in Seq(EventType), NEW event \in EventType,
           TraceOrdered(trace), ValidAppend(trace, event)
    PROVE  Append(trace, event) \in Seq(EventType) /\ TraceOrdered(Append(trace, event))
<1> DEFINE t == Append(trace, event)
<1>1. /\ t \in Seq(EventType) /\ Len(t) = Len(trace) + 1 /\ Len(trace) \in Nat
      /\ DOMAIN t = 1 .. Len(trace) + 1 /\ DOMAIN trace = 1 .. Len(trace)
      /\ \A i \in 1 .. Len(trace) : t[i] = trace[i]
      /\ t[Len(trace) + 1] = event
  OBVIOUS
<1>2. ASSUME NEW i \in 1 .. Len(trace) + 1
      PROVE  SubSeq(t, 1, i - 1) = SubSeq(trace, 1, i - 1)
  BY <1>1
<1>3. SubSeq(trace, 1, Len(trace)) = trace
  OBVIOUS
<1> HIDE DEF t
<1>4. ASSUME NEW i \in DOMAIN t
      PROVE  ValidAppend(SubSeq(t, 1, i - 1), t[i])
  <2>1. i \in 1 .. Len(trace) + 1
    BY <1>1
  <2>2. SubSeq(t, 1, i - 1) = SubSeq(trace, 1, i - 1)
    BY <1>2, <2>1
  <2>3. CASE i = Len(trace) + 1
    <3>1. i - 1 = Len(trace)
      BY <1>1, <2>3
    <3>2. QED
      BY <1>1, <1>3, <2>2, <2>3, <3>1
  <2>4. CASE i # Len(trace) + 1
    <3>1. i \in 1 .. Len(trace)
      BY <1>1, <2>1, <2>4
    <3>2. QED
      BY <1>1, <2>2, <3>1 DEF TraceOrdered
  <2>5. QED
    BY <2>3, <2>4
<1>5. QED
  BY <1>1, <1>4 DEF t, TraceOrdered

-----------------------------------------------------------------------------
\* How the stores move

Grows(ds, ds2, vs, vs2, reps, reps2, revs, revs2) ==
    /\ \A d \in Demos : ds[d].status = "completed" => ds2[d] = ds[d]
    /\ \A w \in Workflows :
          /\ PublishedIn(vs, w) => PublishedIn(vs2, w)
          /\ \A n \in Numbers : RowKept(vs[w][n], vs2[w][n])
    /\ reps \subseteq reps2 /\ revs \subseteq revs2

LEMMA FrozenGrows ==
    ASSUME NEW traces, NEW ds, NEW ds2, Frozen(traces, ds),
           \A d \in Demos : ds[d].status = "completed" => ds2[d] = ds[d]
    PROVE  Frozen(traces, ds2)
BY DEF Frozen

LEMMA CallGrows ==
    ASSUME NEW k, NEW ds, NEW ds2, NEW vs, NEW vs2, NEW reps, NEW reps2, NEW revs, NEW revs2,
           Grows(ds, ds2, vs, vs2, reps, reps2, revs, revs2),
           CallSound(k, ds, vs, reps, revs)
    PROVE  CallSound(k, ds2, vs2, reps2, revs2)
<1>1. Frozen(k.doc.traces, ds2)
  BY FrozenGrows DEF Grows, CallSound
<1>2. ASSUME k.pc \in CandidateLabels
      PROVE  vs2[k.wf][k.number].status # "none" /\ k.doc = Candidate(vs2[k.wf][k.number].doc)
  <2>1. k.wf \in Workflows /\ k.number \in Numbers
    BY <1>2 DEF CallSound, CandidateLabels, NumberLabels, WorkflowLabels
  <2>2. QED
    BY <1>2, <2>1 DEF CallSound, Grows, RowKept
<1>3. ReportEvidence(k, reps) => ReportEvidence(k, reps2)
  BY DEF ReportEvidence, Grows
<1>4. ReviewEvidence(k, revs) => ReviewEvidence(k, revs2)
  BY DEF ReviewEvidence, Grows
<1>5. k.pc \in {"load_target", "save_route"} => PublishedIn(vs2, k.wf)
  BY DEF CallSound, Grows, WorkflowLabels, NumberLabels, CandidateLabels
<1>6. k.pc \in PublisherLabels =>
          /\ k.known[1] \subseteq {r \in reps2 : r.wf = k.wf /\ r.number = k.number}
          /\ k.known[2] \subseteq {r \in revs2 : r.wf = k.wf /\ r.number = k.number}
  BY DEF CallSound, Grows
<1>7. QED
  BY <1>1, <1>2, <1>3, <1>4, <1>5, <1>6 DEF CallSound

\* A call that is not under way relies on nothing.
LEMMA NoCallSound ==
    ASSUME NEW ds, NEW vs, NEW reps, NEW revs
    PROVE  CallSound(NoCall, ds, vs, reps, revs)
<1>1. IsCall(NoCall) /\ NoCall.pc = "idle" /\ NoCall.doc.traces = <<>>
  BY DEF NoCall, NoDoc, IsCall, IsDoc
<1>2. Frozen(<<>>, ds)
  BY DEF Frozen
<1>3. QED
  BY <1>1, <1>2 DEF CallSound, WorkflowLabels, NumberLabels, CandidateLabels, PublisherLabels

\* One call moves, and with it, maybe, the stores.
LEMMA OneMoves ==
    ASSUME ReleaseInv, NEW c \in Callers, NEW k, calls' = [calls EXCEPT ![c] = k],
           Grows(demos, demos', versions, versions', reports, reports', reviews, reviews'),
           CallSound(k, demos', versions', reports', reviews')
    PROVE  CallsSound'
<1>1. DOMAIN calls = Callers
  BY DEF ReleaseInv, CallsSound
<1>2. DOMAIN calls' = Callers /\ calls'[c] = k /\ \A q \in Callers : q # c => calls'[q] = calls[q]
  BY <1>1
<1>3. ASSUME NEW q \in Callers, q # c
      PROVE  CallSound(calls[q], demos', versions', reports', reviews')
  BY CallGrows DEF ReleaseInv, CallsSound
<1>4. QED
  BY <1>2, <1>3 DEF CallsSound

LEMMA GrowsSame ==
    ASSUME NEW ds, NEW vs, NEW reps, NEW revs
    PROVE  Grows(ds, ds, vs, vs, reps, reps, revs, revs)
BY DEF Grows, RowKept

\* Only a call moves.
LEMMA CallMoves ==
    ASSUME ReleaseInv, NEW c \in Callers, NEW k, calls' = [calls EXCEPT ![c] = k],
           UNCHANGED <<demos, versions, reports, reviews, learned, released, route, executions, clock>>,
           CallSound(k, demos, versions, reports, reviews)
    PROVE  ReleaseInv'
<1>1. CallsSound'
  BY OneMoves, GrowsSame
<1>2. PublishedOnEvidence' /\ ExecutionsSound'
  BY DEF ReleaseInv, PublishedOnEvidence, ExecutionsSound, SuiteReports, ExactReviews, About
<1>3. QED
  BY <1>1, <1>2 DEF ReleaseInv

LEMMA CallEnds ==
    ASSUME ReleaseInv, NEW c \in Callers, calls' = [calls EXCEPT ![c] = NoCall],
           UNCHANGED <<demos, versions, reports, reviews, learned, released, route, executions, clock>>
    PROVE  ReleaseInv'
BY CallMoves, NoCallSound

-----------------------------------------------------------------------------
\* Calls, field by field

CallOf(pc, wf, number, doc, demo, event, base, stored, at, known) ==
    [pc |-> pc, wf |-> wf, number |-> number, doc |-> doc, demo |-> demo, event |-> event,
     base |-> base, stored |-> stored, at |-> at, known |-> known]

LEMMA CallOfFields ==
    ASSUME NEW p, NEW w, NEW n, NEW d, NEW m, NEW e, NEW b, NEW s, NEW t, NEW o, IsDoc(d)
    PROVE  LET k == CallOf(p, w, n, d, m, e, b, s, t, o) IN
           /\ IsCall(k) /\ k.pc = p /\ k.wf = w /\ k.number = n /\ k.doc = d /\ k.demo = m
           /\ k.event = e /\ k.base = b /\ k.stored = s /\ k.at = t /\ k.known = o
BY DEF CallOf, IsCall

\* What the edits of a call come to: the fields they name, and no other.
LEMMA EditLabel ==
    ASSUME NEW call, IsCall(call), NEW pc
    PROVE  [call EXCEPT !.pc = pc] = CallOf(pc, call.wf, call.number, call.doc, call.demo,
             call.event, call.base, call.stored, call.at, call.known)
<1>1. call = CallOf(call.pc, call.wf, call.number, call.doc, call.demo, call.event, call.base,
             call.stored, call.at, call.known)
  BY DEF IsCall, CallOf
<1>2. QED
  BY <1>1 DEF CallOf

LEMMA EditWorkflow ==
    ASSUME NEW call, IsCall(call), NEW w
    PROVE  [call EXCEPT !.wf = w] = CallOf(call.pc, w, call.number, call.doc, call.demo,
             call.event, call.base, call.stored, call.at, call.known)
<1>1. call = CallOf(call.pc, call.wf, call.number, call.doc, call.demo, call.event, call.base,
             call.stored, call.at, call.known)
  BY DEF IsCall, CallOf
<1>2. QED
  BY <1>1 DEF CallOf

LEMMA EditRouted ==
    ASSUME NEW call, IsCall(call), NEW w, NEW base
    PROVE  [call EXCEPT !.wf = w, !.base = base] = CallOf(call.pc, w, call.number, call.doc,
             call.demo, call.event, base, call.stored, call.at, call.known)
<1> DEFINE k1 == [call EXCEPT !.wf = w]
           k2 == [k1 EXCEPT !.base = base]
<1>1. [call EXCEPT !.wf = w, !.base = base] = k2
  OBVIOUS
<1>2. call = CallOf(call.pc, call.wf, call.number, call.doc, call.demo, call.event, call.base,
             call.stored, call.at, call.known)
  BY DEF IsCall, CallOf
<1>3. k1 = CallOf(call.pc, w, call.number, call.doc, call.demo, call.event, call.base,
             call.stored, call.at, call.known)
  BY <1>2 DEF CallOf
<1> HIDE DEF k1
<1>4. k2 = CallOf(call.pc, w, call.number, call.doc, call.demo, call.event, base, call.stored,
             call.at, call.known)
  BY <1>3 DEF CallOf
<1> HIDE DEF k2
<1>5. QED
  BY <1>1, <1>4

LEMMA EditUnrouted ==
    ASSUME NEW call, IsCall(call), NEW pc, NEW base
    PROVE  [call EXCEPT !.pc = pc, !.base = base] = CallOf(pc, call.wf, call.number, call.doc,
             call.demo, call.event, base, call.stored, call.at, call.known)
<1> DEFINE k1 == [call EXCEPT !.pc = pc]
           k2 == [k1 EXCEPT !.base = base]
<1>1. [call EXCEPT !.pc = pc, !.base = base] = k2
  OBVIOUS
<1>2. call = CallOf(call.pc, call.wf, call.number, call.doc, call.demo, call.event, call.base,
             call.stored, call.at, call.known)
  BY DEF IsCall, CallOf
<1>3. k1 = CallOf(pc, call.wf, call.number, call.doc, call.demo, call.event, call.base,
             call.stored, call.at, call.known)
  BY <1>2 DEF CallOf
<1> HIDE DEF k1
<1>4. k2 = CallOf(pc, call.wf, call.number, call.doc, call.demo, call.event, base, call.stored,
             call.at, call.known)
  BY <1>3 DEF CallOf
<1> HIDE DEF k2
<1>5. QED
  BY <1>1, <1>4

LEMMA EditEvent ==
    ASSUME NEW call, IsCall(call), NEW pc, NEW event
    PROVE  [call EXCEPT !.pc = pc, !.event = event] = CallOf(pc, call.wf, call.number, call.doc,
             call.demo, event, call.base, call.stored, call.at, call.known)
<1> DEFINE k1 == [call EXCEPT !.pc = pc]
           k2 == [k1 EXCEPT !.event = event]
<1>1. [call EXCEPT !.pc = pc, !.event = event] = k2
  OBVIOUS
<1>2. call = CallOf(call.pc, call.wf, call.number, call.doc, call.demo, call.event, call.base,
             call.stored, call.at, call.known)
  BY DEF IsCall, CallOf
<1>3. k1 = CallOf(pc, call.wf, call.number, call.doc, call.demo, call.event, call.base,
             call.stored, call.at, call.known)
  BY <1>2 DEF CallOf
<1> HIDE DEF k1
<1>4. k2 = CallOf(pc, call.wf, call.number, call.doc, call.demo, event, call.base, call.stored,
             call.at, call.known)
  BY <1>3 DEF CallOf
<1> HIDE DEF k2
<1>5. QED
  BY <1>1, <1>4

LEMMA EditCapture ==
    ASSUME NEW call, IsCall(call), NEW pc, NEW demo, NEW event
    PROVE  [call EXCEPT !.pc = pc, !.demo = demo, !.event = event] = CallOf(pc, call.wf,
             call.number, call.doc, demo, event, call.base, call.stored, call.at, call.known)
<1> DEFINE k1 == [call EXCEPT !.pc = pc]
           k2 == [k1 EXCEPT !.demo = demo]
           k3 == [k2 EXCEPT !.event = event]
<1>1. [call EXCEPT !.pc = pc, !.demo = demo, !.event = event] = k3
  OBVIOUS
<1>2. call = CallOf(call.pc, call.wf, call.number, call.doc, call.demo, call.event, call.base,
             call.stored, call.at, call.known)
  BY DEF IsCall, CallOf
<1>3. k1 = CallOf(pc, call.wf, call.number, call.doc, call.demo, call.event, call.base,
             call.stored, call.at, call.known)
  BY <1>2 DEF CallOf
<1> HIDE DEF k1
<1>4. k2 = CallOf(pc, call.wf, call.number, call.doc, demo, call.event, call.base, call.stored,
             call.at, call.known)
  BY <1>3 DEF CallOf
<1> HIDE DEF k2
<1>5. k3 = CallOf(pc, call.wf, call.number, call.doc, demo, event, call.base, call.stored,
             call.at, call.known)
  BY <1>4 DEF CallOf
<1> HIDE DEF k3
<1>6. QED
  BY <1>1, <1>5

LEMMA EditTask ==
    ASSUME NEW call, IsCall(call), NEW pc, NEW w
    PROVE  [call EXCEPT !.pc = pc, !.wf = w] = CallOf(pc, w, call.number, call.doc, call.demo,
             call.event, call.base, call.stored, call.at, call.known)
<1> DEFINE k1 == [call EXCEPT !.pc = pc]
           k2 == [k1 EXCEPT !.wf = w]
<1>1. [call EXCEPT !.pc = pc, !.wf = w] = k2
  OBVIOUS
<1>2. call = CallOf(call.pc, call.wf, call.number, call.doc, call.demo, call.event, call.base,
             call.stored, call.at, call.known)
  BY DEF IsCall, CallOf
<1>3. k1 = CallOf(pc, call.wf, call.number, call.doc, call.demo, call.event, call.base,
             call.stored, call.at, call.known)
  BY <1>2 DEF CallOf
<1> HIDE DEF k1
<1>4. k2 = CallOf(pc, w, call.number, call.doc, call.demo, call.event, call.base, call.stored,
             call.at, call.known)
  BY <1>3 DEF CallOf
<1> HIDE DEF k2
<1>5. QED
  BY <1>1, <1>4

LEMMA EditNumbered ==
    ASSUME NEW call, IsCall(call), NEW pc, NEW w, NEW n
    PROVE  [call EXCEPT !.pc = pc, !.wf = w, !.number = n] = CallOf(pc, w, n, call.doc,
             call.demo, call.event, call.base, call.stored, call.at, call.known)
<1> DEFINE k1 == [call EXCEPT !.pc = pc]
           k2 == [k1 EXCEPT !.wf = w]
           k3 == [k2 EXCEPT !.number = n]
<1>1. [call EXCEPT !.pc = pc, !.wf = w, !.number = n] = k3
  OBVIOUS
<1>2. call = CallOf(call.pc, call.wf, call.number, call.doc, call.demo, call.event, call.base,
             call.stored, call.at, call.known)
  BY DEF IsCall, CallOf
<1>3. k1 = CallOf(pc, call.wf, call.number, call.doc, call.demo, call.event, call.base,
             call.stored, call.at, call.known)
  BY <1>2 DEF CallOf
<1> HIDE DEF k1
<1>4. k2 = CallOf(pc, w, call.number, call.doc, call.demo, call.event, call.base, call.stored,
             call.at, call.known)
  BY <1>3 DEF CallOf
<1> HIDE DEF k2
<1>5. k3 = CallOf(pc, w, n, call.doc, call.demo, call.event, call.base, call.stored, call.at,
             call.known)
  BY <1>4 DEF CallOf
<1> HIDE DEF k3
<1>6. QED
  BY <1>1, <1>5

LEMMA EditNumber ==
    ASSUME NEW call, IsCall(call), NEW pc, NEW n
    PROVE  [call EXCEPT !.pc = pc, !.number = n] = CallOf(pc, call.wf, n, call.doc, call.demo,
             call.event, call.base, call.stored, call.at, call.known)
<1> DEFINE k1 == [call EXCEPT !.pc = pc]
           k2 == [k1 EXCEPT !.number = n]
<1>1. [call EXCEPT !.pc = pc, !.number = n] = k2
  OBVIOUS
<1>2. call = CallOf(call.pc, call.wf, call.number, call.doc, call.demo, call.event, call.base,
             call.stored, call.at, call.known)
  BY DEF IsCall, CallOf
<1>3. k1 = CallOf(pc, call.wf, call.number, call.doc, call.demo, call.event, call.base,
             call.stored, call.at, call.known)
  BY <1>2 DEF CallOf
<1> HIDE DEF k1
<1>4. k2 = CallOf(pc, call.wf, n, call.doc, call.demo, call.event, call.base, call.stored,
             call.at, call.known)
  BY <1>3 DEF CallOf
<1> HIDE DEF k2
<1>5. QED
  BY <1>1, <1>4

LEMMA EditLoaded ==
    ASSUME NEW call, IsCall(call), NEW pc, NEW doc, NEW stored
    PROVE  [call EXCEPT !.pc = pc, !.doc = doc, !.stored = stored] = CallOf(pc, call.wf,
             call.number, doc, call.demo, call.event, call.base, stored, call.at, call.known)
<1> DEFINE k1 == [call EXCEPT !.pc = pc]
           k2 == [k1 EXCEPT !.doc = doc]
           k3 == [k2 EXCEPT !.stored = stored]
<1>1. [call EXCEPT !.pc = pc, !.doc = doc, !.stored = stored] = k3
  OBVIOUS
<1>2. call = CallOf(call.pc, call.wf, call.number, call.doc, call.demo, call.event, call.base,
             call.stored, call.at, call.known)
  BY DEF IsCall, CallOf
<1>3. k1 = CallOf(pc, call.wf, call.number, call.doc, call.demo, call.event, call.base,
             call.stored, call.at, call.known)
  BY <1>2 DEF CallOf
<1> HIDE DEF k1
<1>4. k2 = CallOf(pc, call.wf, call.number, doc, call.demo, call.event, call.base, call.stored,
             call.at, call.known)
  BY <1>3 DEF CallOf
<1> HIDE DEF k2
<1>5. k3 = CallOf(pc, call.wf, call.number, doc, call.demo, call.event, call.base, stored,
             call.at, call.known)
  BY <1>4 DEF CallOf
<1> HIDE DEF k3
<1>6. QED
  BY <1>1, <1>5

-----------------------------------------------------------------------------
\* Demonstrations

\* The calls that rely on no more than their workflow and number.
PlainLabels ==
    {"idle", "list_demos", "list_versions", "extract", "save_candidate", "save_report",
     "load_version", "resolve", "delete_route", "save_feedback"}

LEMMA PlainCall ==
    ASSUME NEW k, NEW ds, NEW vs, NEW reps, NEW revs, k.pc \in PlainLabels,
           IsCall(k), Frozen(k.doc.traces, ds),
           k.pc \in WorkflowLabels => k.wf \in Workflows,
           k.pc \in NumberLabels => k.number \in Numbers
    PROVE  CallSound(k, ds, vs, reps, revs)
BY DEF CallSound, PlainLabels, CandidateLabels, PublisherLabels

LEMMA StartsFresh == IsCall(NoCall) /\ NoCall.doc = NoDoc /\ IsDoc(NoDoc) /\ NoDoc.traces = <<>>
BY DEF NoCall, NoDoc, IsCall, IsDoc

\* A demonstration that is not complete moves at the end of a call.
LEMMA DemoMoves ==
    ASSUME ReleaseInv, NEW c \in Callers, NEW d \in Demos, NEW r \in Demonstration,
           calls' = [calls EXCEPT ![c] = NoCall], demos' = [demos EXCEPT ![d] = r],
           demos[d].status = "completed" => r = demos[d], TraceOrdered(r.trace),
           UNCHANGED <<versions, reports, reviews, learned, released, route, executions, clock>>
    PROVE  ReleaseInv'
<1>1. demos \in [Demos -> Demonstration] /\ \A q \in Demos : TraceOrdered(demos[q].trace)
  BY DEF ReleaseInv, DemosSound
<1>2. demos' \in [Demos -> Demonstration] /\ \A q \in Demos : demos'[q] = IF q = d THEN r ELSE demos[q]
  BY <1>1
<1>3. DemosSound(demos')
  BY <1>1, <1>2 DEF DemosSound
<1>4. \A q \in Demos : demos[q].status = "completed" => demos'[q] = demos[q]
  BY <1>2
<1>5. CallsSound'
  <2>1. Grows(demos, demos', versions, versions', reports, reports', reviews, reviews')
    BY <1>4 DEF Grows, RowKept
  <2>2. QED
    BY <2>1, NoCallSound, OneMoves
<1>6. VersionsSound(versions', demos')
  <2>1. ASSUME NEW w \in Workflows, NEW n \in Numbers PROVE Frozen(versions[w][n].doc.traces, demos')
    <3>1. Frozen(versions[w][n].doc.traces, demos)
      BY DEF ReleaseInv, VersionsSound
    <3>2. QED
      BY <1>4, <3>1 DEF Frozen
  <2>2. QED
    BY <2>1 DEF ReleaseInv, VersionsSound
<1>7. PublishedOnEvidence' /\ ExecutionsSound'
  BY DEF ReleaseInv, PublishedOnEvidence, ExecutionsSound, SuiteReports, ExactReviews, About
<1>8. QED
  BY <1>3, <1>5, <1>6, <1>7 DEF ReleaseInv

LEMMA DemoStepKeeps ==
    ASSUME ReleaseInv, NEW c \in Callers, DemoStep(c)
    PROVE  ReleaseInv'
<1>1. demos \in [Demos -> Demonstration] /\ \A q \in Demos : TraceOrdered(demos[q].trace)
  BY DEF ReleaseInv, DemosSound
<1>2. ASSUME NEW d \in Demos, Start(c, d) \/ CompleteDemo(c, d) PROVE ReleaseInv'
  <2>1. PICK s \in {"recording", "completed"} :
          /\ demos' = [demos EXCEPT ![d].status = s] /\ demos[d].status # "completed"
          /\ calls' = [calls EXCEPT ![c] = NoCall]
          /\ UNCHANGED <<versions, reports, reviews, learned, released, route, executions, clock>>
    BY <1>2 DEF Start, CompleteDemo, Begin, rest, registry, routing, running
  <2> DEFINE r == [demos[d] EXCEPT !.status = s]
  <2>2. r \in Demonstration /\ r.trace = demos[d].trace
    BY <1>1 DEF Demonstration
  <2>3. demos' = [demos EXCEPT ![d] = r]
    BY <2>1
  <2> HIDE DEF r
  <2>4. QED
    BY <1>1, <2>1, <2>2, <2>3, DemoMoves
<1>3. ASSUME NEW d \in Demos, NEW id \in Events, NEW corrects \in Events, Capture(c, d, id, corrects)
      PROVE  ReleaseInv'
  <2> DEFINE event == [id |-> id, corrects |-> corrects, at |-> clock]
             k == [NoCall EXCEPT !.pc = "append", !.demo = <<d>>, !.event = <<event>>]
  <2>1. /\ UNCHANGED <<demos, versions, reports, reviews, learned, released, route, executions, clock>>
        /\ calls' = [calls EXCEPT ![c] = k] \/ calls' = [calls EXCEPT ![c] = NoCall]
    BY <1>3 DEF Capture, Begin, rest, registry, routing, running
  <2>2. event \in EventType
    BY DEF ReleaseInv, EventType
  <2> HIDE DEF event
  <2>7. k = CallOf("append", NoCall.wf, NoCall.number, NoCall.doc, <<d>>, <<event>>, NoCall.base,
                   NoCall.stored, NoCall.at, NoCall.known)
    BY StartsFresh, EditCapture
  <2> HIDE DEF k
  <2>3. /\ IsCall(k) /\ k.pc = "append" /\ k.demo[1] = d /\ k.event[1] = event
        /\ k.doc.traces = <<>>
    BY <2>7, StartsFresh, CallOfFields
  <2>4. Frozen(<<>>, demos)
    BY DEF Frozen
  <2>5. CallSound(k, demos, versions, reports, reviews)
    BY <2>2, <2>3, <2>4 DEF CallSound, WorkflowLabels, NumberLabels, CandidateLabels, PublisherLabels
  <2>6. QED
    BY <2>1, <2>5, CallMoves, CallEnds
<1>4. CASE AppendEvent(c)
  <2> DEFINE d == calls[c].demo[1]
             e == calls[c].event[1]
             r == Appended(demos[d], e)
  <2>1. /\ calls[c].pc = "append" /\ demos' = [demos EXCEPT ![d] = r]
        /\ calls' = [calls EXCEPT ![c] = NoCall]
        /\ UNCHANGED <<versions, reports, reviews, learned, released, route, executions, clock>>
    BY <1>4 DEF AppendEvent, At, Self, End, Continue, rest, registry, routing, running
  <2>2. d \in Demos /\ e \in EventType
    BY <2>1 DEF ReleaseInv, CallsSound, CallSound
  <2> HIDE DEF d, e
  <2>3. demos[d] \in Demonstration /\ TraceOrdered(demos[d].trace)
    BY <1>1, <2>2
  <2>4. CASE demos[d].status = "recording" /\ ValidAppend(demos[d].trace, e)
    <3> DEFINE t == Append(demos[d].trace, e)
    <3>1. demos[d].trace \in Seq(EventType)
      BY <2>3 DEF Demonstration
    <3>2. t \in Seq(EventType) /\ TraceOrdered(t)
      BY <2>2, <2>3, <2>4, <3>1, TraceGrows
    <3>3. r = [demos[d] EXCEPT !.trace = t]
      BY <2>4 DEF Appended
    <3> HIDE DEF t, r
    <3>4. r \in Demonstration /\ r.trace = t
      BY <2>3, <3>2, <3>3 DEF Demonstration
    <3>5. demos' = [demos EXCEPT ![d] = r]
      BY <2>1
    <3>6. QED
      BY <2>1, <2>2, <2>4, <3>2, <3>4, <3>5, DemoMoves
  <2>5. CASE ~(demos[d].status = "recording" /\ ValidAppend(demos[d].trace, e))
    <3>1. r = demos[d]
      BY <2>5 DEF Appended
    <3> HIDE DEF r
    <3>2. QED
      BY <2>1, <2>2, <2>3, <3>1, DemoMoves
  <2>6. QED
    BY <2>4, <2>5
<1>5. QED
  BY <1>2, <1>3, <1>4 DEF DemoStep

-----------------------------------------------------------------------------
\* Learning

\* What is known of a call under way.
LEMMA CallFacts ==
    ASSUME ReleaseInv, NEW c \in Callers
    PROVE  /\ IsCall(calls[c]) /\ IsDoc(calls[c].doc) /\ Frozen(calls[c].doc.traces, demos)
           /\ CallSound(calls[c], demos, versions, reports, reviews)
           /\ calls[c].pc \in WorkflowLabels => calls[c].wf \in Workflows
           /\ calls[c].pc \in NumberLabels => calls[c].number \in Numbers
           /\ DOMAIN calls = Callers
BY DEF ReleaseInv, CallsSound, CallSound, IsCall

\* A call that begins has a workflow and a number, and no document.
LEMMA FreshKeeps ==
    ASSUME ReleaseInv, NEW c \in Callers, NEW pc \in PlainLabels, NEW w \in Workflows, NEW n,
           pc \in NumberLabels => n \in Numbers, NEW k, IsCall(k), k.pc = pc, k.wf = w,
           k.number = n, k.doc = NoDoc, calls' = [calls EXCEPT ![c] = k],
           UNCHANGED <<demos, versions, reports, reviews, learned, released, route, executions, clock>>
    PROVE  ReleaseInv'
<1>1. Frozen(k.doc.traces, demos)
  BY StartsFresh DEF Frozen
<1>2. CallSound(k, demos, versions, reports, reviews)
  BY <1>1, PlainCall
<1>3. QED
  BY <1>2, CallMoves

LEMMA LearnKeeps ==
    ASSUME ReleaseInv, NEW c \in Callers, NEW w \in Workflows, Learn(c, w)
    PROVE  ReleaseInv'
<1> DEFINE k == [NoCall EXCEPT !.pc = "list_demos", !.wf = w]
<1>1. /\ calls' = [calls EXCEPT ![c] = k]
      /\ UNCHANGED <<demos, versions, reports, reviews, learned, released, route, executions, clock>>
  BY DEF Learn, Begin, rest, registry, routing, running
<1>2. k = CallOf("list_demos", w, NoCall.number, NoCall.doc, NoCall.demo, NoCall.event,
                 NoCall.base, NoCall.stored, NoCall.at, NoCall.known)
  BY StartsFresh, EditTask
<1> HIDE DEF k
<1>3. IsCall(k) /\ k.pc = "list_demos" /\ k.wf = w /\ k.number = NoCall.number /\ k.doc = NoDoc
  BY <1>2, StartsFresh, CallOfFields
<1>4. "list_demos" \in PlainLabels /\ "list_demos" \notin NumberLabels
  BY DEF PlainLabels, NumberLabels, CandidateLabels, PublisherLabels
<1>5. QED
  BY <1>1, <1>3, <1>4, FreshKeeps

LEMMA ImproveKeeps ==
    ASSUME ReleaseInv, NEW c \in Callers, NEW w \in Workflows, NEW n \in Numbers, Improve(c, w, n)
    PROVE  ReleaseInv'
<1> DEFINE k == [NoCall EXCEPT !.pc = "list_demos", !.wf = w, !.number = n]
<1>1. /\ calls' = [calls EXCEPT ![c] = k] \/ calls' = [calls EXCEPT ![c] = NoCall]
      /\ UNCHANGED <<demos, versions, reports, reviews, learned, released, route, executions, clock>>
  BY DEF Improve, Begin, rest, registry, routing, running
<1>2. k = CallOf("list_demos", w, n, NoCall.doc, NoCall.demo, NoCall.event,
                 NoCall.base, NoCall.stored, NoCall.at, NoCall.known)
  BY StartsFresh, EditNumbered
<1> HIDE DEF k
<1>3. IsCall(k) /\ k.pc = "list_demos" /\ k.wf = w /\ k.number = n /\ k.doc = NoDoc
  BY <1>2, StartsFresh, CallOfFields
<1>4. "list_demos" \in PlainLabels
  BY DEF PlainLabels
<1>5. QED
  BY <1>1, <1>3, <1>4, FreshKeeps, CallEnds

\* The calls that go on with what they have read.
LEMMA GoesOn ==
    ASSUME ReleaseInv, NEW c \in Callers, NEW pc \in PlainLabels, NEW n, NEW doc, IsDoc(doc),
           Frozen(doc.traces, demos), calls[c].pc \in WorkflowLabels,
           pc \in NumberLabels => n \in Numbers, NEW k, IsCall(k), k.pc = pc,
           k.wf = calls[c].wf, k.number = n, k.doc = doc, calls' = [calls EXCEPT ![c] = k],
           UNCHANGED <<demos, versions, reports, reviews, learned, released, route, executions, clock>>
    PROVE  ReleaseInv'
<1>1. k.wf \in Workflows
  BY CallFacts
<1>2. CallSound(k, demos, versions, reports, reviews)
  BY <1>1, PlainCall
<1>3. QED
  BY <1>2, CallMoves

\* Documents, field by field.
LEMMA EditDocument ==
    ASSUME NEW doc, IsDoc(doc), NEW x
    PROVE  /\ IsDoc([doc EXCEPT !.traces = x]) /\ [doc EXCEPT !.traces = x].traces = x
           /\ IsDoc([doc EXCEPT !.token = x]) /\ [doc EXCEPT !.token = x].traces = doc.traces
           /\ IsDoc([doc EXCEPT !.tools = x]) /\ [doc EXCEPT !.tools = x].traces = doc.traces
           /\ IsDoc([doc EXCEPT !.status = x]) /\ [doc EXCEPT !.status = x].traces = doc.traces
<1>1. doc = [token |-> doc.token, traces |-> doc.traces, tools |-> doc.tools, status |-> doc.status]
  BY DEF IsDoc
<1>2. [doc EXCEPT !.traces = x] = [token |-> doc.token, traces |-> x, tools |-> doc.tools,
                                   status |-> doc.status]
  BY <1>1
<1>3. [doc EXCEPT !.token = x] = [token |-> x, traces |-> doc.traces, tools |-> doc.tools,
                                  status |-> doc.status]
  BY <1>1
<1>4. [doc EXCEPT !.tools = x] = [token |-> doc.token, traces |-> doc.traces, tools |-> x,
                                  status |-> doc.status]
  BY <1>1
<1>5. [doc EXCEPT !.status = x] = [token |-> doc.token, traces |-> doc.traces, tools |-> doc.tools,
                                   status |-> x]
  BY <1>1
<1>6. IsDoc([doc EXCEPT !.traces = x]) /\ [doc EXCEPT !.traces = x].traces = x
  BY <1>2 DEF IsDoc
<1>7. IsDoc([doc EXCEPT !.token = x]) /\ [doc EXCEPT !.token = x].traces = doc.traces
  BY <1>3 DEF IsDoc
<1>8. IsDoc([doc EXCEPT !.tools = x]) /\ [doc EXCEPT !.tools = x].traces = doc.traces
  BY <1>4 DEF IsDoc
<1>9. IsDoc([doc EXCEPT !.status = x]) /\ [doc EXCEPT !.status = x].traces = doc.traces
  BY <1>5 DEF IsDoc
<1>10. QED
  BY <1>6, <1>7, <1>8, <1>9

\* A call whose document is edited.
LEMMA EditInCall ==
    ASSUME NEW call, IsCall(call), NEW doc, IsDoc(doc)
    PROVE  LET k == [call EXCEPT !.doc = doc] IN
           IsCall(k) /\ k.pc = call.pc /\ k.wf = call.wf /\ k.number = call.number /\ k.doc = doc
<1> DEFINE k == [call EXCEPT !.doc = doc]
<1>1. call = CallOf(call.pc, call.wf, call.number, call.doc, call.demo, call.event, call.base,
                    call.stored, call.at, call.known)
  BY DEF IsCall, CallOf
<1>2. k = CallOf(call.pc, call.wf, call.number, doc, call.demo, call.event, call.base,
                 call.stored, call.at, call.known)
  BY <1>1 DEF CallOf
<1> HIDE DEF k
<1>3. IsCall(k) /\ k.pc = call.pc /\ k.wf = call.wf /\ k.number = call.number /\ k.doc = doc
  BY <1>2, CallOfFields
<1>4. QED
  BY <1>3 DEF k

LEMMA EditLabelFields ==
    ASSUME NEW call, IsCall(call), NEW pc
    PROVE  LET k == [call EXCEPT !.pc = pc] IN
           /\ IsCall(k) /\ k.pc = pc /\ k.wf = call.wf /\ k.number = call.number /\ k.doc = call.doc
           /\ k.base = call.base /\ k.stored = call.stored /\ k.known = call.known
<1> DEFINE k == [call EXCEPT !.pc = pc]
<1>1. k = CallOf(pc, call.wf, call.number, call.doc, call.demo, call.event, call.base,
                 call.stored, call.at, call.known)
  BY EditLabel
<1>2. IsDoc(call.doc)
  BY DEF IsCall
<1> HIDE DEF k
<1>3. /\ IsCall(k) /\ k.pc = pc /\ k.wf = call.wf /\ k.number = call.number /\ k.doc = call.doc
      /\ k.base = call.base /\ k.stored = call.stored /\ k.known = call.known
  BY <1>1, <1>2, CallOfFields
<1>4. QED
  BY <1>3 DEF k

LEMMA ListDemosKeeps ==
    ASSUME ReleaseInv, NEW c \in Callers, ListDemos(c)
    PROVE  ReleaseInv'
<1> DEFINE call == calls[c]
           T == [d \in Completed |-> demos[d].trace]
           k1 == [call EXCEPT !.pc = "list_versions"]
           doc == [k1.doc EXCEPT !.traces = T]
           k == [k1 EXCEPT !.doc = doc]
<1>1. [call EXCEPT !.pc = "list_versions", !.doc.traces = T] = k
  OBVIOUS
<1>2. /\ call.pc = "list_demos"
      /\ calls' = [calls EXCEPT ![c] = k] \/ calls' = [calls EXCEPT ![c] = NoCall]
      /\ UNCHANGED <<demos, versions, reports, reviews, learned, released, route, executions, clock>>
  BY <1>1 DEF ListDemos, Check, Continue, End, Self, At, rest, registry, routing, running
<1>3. IsCall(call)
  BY CallFacts
<1>4. Frozen(T, demos)
  BY DEF Frozen, Completed
<1> HIDE DEF T
<1>5. /\ IsCall(k1) /\ k1.pc = "list_versions" /\ k1.wf = call.wf /\ k1.number = call.number
      /\ k1.doc = call.doc /\ IsDoc(k1.doc)
  BY <1>3, EditLabelFields DEF IsCall
<1> HIDE DEF k1
<1>6. IsDoc(doc) /\ doc.traces = T
  BY <1>5, EditDocument
<1> HIDE DEF doc
<1>7. IsCall(k) /\ k.pc = "list_versions" /\ k.wf = call.wf /\ k.number = call.number /\ k.doc = doc
  BY <1>5, <1>6, EditInCall
<1>8. /\ "list_versions" \in PlainLabels /\ "list_versions" \notin NumberLabels
      /\ "list_demos" \in WorkflowLabels
  BY DEF PlainLabels, WorkflowLabels, NumberLabels, CandidateLabels, PublisherLabels
<1> HIDE DEF k
<1>9. Frozen(doc.traces, demos)
  BY <1>4, <1>6
<1>10. QED
  BY <1>2, <1>6, <1>7, <1>8, <1>9, GoesOn, CallEnds

LEMMA ListVersionsKeeps ==
    ASSUME ReleaseInv, NEW c \in Callers, ListVersions(c)
    PROVE  ReleaseInv'
<1> DEFINE call == calls[c]
           n == NextNumber(call.wf)
           k == [call EXCEPT !.pc = "extract", !.number = n]
<1>1. /\ call.pc = "list_versions"
      /\ \/ calls' = [calls EXCEPT ![c] = k] /\ n <= MaxVersion
         \/ calls' = [calls EXCEPT ![c] = NoCall]
      /\ UNCHANGED <<demos, versions, reports, reviews, learned, released, route, executions, clock>>
  BY DEF ListVersions, Check, Continue, End, Self, At, rest, registry, routing, running
<1>2. IsCall(call) /\ IsDoc(call.doc) /\ Frozen(call.doc.traces, demos)
  BY CallFacts
<1>3. n <= MaxVersion => n \in Numbers
  BY NextNumberAbove
<1> HIDE DEF n
<1>4. k = CallOf("extract", call.wf, n, call.doc, call.demo, call.event, call.base,
                 call.stored, call.at, call.known)
  BY <1>2, EditNumber
<1> HIDE DEF k
<1>5. IsCall(k) /\ k.pc = "extract" /\ k.wf = call.wf /\ k.number = n /\ k.doc = call.doc
  BY <1>2, <1>4, CallOfFields
<1>6. "extract" \in PlainLabels /\ "list_versions" \in WorkflowLabels
  BY DEF PlainLabels, WorkflowLabels
<1>7. CASE calls' = [calls EXCEPT ![c] = k] /\ n <= MaxVersion
  BY <1>1, <1>2, <1>3, <1>5, <1>6, <1>7, GoesOn
<1>8. QED
  BY <1>1, <1>7, CallEnds

LEMMA ExtractKeeps ==
    ASSUME ReleaseInv, NEW c \in Callers, Extract(c)
    PROVE  ReleaseInv'
<1> DEFINE call == calls[c]
           k1 == [call EXCEPT !.pc = "save_candidate"]
           d2 == [k1.doc EXCEPT !.tools = contracts]
           k2 == [k1 EXCEPT !.doc = d2]
           d3 == [k2.doc EXCEPT !.token = Token(c)]
           k3 == [k2 EXCEPT !.doc = d3]
           d4 == [k3.doc EXCEPT !.status = "candidate"]
           k4 == [k3 EXCEPT !.doc = d4]
<1>1. [call EXCEPT !.pc = "save_candidate", !.doc.tools = contracts, !.doc.token = Token(c),
                   !.doc.status = "candidate"] = k4
  OBVIOUS
<1>2. /\ call.pc = "extract" /\ calls' = [calls EXCEPT ![c] = k4]
      /\ UNCHANGED <<demos, versions, reports, reviews, learned, released, route, executions, clock>>
  BY <1>1 DEF Extract, Continue, Self, At, rest, registry, routing, running
<1>3. IsCall(call) /\ IsDoc(call.doc) /\ Frozen(call.doc.traces, demos) /\ call.number \in Numbers
  BY <1>2, CallFacts DEF NumberLabels
<1>4. /\ IsCall(k1) /\ k1.pc = "save_candidate" /\ k1.wf = call.wf /\ k1.number = call.number
      /\ k1.doc = call.doc
  BY <1>3, EditLabelFields
<1> HIDE DEF k1
<1>14. IsDoc(k1.doc) /\ k1.doc.traces = call.doc.traces
  BY <1>3, <1>4
<1>5. IsDoc(d2) /\ d2.traces = call.doc.traces
  BY <1>14, EditDocument
<1> HIDE DEF d2
<1>6. /\ IsCall(k2) /\ k2.pc = "save_candidate" /\ k2.wf = call.wf /\ k2.number = call.number
      /\ k2.doc = d2
  BY <1>4, <1>5, EditInCall
<1> HIDE DEF k2
<1>7. IsDoc(d3) /\ d3.traces = call.doc.traces
  BY <1>5, <1>6, EditDocument
<1> HIDE DEF d3
<1>8. /\ IsCall(k3) /\ k3.pc = "save_candidate" /\ k3.wf = call.wf /\ k3.number = call.number
      /\ k3.doc = d3
  BY <1>6, <1>7, EditInCall
<1> HIDE DEF k3
<1>9. IsDoc(d4) /\ d4.traces = call.doc.traces
  BY <1>7, <1>8, EditDocument
<1> HIDE DEF d4
<1>10. /\ IsCall(k4) /\ k4.pc = "save_candidate" /\ k4.wf = call.wf /\ k4.number = call.number
       /\ k4.doc = d4
  BY <1>8, <1>9, EditInCall
<1> HIDE DEF k4
<1>11. "save_candidate" \in PlainLabels /\ "extract" \in WorkflowLabels
  BY DEF PlainLabels, WorkflowLabels, NumberLabels
<1>12. Frozen(d4.traces, demos)
  BY <1>3, <1>9
<1>13. QED
  BY <1>2, <1>3, <1>9, <1>10, <1>11, <1>12, GoesOn

-----------------------------------------------------------------------------
\* The version store

\* Rows are stored and published at the end of a call, each still known by
\* what it was known by.
LEMMA RowsMove ==
    ASSUME ReleaseInv, NEW c \in Callers, calls' = [calls EXCEPT ![c] = NoCall],
           VersionsSound(versions', demos),
           \A w \in Workflows, n \in Numbers : RowKept(versions[w][n], versions'[w][n]),
           \A w \in Workflows : PublishedIn(versions, w) => PublishedIn(versions', w),
           LearnedSound(learned', versions'), PublishedOnEvidence',
           UNCHANGED <<demos, reports, reviews, route, executions, clock>>
    PROVE  ReleaseInv'
<1>1. Grows(demos, demos', versions, versions', reports, reports', reviews, reviews')
  BY DEF Grows
<1>2. CallsSound'
  BY <1>1, NoCallSound, OneMoves
<1>3. ReviewsSound(reviews', versions')
  BY DEF ReleaseInv, ReviewsSound, RowKept
<1>4. ExecutionsSound'
  BY DEF ReleaseInv, ExecutionsSound
<1>5. VersionsSound(versions', demos')
  OBVIOUS
<1>6. route' # NoRoute => route'.target \in Workflows /\ PublishedIn(versions', route'.target)
  BY DEF ReleaseInv
<1>7. clock' \in Nat /\ DemosSound(demos')
  BY DEF ReleaseInv
<1>8. QED
  BY <1>2, <1>3, <1>4, <1>5, <1>6, <1>7 DEF ReleaseInv

LEMMA StoreCandidateKeeps ==
    ASSUME ReleaseInv, NEW c \in Callers, StoreCandidate(c)
    PROVE  ReleaseInv'
<1> DEFINE w == calls[c].wf
           n == calls[c].number
           doc == calls[c].doc
           row == [status |-> "candidate", doc |-> doc]
<1>1. /\ calls[c].pc = "save_candidate" /\ calls' = [calls EXCEPT ![c] = NoCall]
      /\ versions' = SaveCandidate(w, n, doc)
      /\ learned' = learned \/ learned' = learned \cup {<<w, n, doc.token>>}
      /\ versions' = versions => learned' = learned
      /\ UNCHANGED <<demos, reports, reviews, released, route, executions, clock>>
  BY DEF StoreCandidate, End, Continue, Self, At, rest, registry, routing, running
<1>2. w \in Workflows /\ n \in Numbers /\ IsDoc(doc) /\ Frozen(doc.traces, demos)
  BY <1>1, CallFacts DEF NumberLabels, WorkflowLabels
<1>3. VersionsSound(versions, demos) /\ LearnedSound(learned, versions)
  BY DEF ReleaseInv
<1> HIDE DEF w, n, doc
<1>4. CASE versions[w][n].status # "none"
  BY <1>1, <1>4, CallEnds DEF SaveCandidate
<1>5. CASE versions[w][n].status = "none"
  <2>1. versions' = [versions EXCEPT ![w][n] = row]
    BY <1>1, <1>5 DEF SaveCandidate
  <2>2. /\ DOMAIN versions' = Workflows
        /\ \A v \in Workflows : /\ DOMAIN versions'[v] = Numbers
                                /\ \A m \in Numbers : versions'[v][m] =
                                      IF v = w /\ m = n THEN row ELSE versions[v][m]
    BY <1>2, <1>3, <2>1 DEF VersionsSound, VersionsShape
  <2>3. row.status = "candidate" /\ row.doc = doc /\ IsRow(row)
    BY <1>2 DEF IsRow
  <2> HIDE DEF row
  <2>4. VersionsShape(versions')
    BY <1>3, <2>2, <2>3 DEF VersionsSound, VersionsShape
  <2>5. OnePublished(versions')
    BY <1>3, <2>2, <2>3 DEF VersionsSound, OnePublished
  <2>6. ASSUME NEW v \in Workflows, NEW m \in Numbers
        PROVE  Frozen(versions'[v][m].doc.traces, demos) /\ RowKept(versions[v][m], versions'[v][m])
    <3>1. CASE v = w /\ m = n
      BY <1>2, <1>5, <2>2, <2>3, <3>1 DEF RowKept
    <3>2. CASE ~(v = w /\ m = n)
      BY <1>3, <2>2, <3>2 DEF RowKept, VersionsSound
    <3>3. QED
      BY <3>1, <3>2
  <2>7. \A v \in Workflows : PublishedIn(versions, v) => PublishedIn(versions', v)
    BY <1>5, <2>2 DEF PublishedIn
  <2>8. LearnedSound(learned', versions')
    <3>1. ASSUME NEW l \in learned'
          PROVE  /\ l[1] \in Workflows /\ l[2] \in Numbers
                 /\ versions'[l[1]][l[2]].status # "none" /\ versions'[l[1]][l[2]].doc.token = l[3]
      <4>1. CASE l \in learned
        BY <1>3, <1>5, <2>2, <4>1 DEF LearnedSound
      <4>2. CASE l = <<w, n, doc.token>>
        BY <1>2, <2>2, <2>3, <4>2
      <4>3. QED
        BY <1>1, <3>1, <4>1, <4>2
    <3>2. QED
      BY <3>1 DEF LearnedSound
  <2>9. PublishedOnEvidence'
    BY <1>1 DEF ReleaseInv, PublishedOnEvidence, SuiteReports, ExactReviews, About
  <2>10. VersionsSound(versions', demos)
    BY <2>4, <2>5, <2>6 DEF VersionsSound
  <2>11. QED
    BY <1>1, <2>6, <2>7, <2>8, <2>9, <2>10, RowsMove
<1>6. QED
  BY <1>4, <1>5

\* A retired version is known by what it was known by.
LEMMA RetiredRow ==
    ASSUME NEW row, IsRow(row)
    PROVE  LET r == Retired(row) IN
           /\ IsRow(r) /\ r.status = "retired" /\ Candidate(r.doc) = Candidate(row.doc)
<1>1. row = [status |-> row.status, doc |-> row.doc] /\ IsDoc(row.doc)
  BY DEF IsRow
<1> DEFINE r1 == [row EXCEPT !.status = "retired"]
           d == [r1.doc EXCEPT !.status = "retired"]
           r2 == [r1 EXCEPT !.doc = d]
<1>2. r1 = [status |-> "retired", doc |-> row.doc]
  BY <1>1
<1>3. Retired(row) = r1 \/ Retired(row) = r2
  BY DEF Retired
<1> HIDE DEF r1
<1>4. r1.doc = row.doc /\ IsRow(r1) /\ r1.status = "retired"
  BY <1>1, <1>2 DEF IsRow
<1>5. IsDoc(d) /\ Candidate(d) = Candidate(row.doc)
  BY <1>1, <1>4, WithStatus
<1> HIDE DEF d
<1>6. r2 = [status |-> "retired", doc |-> d]
  BY <1>2
<1> HIDE DEF r2
<1>7. IsRow(r2) /\ r2.status = "retired" /\ r2.doc = d
  BY <1>5, <1>6 DEF IsRow
<1>8. QED
  BY <1>3, <1>4, <1>5, <1>7

\* What a publication leaves in the store.
LEMMA PublishedRows ==
    ASSUME VersionsShape(versions), NEW w \in Workflows, NEW n \in Numbers,
           versions' = PublishVersion(w, n)
    PROVE  /\ DOMAIN versions' = Workflows
           /\ \A v \in Workflows : DOMAIN versions'[v] = Numbers
           /\ versions'[w][n] = [status |-> "published",
                                 doc |-> [versions[w][n].doc EXCEPT !.status = "published"]]
           /\ \A m \in Numbers : m # n =>
                 versions'[w][m] = IF versions[w][m].status = "published" THEN Retired(versions[w][m])
                                   ELSE versions[w][m]
           /\ \A v \in Workflows : v # w => versions'[v] = versions[v]
<1> DEFINE F == [m \in Numbers |->
        CASE m = n -> [status |-> "published",
                       doc |-> [versions[w][n].doc EXCEPT !.status = "published"]]
          [] m # n /\ versions[w][m].status = "published" -> Retired(versions[w][m])
          [] OTHER -> versions[w][m]]
<1>1. versions' = [versions EXCEPT ![w] = F]
  BY DEF PublishVersion
<1>2. DOMAIN F = Numbers /\ F[n] = [status |-> "published",
                       doc |-> [versions[w][n].doc EXCEPT !.status = "published"]]
  OBVIOUS
<1>3. ASSUME NEW m \in Numbers, m # n
      PROVE  F[m] = IF versions[w][m].status = "published" THEN Retired(versions[w][m])
                    ELSE versions[w][m]
  BY <1>3
<1> HIDE DEF F
<1>4. QED
  BY <1>1, <1>2, <1>3 DEF VersionsShape

\* A publication keeps the rows of the workflow.
LEMMA PublicationRows ==
    ASSUME ReleaseInv, NEW w \in Workflows, NEW n \in Numbers, versions' = PublishVersion(w, n),
           versions[w][n].status # "none"
    PROVE  /\ VersionsSound(versions', demos) /\ LearnedSound(learned, versions')
           /\ \A v \in Workflows, m \in Numbers : RowKept(versions[v][m], versions'[v][m])
           /\ \A v \in Workflows : PublishedIn(versions, v) => PublishedIn(versions', v)
<1> DEFINE row == versions[w][n]
           row2 == versions'[w][n]
           doc2 == [row.doc EXCEPT !.status = "published"]
<1>1. VersionsSound(versions, demos) /\ VersionsShape(versions) /\ LearnedSound(learned, versions)
  BY DEF ReleaseInv, VersionsSound
<1>2. /\ DOMAIN versions' = Workflows
      /\ \A v \in Workflows : DOMAIN versions'[v] = Numbers
      /\ row2 = [status |-> "published", doc |-> doc2]
      /\ \A m \in Numbers : m # n =>
            versions'[w][m] = IF versions[w][m].status = "published" THEN Retired(versions[w][m])
                              ELSE versions[w][m]
      /\ \A v \in Workflows : v # w => versions'[v] = versions[v]
  BY <1>1, PublishedRows
<1>3. IsRow(row) /\ IsDoc(row.doc)
  BY <1>1 DEF VersionsShape, IsRow
<1>4. IsDoc(doc2) /\ Candidate(doc2) = Candidate(row.doc)
  BY <1>3, WithStatus
<1> HIDE DEF doc2
<1>5. IsRow(row2) /\ row2.status = "published" /\ row2.doc = doc2
  BY <1>2, <1>4 DEF IsRow
<1>6. ASSUME NEW v \in Workflows, NEW m \in Numbers
      PROVE  /\ IsRow(versions'[v][m]) /\ RowKept(versions[v][m], versions'[v][m])
             /\ versions[v][m].status = "none" => versions'[v][m] = versions[v][m]
             /\ IsDoc(versions[v][m].doc) /\ IsDoc(versions'[v][m].doc)
             /\ versions'[v][m].status = "published" =>
                   (v = w /\ m = n) \/ (v # w /\ versions[v][m].status = "published")
  <2>1. IsRow(versions[v][m])
    BY <1>1 DEF VersionsShape
  <2>2. CASE v # w
    BY <1>2, <2>1, <2>2 DEF RowKept, IsRow
  <2>3. CASE v = w /\ m = n
    BY <1>4, <1>5, <2>1, <2>3 DEF RowKept, IsRow
  <2>4. CASE v = w /\ m # n
    <3>1. CASE versions[w][m].status = "published"
      <4>1. versions'[w][m] = Retired(versions[w][m])
        BY <1>2, <2>4, <3>1
      <4>2. /\ IsRow(Retired(versions[w][m])) /\ Retired(versions[w][m]).status = "retired"
            /\ Candidate(Retired(versions[w][m]).doc) = Candidate(versions[w][m].doc)
        BY <2>1, <2>4, RetiredRow
      <4>3. QED
        BY <2>1, <2>4, <3>1, <4>1, <4>2 DEF RowKept, IsRow
    <3>2. CASE versions[w][m].status # "published"
      BY <1>2, <2>1, <2>4, <3>2 DEF RowKept, IsRow
    <3>3. QED
      BY <3>1, <3>2
  <2>5. QED
    BY <2>2, <2>3, <2>4
<1>7. ASSUME NEW v \in Workflows, NEW m \in Numbers
      PROVE  versions[v][m].status # "none" =>
                /\ versions'[v][m].doc.token = versions[v][m].doc.token
                /\ versions'[v][m].doc.traces = versions[v][m].doc.traces
  BY <1>6, CandidateFacts DEF RowKept
<1>8. VersionsShape(versions')
  BY <1>2, <1>6 DEF VersionsShape
<1>9. OnePublished(versions')
  BY <1>1, <1>6 DEF VersionsSound, OnePublished
<1>10. \A v \in Workflows, m \in Numbers : Frozen(versions'[v][m].doc.traces, demos)
  <2>1. ASSUME NEW v \in Workflows, NEW m \in Numbers
        PROVE  versions'[v][m].doc.traces = versions[v][m].doc.traces
    BY <1>6, <1>7
  <2>2. QED
    BY <1>1, <2>1 DEF VersionsSound
<1>11. LearnedSound(learned, versions')
  BY <1>1, <1>6, <1>7 DEF LearnedSound, RowKept
<1>12. \A v \in Workflows : PublishedIn(versions, v) => PublishedIn(versions', v)
  BY <1>2, <1>5 DEF PublishedIn
<1>13. QED
  BY <1>6, <1>8, <1>9, <1>10, <1>11, <1>12 DEF VersionsSound

LEMMA StorePublicationKeeps ==
    ASSUME ReleaseInv, NEW c \in Callers, StorePublication(c)
    PROVE  ReleaseInv'
<1> DEFINE k == calls[c]
           w == k.wf
           n == k.number
           p == [wf |-> w, number |-> n, doc |-> k.doc, known |-> k.known]
<1>1. /\ k.pc = "publish" /\ calls' = [calls EXCEPT ![c] = NoCall]
      /\ \/ /\ versions[w][n].status = "candidate" /\ versions' = PublishVersion(w, n)
            /\ released' = released \cup {p}
         \/ UNCHANGED <<versions, released>>
      /\ UNCHANGED <<demos, reports, reviews, learned, route, executions, clock>>
  BY DEF StorePublication, End, Continue, Self, At, rest, registry, routing, running
<1>2. /\ w \in Workflows /\ n \in Numbers /\ ReportEvidence(k, reports)
      /\ ReviewEvidence(k, reviews)
  BY <1>1, CallFacts DEF NumberLabels, WorkflowLabels, CandidateLabels, PublisherLabels, CallSound
<1>3. CASE UNCHANGED <<versions, released>>
  BY <1>1, <1>3, CallEnds
<1>4. CASE versions[w][n].status = "candidate" /\ versions' = PublishVersion(w, n)
           /\ released' = released \cup {p}
  <2>1. /\ VersionsSound(versions', demos) /\ LearnedSound(learned, versions')
        /\ \A v \in Workflows, m \in Numbers : RowKept(versions[v][m], versions'[v][m])
        /\ \A v \in Workflows : PublishedIn(versions, v) => PublishedIn(versions', v)
    BY <1>2, <1>4, PublicationRows
  <2>2. /\ \E r \in SuiteReports(w, n) :
              /\ r.verdict = "passed" /\ r.digest = k.doc
              /\ \A q \in k.known[1] : q.suite = "required" => ~Later(q, r)
        /\ \E r \in ExactReviews(w, n, k.doc) :
              /\ r.verdict = "approved"
              /\ \A q \in k.known[2] : ~Later(q, r)
    BY <1>2 DEF ReportEvidence, ReviewEvidence, SuiteReports, ExactReviews, About, Digest
  <2>3. PublishedOnEvidence'
    <3>1. p.wf = w /\ p.number = n /\ p.doc = k.doc /\ p.known = k.known
      OBVIOUS
    <3> HIDE DEF p, w, n, k
    <3>2. ASSUME NEW q \in released'
          PROVE  /\ \E r \in SuiteReports(q.wf, q.number) :
                       /\ r.verdict = "passed" /\ r.digest = q.doc
                       /\ \A x \in q.known[1] : x.suite = "required" => ~Later(x, r)
                 /\ \E r \in ExactReviews(q.wf, q.number, q.doc) :
                       /\ r.verdict = "approved"
                       /\ \A x \in q.known[2] : ~Later(x, r)
      <4>1. CASE q \in released
        BY <4>1 DEF ReleaseInv, PublishedOnEvidence
      <4>2. CASE q = p
        BY <2>2, <3>1, <4>2
      <4>3. QED
        BY <1>4, <4>1, <4>2
    <3>3. QED
      BY <1>1, <3>2 DEF PublishedOnEvidence, SuiteReports, ExactReviews, About
  <2>4. QED
    BY <1>1, <2>1, <2>3, RowsMove
<1>5. QED
  BY <1>1, <1>3, <1>4

-----------------------------------------------------------------------------
\* Evaluation, review and publication

LEMMA LoadedDocument ==
    ASSUME ReleaseInv, NEW w \in Workflows, NEW n \in Numbers
    PROVE  /\ IsDoc(LoadVersion(w, n)) /\ Frozen(LoadVersion(w, n).traces, demos)
           /\ LoadVersion(w, n).status = versions[w][n].status
           /\ versions[w][n].status = "candidate" =>
                 LoadVersion(w, n) = Candidate(versions[w][n].doc)
<1>1. IsDoc(versions[w][n].doc) /\ Frozen(versions[w][n].doc.traces, demos)
  BY DEF ReleaseInv, VersionsSound, VersionsShape, IsRow
<1> DEFINE doc == versions[w][n].doc
           s == versions[w][n].status
           d == [doc EXCEPT !.status = s]
<1>2. LoadVersion(w, n) = d
  BY DEF LoadVersion
<1>3. IsDoc(d) /\ d.status = s /\ d.traces = doc.traces
  BY <1>1, WithStatus
<1>4. s = "candidate" => d = Candidate(doc)
  BY DEF Candidate
<1> HIDE DEF d
<1>5. QED
  BY <1>1, <1>2, <1>3, <1>4

LEMMA EvaluateKeeps ==
    ASSUME ReleaseInv, NEW c \in Callers, NEW w \in Workflows, NEW n \in Numbers, Evaluate(c, w, n)
    PROVE  ReleaseInv'
<1> DEFINE doc == LoadVersion(w, n)
           k0 == [NoCall EXCEPT !.pc = "save_report", !.wf = w, !.number = n]
           k == [k0 EXCEPT !.doc = doc]
<1>1. /\ calls' = [calls EXCEPT ![c] = k] \/ calls' = [calls EXCEPT ![c] = NoCall]
      /\ UNCHANGED <<demos, versions, reports, reviews, learned, released, route, executions, clock>>
  BY DEF Evaluate, Begin, rest, registry, routing, running
<1>2. IsDoc(doc) /\ Frozen(doc.traces, demos)
  BY LoadedDocument
<1> HIDE DEF doc
<1>20. k0 = CallOf("save_report", w, n, NoCall.doc, NoCall.demo, NoCall.event, NoCall.base,
                   NoCall.stored, NoCall.at, NoCall.known)
  BY StartsFresh, EditNumbered
<1> HIDE DEF k0
<1>3. k = CallOf("save_report", w, n, doc, NoCall.demo, NoCall.event, NoCall.base,
                 NoCall.stored, NoCall.at, NoCall.known)
  BY <1>20 DEF CallOf
<1> HIDE DEF k
<1>4. IsCall(k) /\ k.pc = "save_report" /\ k.wf = w /\ k.number = n /\ k.doc = doc
  BY <1>2, <1>3, CallOfFields
<1>5. "save_report" \in PlainLabels
  BY DEF PlainLabels
<1>6. CallSound(k, demos, versions, reports, reviews)
  BY <1>2, <1>4, <1>5, PlainCall
<1>7. QED
  BY <1>1, <1>6, CallMoves, CallEnds

LEMMA ReviewKeeps ==
    ASSUME ReleaseInv, NEW c \in Callers, NEW w \in Workflows, NEW n \in Numbers, Review(c, w, n)
    PROVE  ReleaseInv'
<1> DEFINE doc == LoadVersion(w, n)
           k0 == [NoCall EXCEPT !.pc = "save_review", !.wf = w, !.number = n]
           k1 == [k0 EXCEPT !.doc = doc]
           k == [k1 EXCEPT !.at = clock]
<1>1. /\ \/ calls' = [calls EXCEPT ![c] = k] /\ versions[w][n].status = "candidate"
         \/ calls' = [calls EXCEPT ![c] = NoCall]
      /\ UNCHANGED <<demos, versions, reports, reviews, learned, released, route, executions, clock>>
  BY DEF Review, Begin, rest, registry, routing, running
<1>2. /\ IsDoc(doc) /\ Frozen(doc.traces, demos)
      /\ versions[w][n].status = "candidate" => doc = Candidate(versions[w][n].doc)
  BY LoadedDocument
<1> HIDE DEF doc
<1>20. k0 = CallOf("save_review", w, n, NoCall.doc, NoCall.demo, NoCall.event, NoCall.base,
                   NoCall.stored, NoCall.at, NoCall.known)
  BY StartsFresh, EditNumbered
<1> HIDE DEF k0
<1>21. k1 = CallOf("save_review", w, n, doc, NoCall.demo, NoCall.event, NoCall.base,
                   NoCall.stored, NoCall.at, NoCall.known)
  BY <1>20 DEF CallOf
<1> HIDE DEF k1
<1>3. k = CallOf("save_review", w, n, doc, NoCall.demo, NoCall.event, NoCall.base,
                 NoCall.stored, clock, NoCall.known)
  BY <1>21 DEF CallOf
<1> HIDE DEF k
<1>4. IsCall(k) /\ k.pc = "save_review" /\ k.wf = w /\ k.number = n /\ k.doc = doc
  BY <1>2, <1>3, CallOfFields
<1>5. CASE versions[w][n].status = "candidate" /\ calls' = [calls EXCEPT ![c] = k]
  <2>1. CallSound(k, demos, versions, reports, reviews)
    BY <1>2, <1>4, <1>5 DEF CallSound, PublisherLabels
  <2>2. QED
    BY <1>1, <1>5, <2>1, CallMoves
<1>6. QED
  BY <1>1, <1>5, CallEnds

LEMMA PublishKeeps ==
    ASSUME ReleaseInv, NEW c \in Callers, NEW w \in Workflows, NEW n \in Numbers, Publish(c, w, n)
    PROVE  ReleaseInv'
<1> DEFINE doc == LoadVersion(w, n)
           known == <<About(reports, w, n), About(reviews, w, n)>>
           k0 == [NoCall EXCEPT !.pc = "list_reports", !.wf = w, !.number = n]
           k1 == [k0 EXCEPT !.doc = doc]
           k == [k1 EXCEPT !.known = known]
<1>1. /\ \/ calls' = [calls EXCEPT ![c] = k] /\ doc.status = "candidate"
         \/ calls' = [calls EXCEPT ![c] = NoCall]
      /\ UNCHANGED <<demos, versions, reports, reviews, learned, released, route, executions, clock>>
  BY DEF Publish, Begin, rest, registry, routing, running
<1>2. /\ IsDoc(doc) /\ Frozen(doc.traces, demos) /\ doc.status = versions[w][n].status
      /\ versions[w][n].status = "candidate" => doc = Candidate(versions[w][n].doc)
  BY LoadedDocument
<1>3. /\ known[1] = {r \in reports : r.wf = w /\ r.number = n}
      /\ known[2] = {r \in reviews : r.wf = w /\ r.number = n}
  BY DEF About
<1> HIDE DEF doc, known
<1>20. k0 = CallOf("list_reports", w, n, NoCall.doc, NoCall.demo, NoCall.event, NoCall.base,
                   NoCall.stored, NoCall.at, NoCall.known)
  BY StartsFresh, EditNumbered
<1> HIDE DEF k0
<1>21. k1 = CallOf("list_reports", w, n, doc, NoCall.demo, NoCall.event, NoCall.base,
                   NoCall.stored, NoCall.at, NoCall.known)
  BY <1>20 DEF CallOf
<1> HIDE DEF k1
<1>4. k = CallOf("list_reports", w, n, doc, NoCall.demo, NoCall.event, NoCall.base,
                 NoCall.stored, NoCall.at, known)
  BY <1>21 DEF CallOf
<1> HIDE DEF k
<1>5. /\ IsCall(k) /\ k.pc = "list_reports" /\ k.wf = w /\ k.number = n /\ k.doc = doc
      /\ k.known = known
  BY <1>2, <1>4, CallOfFields
<1>6. CASE doc.status = "candidate" /\ calls' = [calls EXCEPT ![c] = k]
  <2>1. CallSound(k, demos, versions, reports, reviews)
    BY <1>2, <1>3, <1>5, <1>6 DEF CallSound
  <2>2. QED
    BY <1>1, <1>6, <2>1, CallMoves
<1>7. QED
  BY <1>1, <1>6, CallEnds

\* A call that looks at the next kind of record, having found what it needs.
LEMMA Relabeled ==
    ASSUME ReleaseInv, NEW c \in Callers, NEW pc \in {"list_reviews", "publish"},
           calls[c].pc \in PublisherLabels, ReportEvidence(calls[c], reports),
           pc = "publish" => ReviewEvidence(calls[c], reviews),
           calls' = [calls EXCEPT ![c] = [calls[c] EXCEPT !.pc = pc]],
           UNCHANGED <<demos, versions, reports, reviews, learned, released, route, executions, clock>>
    PROVE  ReleaseInv'
<1> DEFINE call == calls[c]
           k == [call EXCEPT !.pc = pc]
<1>1. /\ IsCall(call) /\ Frozen(call.doc.traces, demos)
      /\ CallSound(call, demos, versions, reports, reviews)
      /\ call.wf \in Workflows /\ call.number \in Numbers
  BY CallFacts DEF NumberLabels, WorkflowLabels, CandidateLabels
<1>2. /\ IsCall(k) /\ k.pc = pc /\ k.wf = call.wf /\ k.number = call.number /\ k.doc = call.doc
      /\ k.known = call.known
  BY <1>1, EditLabelFields
<1>3. calls' = [calls EXCEPT ![c] = k]
  OBVIOUS
<1> HIDE DEF k
<1>4. ReportEvidence(k, reports) /\ (pc = "publish" => ReviewEvidence(k, reviews))
  BY <1>2 DEF ReportEvidence, ReviewEvidence
<1>5. call.pc \in PublisherLabels /\ call.pc \in CandidateLabels /\ pc \in PublisherLabels
  BY DEF CandidateLabels, PublisherLabels
<1>6. /\ versions[k.wf][k.number].status # "none" /\ k.doc = Candidate(versions[k.wf][k.number].doc)
      /\ k.known[1] \subseteq {r \in reports : r.wf = k.wf /\ r.number = k.number}
      /\ k.known[2] \subseteq {r \in reviews : r.wf = k.wf /\ r.number = k.number}
  BY <1>1, <1>2, <1>5 DEF CallSound
<1> HIDE DEF call
<1>7. CallSound(k, demos, versions, reports, reviews)
  BY <1>1, <1>2, <1>4, <1>6 DEF CallSound
<1>8. QED
  BY <1>3, <1>7, CallMoves

LEMMA ListReportsKeeps ==
    ASSUME ReleaseInv, NEW c \in Callers, ListReports(c)
    PROVE  ReleaseInv'
<1> DEFINE call == calls[c]
           found == SuiteReports(call.wf, call.number)
<1>1. /\ call.pc = "list_reports"
      /\ UNCHANGED <<demos, versions, reports, reviews, learned, released, route, executions, clock>>
      /\ \/ /\ calls' = [calls EXCEPT ![c] = [call EXCEPT !.pc = "list_reviews"]]
            /\ \E r \in found : IsLatest(r, found) /\ r.digest = Digest(call.doc) /\ r.verdict = "passed"
         \/ calls' = [calls EXCEPT ![c] = NoCall]
  BY DEF ListReports, Check, Continue, End, Self, At, rest, registry, routing, running
<1>2. call.pc \in PublisherLabels /\ CallSound(call, demos, versions, reports, reviews)
  BY <1>1, CallFacts DEF PublisherLabels
<1>3. ASSUME NEW r \in found, IsLatest(r, found), r.digest = Digest(call.doc), r.verdict = "passed"
      PROVE  ReportEvidence(call, reports)
  <2>1. ASSUME NEW q \in call.known[1], q.suite = "required" PROVE ~Later(q, r)
    <3>1. q \in found
      BY <1>2, <2>1 DEF CallSound, SuiteReports, About
    <3>2. QED
      BY <1>3, <3>1 DEF IsLatest
  <2>2. QED
    BY <1>3, <2>1 DEF ReportEvidence, SuiteReports, About, Digest
<1>4. CASE ReportEvidence(call, reports)
           /\ calls' = [calls EXCEPT ![c] = [call EXCEPT !.pc = "list_reviews"]]
  BY <1>1, <1>2, <1>4, Relabeled
<1>5. QED
  BY <1>1, <1>3, <1>4, CallEnds

LEMMA ListReviewsKeeps ==
    ASSUME ReleaseInv, NEW c \in Callers, ListReviews(c)
    PROVE  ReleaseInv'
<1> DEFINE call == calls[c]
           found == ExactReviews(call.wf, call.number, call.doc)
<1>1. /\ call.pc = "list_reviews"
      /\ UNCHANGED <<demos, versions, reports, reviews, learned, released, route, executions, clock>>
      /\ \/ /\ calls' = [calls EXCEPT ![c] = [call EXCEPT !.pc = "publish"]]
            /\ \E r \in found : IsLatest(r, found) /\ r.verdict = "approved"
         \/ calls' = [calls EXCEPT ![c] = NoCall]
  BY DEF ListReviews, Check, Continue, End, Self, At, rest, registry, routing, running
<1>2. call.pc \in PublisherLabels /\ CallSound(call, demos, versions, reports, reviews)
  BY <1>1, CallFacts DEF PublisherLabels
<1>3. ASSUME NEW r \in found, IsLatest(r, found), r.verdict = "approved"
      PROVE  ReviewEvidence(call, reviews)
  <2>1. ASSUME NEW q \in call.known[2] PROVE ~Later(q, r)
    <3>1. q \in reviews /\ q.wf = call.wf /\ q.number = call.number
      BY <1>2 DEF CallSound
    <3>2. q.digest = call.doc
      BY <1>2, <3>1 DEF ReleaseInv, ReviewsSound, CallSound, CandidateLabels
    <3>3. q \in found
      BY <3>1, <3>2 DEF ExactReviews, About, Digest
    <3>4. QED
      BY <1>3, <3>3 DEF IsLatest
  <2>2. QED
    BY <1>3, <2>1 DEF ReviewEvidence, ExactReviews, About, Digest
<1>4. ReportEvidence(call, reports)
  BY <1>1, <1>2 DEF CallSound
<1>5. CASE ReviewEvidence(call, reviews)
           /\ calls' = [calls EXCEPT ![c] = [call EXCEPT !.pc = "publish"]]
  BY <1>1, <1>2, <1>4, <1>5, Relabeled
<1>6. QED
  BY <1>1, <1>3, <1>5, CallEnds

\* Records are added at the end of a call.
LEMMA RecordsAdded ==
    ASSUME ReleaseInv, NEW c \in Callers, calls' = [calls EXCEPT ![c] = NoCall],
           reports \subseteq reports', reviews \subseteq reviews', ReviewsSound(reviews', versions),
           UNCHANGED <<demos, versions, learned, released, route, executions, clock>>
    PROVE  ReleaseInv'
<1>1. Grows(demos, demos', versions, versions', reports, reports', reviews, reviews')
  BY DEF Grows, RowKept
<1>2. CallsSound'
  BY <1>1, NoCallSound, OneMoves
<1>3. ReviewsSound(reviews', versions')
  BY DEF ReviewsSound
<1>4. ExecutionsSound'
  BY DEF ReleaseInv, ExecutionsSound
<1>5. PublishedOnEvidence'
  <2>1. ASSUME NEW p \in released'
        PROVE  /\ \E r \in SuiteReports(p.wf, p.number)' :
                     /\ r.verdict = "passed" /\ r.digest = p.doc
                     /\ \A x \in p.known[1] : x.suite = "required" => ~Later(x, r)
               /\ \E r \in ExactReviews(p.wf, p.number, p.doc)' :
                     /\ r.verdict = "approved"
                     /\ \A x \in p.known[2] : ~Later(x, r)
    <3>1. SuiteReports(p.wf, p.number) \subseteq SuiteReports(p.wf, p.number)'
      BY DEF SuiteReports, About
    <3>2. ExactReviews(p.wf, p.number, p.doc) \subseteq ExactReviews(p.wf, p.number, p.doc)'
      BY DEF ExactReviews, About
    <3>3. QED
      BY <3>1, <3>2 DEF ReleaseInv, PublishedOnEvidence
  <2>2. QED
    BY <2>1 DEF PublishedOnEvidence
<1>6. VersionsSound(versions', demos') /\ LearnedSound(learned', versions')
  BY DEF ReleaseInv
<1>7. QED
  BY <1>2, <1>3, <1>4, <1>5, <1>6 DEF ReleaseInv

LEMMA SaveReportKeeps ==
    ASSUME ReleaseInv, NEW c \in Callers, NEW id, SaveReport(c, id)
    PROVE  ReleaseInv'
<1>1. /\ calls' = [calls EXCEPT ![c] = NoCall] /\ reports \subseteq reports'
      /\ UNCHANGED <<demos, versions, reviews, learned, released, route, executions, clock>>
  BY DEF SaveReport, End, Continue, rest, routing, running
<1>2. QED
  BY <1>1, RecordsAdded DEF ReleaseInv

LEMMA SaveReviewKeeps ==
    ASSUME ReleaseInv, NEW c \in Callers, NEW id, SaveReview(c, id)
    PROVE  ReleaseInv'
<1> DEFINE call == calls[c]
<1>1. PICK decision \in {"approved", "rejected"} :
        /\ call.pc = "save_review" /\ calls' = [calls EXCEPT ![c] = NoCall]
        /\ reviews' = reviews \cup
             {[id |-> id, wf |-> call.wf, number |-> call.number, digest |-> call.doc,
               suite |-> "required", verdict |-> decision, at |-> call.at]}
        /\ UNCHANGED <<demos, versions, reports, learned, released, route, executions, clock>>
  BY DEF SaveReview, End, Continue, At, Self, Digest, rest, routing, running
<1>2. /\ call.wf \in Workflows /\ call.number \in Numbers
      /\ versions[call.wf][call.number].status # "none"
      /\ call.doc = Candidate(versions[call.wf][call.number].doc)
  BY <1>1, CallFacts DEF CallSound, CandidateLabels, NumberLabels, WorkflowLabels
<1> HIDE DEF call
<1>3. ReviewsSound(reviews', versions)
  BY <1>1, <1>2 DEF ReleaseInv, ReviewsSound
<1>4. QED
  BY <1>1, <1>3, RecordsAdded

-----------------------------------------------------------------------------
\* Routes, resolution and execution

\* The published version, or its number, is what a call goes on with.
LEMMA SelectSound ==
    ASSUME ReleaseInv, NEW call, IsCall(call), Frozen(call.doc.traces, demos),
           call.wf \in Workflows, NEW load, NEW pc,
           (load = "load_target" /\ pc = "save_route") \/ (load = "load_version" /\ pc = "start")
    PROVE  CallSound(SelectPublished(call, load, pc), demos, versions, reports, reviews)
<1>1. CASE Published(call.wf) = {}
  <2>1. SelectPublished(call, load, pc) = NoCall
    BY <1>1 DEF SelectPublished
  <2>2. QED
    BY <2>1, NoCallSound
<1>2. CASE Published(call.wf) # {}
  <2> DEFINE n == Highest(Published(call.wf))
             doc == LoadVersion(call.wf, n)
             k == [call EXCEPT !.pc = load, !.number = n]
             j0 == [call EXCEPT !.pc = pc, !.number = n]
             j1 == [j0 EXCEPT !.doc = doc]
             j == [j1 EXCEPT !.stored = "published"]
  <2>1. SelectPublished(call, load, pc) = k \/ SelectPublished(call, load, pc) = j
    BY <1>2 DEF SelectPublished
  <2>2. n \in Numbers /\ versions[call.wf][n].status = "published"
    <3>1. Published(call.wf) \subseteq Numbers
      BY DEF Published
    <3>2. n \in Published(call.wf)
      BY <1>2, <3>1, HighestIn
    <3>3. QED
      BY <3>2 DEF Published
  <2>3. PublishedIn(versions, call.wf)
    BY <2>2 DEF PublishedIn
  <2>4. IsDoc(doc) /\ Frozen(doc.traces, demos) /\ doc.status = "published"
    BY <2>2, LoadedDocument
  <2> HIDE DEF n, doc
  <2>5. CallSound(k, demos, versions, reports, reviews)
    <3>1. k = CallOf(load, call.wf, n, call.doc, call.demo, call.event, call.base, call.stored,
                     call.at, call.known)
      BY EditNumber
    <3>2. IsDoc(call.doc)
      BY DEF IsCall
    <3> HIDE DEF k
    <3>3. IsCall(k) /\ k.pc = load /\ k.wf = call.wf /\ k.number = n /\ k.doc = call.doc
      BY <3>1, <3>2, CallOfFields
    <3>4. QED
      BY <2>2, <2>3, <3>3 DEF CallSound, CandidateLabels, PublisherLabels
  <2>6. CallSound(j, demos, versions, reports, reviews)
    <3>3. j0 = CallOf(pc, call.wf, n, call.doc, call.demo, call.event, call.base, call.stored,
                      call.at, call.known)
      BY EditNumber
    <3> HIDE DEF j0
    <3>4. j1 = CallOf(pc, call.wf, n, doc, call.demo, call.event, call.base, call.stored,
                      call.at, call.known)
      BY <3>3 DEF CallOf
    <3> HIDE DEF j1
    <3>1. j = CallOf(pc, call.wf, n, doc, call.demo, call.event, call.base, "published",
                     call.at, call.known)
      BY <3>4 DEF CallOf
    <3> HIDE DEF j
    <3>2. /\ IsCall(j) /\ j.pc = pc /\ j.wf = call.wf /\ j.number = n /\ j.doc = doc
          /\ j.stored = "published"
      BY <2>4, <3>1, CallOfFields
    <3>5. QED
      BY <2>2, <2>3, <2>4, <3>2 DEF CallSound, CandidateLabels, PublisherLabels
  <2>7. QED
    BY <2>1, <2>5, <2>6
<1>3. QED
  BY <1>1, <1>2

LEMMA SaveRouteKeeps ==
    ASSUME ReleaseInv, NEW c \in Callers, NEW w \in Workflows, SaveRoute(c, w)
    PROVE  ReleaseInv'
<1> DEFINE call == [NoCall EXCEPT !.wf = w, !.base = seen[c]]
           load == "load_target"
           pc == "save_route"
           k == SelectPublished(call, load, pc)
<1>1. /\ calls' = [calls EXCEPT ![c] = k]
      /\ UNCHANGED <<demos, versions, reports, reviews, learned, released, route, executions, clock>>
  BY DEF SaveRoute, Begin, rest, registry, routing, running
<1>2. call = CallOf(NoCall.pc, w, NoCall.number, NoCall.doc, NoCall.demo, NoCall.event, seen[c],
                    NoCall.stored, NoCall.at, NoCall.known)
  BY StartsFresh, EditRouted
<1> HIDE DEF call
<1>3. IsCall(call) /\ call.wf = w /\ call.doc.traces = <<>>
  BY <1>2, StartsFresh, CallOfFields
<1>4. Frozen(call.doc.traces, demos)
  BY <1>3 DEF Frozen
<1>7. (load = "load_target" /\ pc = "save_route") \/ (load = "load_version" /\ pc = "start")
  OBVIOUS
<1> HIDE DEF load, pc
<1>5. CallSound(k, demos, versions, reports, reviews)
  BY <1>3, <1>4, <1>7, SelectSound
<1> HIDE DEF k
<1>6. QED
  BY <1>1, <1>5, CallMoves

LEMMA ExecutePublishedKeeps ==
    ASSUME ReleaseInv, NEW c \in Callers, NEW w \in Workflows, ExecutePublished(c, w)
    PROVE  ReleaseInv'
<1> DEFINE call == [NoCall EXCEPT !.wf = w]
           k == SelectPublished(call, "load_version", "start")
<1>1. /\ calls' = [calls EXCEPT ![c] = k]
      /\ UNCHANGED <<demos, versions, reports, reviews, learned, released, route, executions, clock>>
  BY DEF ExecutePublished, Begin, rest, registry, routing, running
<1>2. call = CallOf(NoCall.pc, w, NoCall.number, NoCall.doc, NoCall.demo, NoCall.event, NoCall.base,
                    NoCall.stored, NoCall.at, NoCall.known)
  BY StartsFresh, EditWorkflow
<1> HIDE DEF call
<1>3. IsCall(call) /\ call.wf = w /\ call.doc.traces = <<>>
  BY <1>2, StartsFresh, CallOfFields
<1>4. Frozen(call.doc.traces, demos)
  BY <1>3 DEF Frozen
<1>5. CallSound(k, demos, versions, reports, reviews)
  BY <1>3, <1>4, SelectSound
<1> HIDE DEF k
<1>6. QED
  BY <1>1, <1>5, CallMoves

LEMMA ExecuteTaskKeeps ==
    ASSUME ReleaseInv, NEW c \in Callers, ExecuteTask(c)
    PROVE  ReleaseInv'
<1> DEFINE w == route.target
           k == [NoCall EXCEPT !.pc = "resolve", !.wf = w]
<1>1. /\ \/ route # NoRoute /\ calls' = [calls EXCEPT ![c] = k]
         \/ calls' = [calls EXCEPT ![c] = NoCall]
      /\ UNCHANGED <<demos, versions, reports, reviews, learned, released, route, executions, clock>>
  BY DEF ExecuteTask, Begin, rest, registry, routing, running
<1>2. CASE route # NoRoute /\ calls' = [calls EXCEPT ![c] = k]
  <2>1. w \in Workflows
    BY <1>2 DEF ReleaseInv
  <2> HIDE DEF w
  <2>2. k = CallOf("resolve", w, NoCall.number, NoCall.doc, NoCall.demo, NoCall.event, NoCall.base,
                   NoCall.stored, NoCall.at, NoCall.known)
    BY StartsFresh, EditTask
  <2> HIDE DEF k
  <2>3. IsCall(k) /\ k.pc = "resolve" /\ k.wf = w /\ k.number = NoCall.number /\ k.doc = NoDoc
    BY <2>2, StartsFresh, CallOfFields
  <2>4. "resolve" \in PlainLabels /\ "resolve" \notin NumberLabels
    BY DEF PlainLabels, NumberLabels, CandidateLabels, PublisherLabels
  <2>5. QED
    BY <1>1, <1>2, <2>1, <2>3, <2>4, FreshKeeps
<1>3. QED
  BY <1>1, <1>2, CallEnds

LEMMA ResolveKeeps ==
    ASSUME ReleaseInv, NEW c \in Callers, Resolve(c)
    PROVE  ReleaseInv'
<1> DEFINE call == calls[c]
           k == SelectPublished(call, "load_version", "start")
<1>1. /\ call.pc = "resolve" /\ calls' = [calls EXCEPT ![c] = k]
      /\ UNCHANGED <<demos, versions, reports, reviews, learned, released, route, executions, clock>>
  BY DEF Resolve, Continue, At, Self, rest, registry, routing, running
<1>2. IsCall(call) /\ Frozen(call.doc.traces, demos) /\ call.wf \in Workflows
  BY <1>1, CallFacts DEF WorkflowLabels
<1> HIDE DEF call
<1>3. CallSound(k, demos, versions, reports, reviews)
  BY <1>2, SelectSound
<1> HIDE DEF k
<1>4. QED
  BY <1>1, <1>3, CallMoves

LEMMA LoadPublishedKeeps ==
    ASSUME ReleaseInv, NEW c \in Callers, NEW load, NEW pc, LoadPublished(c, load, pc),
           (load = "load_target" /\ pc = "save_route") \/ (load = "load_version" /\ pc = "start")
    PROVE  ReleaseInv'
<1> DEFINE call == calls[c]
           doc == LoadVersion(call.wf, call.number)
           s == versions[call.wf][call.number].status
           k == [call EXCEPT !.pc = pc, !.doc = doc, !.stored = s]
<1>1. /\ call.pc = load /\ calls' = [calls EXCEPT ![c] = k]
      /\ UNCHANGED <<demos, versions, reports, reviews, learned, released, route, executions, clock>>
  BY DEF LoadPublished, Continue, At, Self, rest, registry, routing, running
<1>2. IsCall(call) /\ call.wf \in Workflows /\ call.number \in Numbers
  BY <1>1, CallFacts DEF WorkflowLabels, NumberLabels
<1>3. load = "load_target" => PublishedIn(versions, call.wf)
  BY <1>1, CallFacts DEF CallSound
<1>4. IsDoc(doc) /\ Frozen(doc.traces, demos) /\ doc.status = s
  BY <1>2, LoadedDocument
<1> HIDE DEF doc, s
<1>5. k = CallOf(pc, call.wf, call.number, doc, call.demo, call.event, call.base, s,
                 call.at, call.known)
  BY <1>2, EditLoaded
<1> HIDE DEF k
<1>6. IsCall(k) /\ k.pc = pc /\ k.wf = call.wf /\ k.number = call.number /\ k.doc = doc /\ k.stored = s
  BY <1>4, <1>5, CallOfFields
<1> HIDE DEF call
<1>7. CallSound(k, demos, versions, reports, reviews)
  BY <1>2, <1>3, <1>4, <1>6 DEF CallSound, CandidateLabels, PublisherLabels
<1>8. QED
  BY <1>1, <1>7, CallMoves DEF call

LEMMA DeleteRouteKeeps ==
    ASSUME ReleaseInv, NEW c \in Callers, DeleteRoute(c)
    PROVE  ReleaseInv'
<1> DEFINE k == [NoCall EXCEPT !.pc = "delete_route", !.base = seen[c]]
<1>1. /\ calls' = [calls EXCEPT ![c] = k] \/ calls' = [calls EXCEPT ![c] = NoCall]
      /\ UNCHANGED <<demos, versions, reports, reviews, learned, released, route, executions, clock>>
  BY DEF DeleteRoute, Begin, rest, registry, routing, running
<1>2. k = CallOf("delete_route", NoCall.wf, NoCall.number, NoCall.doc, NoCall.demo, NoCall.event,
                 seen[c], NoCall.stored, NoCall.at, NoCall.known)
  BY StartsFresh, EditUnrouted
<1> HIDE DEF k
<1>3. IsCall(k) /\ k.pc = "delete_route" /\ k.doc.traces = <<>>
  BY <1>2, StartsFresh, CallOfFields
<1>4. Frozen(k.doc.traces, demos)
  BY <1>3 DEF Frozen
<1>5. CallSound(k, demos, versions, reports, reviews)
  BY <1>3, <1>4, PlainCall
     DEF PlainLabels, WorkflowLabels, NumberLabels, CandidateLabels, PublisherLabels
<1>6. QED
  BY <1>1, <1>5, CallMoves, CallEnds

LEMMA RecordFeedbackKeeps ==
    ASSUME ReleaseInv, NEW c \in Callers, RecordFeedback(c)
    PROVE  ReleaseInv'
<1>1. PICK event :
        /\ \/ calls' = [calls EXCEPT ![c] = [NoCall EXCEPT !.pc = "save_feedback", !.event = event]]
           \/ calls' = [calls EXCEPT ![c] = NoCall]
        /\ UNCHANGED <<demos, versions, reports, reviews, learned, released, route, executions, clock>>
  BY DEF RecordFeedback, Begin, rest, registry, routing, running
<1> DEFINE k == [NoCall EXCEPT !.pc = "save_feedback", !.event = event]
<1>2. k = CallOf("save_feedback", NoCall.wf, NoCall.number, NoCall.doc, NoCall.demo, event,
                 NoCall.base, NoCall.stored, NoCall.at, NoCall.known)
  BY StartsFresh, EditEvent
<1>3. calls' = [calls EXCEPT ![c] = k] \/ calls' = [calls EXCEPT ![c] = NoCall]
  BY <1>1
<1> HIDE DEF k
<1>4. IsCall(k) /\ k.pc = "save_feedback" /\ k.doc.traces = <<>>
  BY <1>2, StartsFresh, CallOfFields
<1>5. Frozen(k.doc.traces, demos)
  BY <1>4 DEF Frozen
<1>6. CallSound(k, demos, versions, reports, reviews)
  BY <1>4, <1>5, PlainCall
     DEF PlainLabels, WorkflowLabels, NumberLabels, CandidateLabels, PublisherLabels
<1>7. QED
  BY <1>1, <1>3, <1>6, CallMoves, CallEnds

\* The route and the executions move while the stores of versions are still.
LEMMA RouteMoves ==
    ASSUME ReleaseInv,
           UNCHANGED <<demos, versions, reports, reviews, learned, released>>, clock' \in Nat,
           calls' = calls \/ \E c \in Callers : calls' = [calls EXCEPT ![c] = NoCall],
           route' # NoRoute => route'.target \in Workflows /\ PublishedIn(versions, route'.target),
           ExecutionsSound'
    PROVE  ReleaseInv'
<1>1. CallsSound'
  <2>1. CASE calls' = calls
    BY <2>1 DEF ReleaseInv, CallsSound
  <2>2. ASSUME NEW c \in Callers, calls' = [calls EXCEPT ![c] = NoCall] PROVE CallsSound'
    BY <2>2, GrowsSame, NoCallSound, OneMoves
  <2>3. QED
    BY <2>1, <2>2
<1>2. PublishedOnEvidence'
  BY DEF ReleaseInv, PublishedOnEvidence, SuiteReports, ExactReviews, About
<1>3. QED
  BY <1>1, <1>2 DEF ReleaseInv

LEMMA StoreRouteKeeps ==
    ASSUME ReleaseInv, NEW c \in Callers, StoreRoute(c) \/ RemoveRoute(c)
    PROVE  ReleaseInv'
<1>1. /\ UNCHANGED <<demos, versions, reports, reviews, learned, released, executions, clock>>
      /\ calls' = [calls EXCEPT ![c] = NoCall]
  BY DEF StoreRoute, RemoveRoute, End, Continue, rest, registry, running
<1>2. \/ route' = route
      \/ route' = NoRoute
      \/ /\ calls[c].pc = "save_route"
         /\ route' = [target |-> calls[c].wf, revision |-> route.revision + 1, token |-> Token(c)]
  BY DEF StoreRoute, RemoveRoute, routing, At, Self
<1>3. calls[c].pc = "save_route" => calls[c].wf \in Workflows /\ PublishedIn(versions, calls[c].wf)
  BY CallFacts DEF CallSound, WorkflowLabels
<1>4. route' # NoRoute => route'.target \in Workflows /\ PublishedIn(versions, route'.target)
  BY <1>2, <1>3 DEF ReleaseInv
<1>5. ExecutionsSound' /\ clock' \in Nat
  BY <1>1 DEF ReleaseInv, ExecutionsSound
<1>6. QED
  BY <1>1, <1>4, <1>5, RouteMoves

LEMMA StartExecutionKeeps ==
    ASSUME ReleaseInv, NEW c \in Callers, StartExecution(c)
    PROVE  ReleaseInv'
<1> DEFINE call == calls[c]
           x == [id |-> Token(c), wf |-> call.wf, number |-> call.number,
                 loadedAs |-> call.stored, status |-> "running"]
<1>1. /\ UNCHANGED <<demos, versions, reports, reviews, learned, released, route, clock>>
      /\ calls' = [calls EXCEPT ![c] = NoCall] /\ call.pc = "start"
      /\ executions' = IF call.doc.status = "published" /\ call.doc.tools = contracts
                       THEN executions \cup {x} ELSE executions
  BY DEF StartExecution, End, Continue, At, Self, rest, registry, routing
<1>2. call.doc.status = call.stored
  BY <1>1, CallFacts DEF CallSound
<1>3. x = [id |-> x.id, wf |-> x.wf, number |-> x.number, loadedAs |-> x.loadedAs, status |-> x.status]
      /\ x.loadedAs = call.stored
  OBVIOUS
<1> HIDE DEF x, call
<1>4. ExecutionsSound'
  BY <1>1, <1>2, <1>3 DEF ReleaseInv, ExecutionsSound
<1>5. route' # NoRoute => route'.target \in Workflows /\ PublishedIn(versions, route'.target)
  BY <1>1 DEF ReleaseInv
<1>6. clock' \in Nat
  BY <1>1 DEF ReleaseInv
<1>7. QED
  BY <1>1, <1>4, <1>5, <1>6, RouteMoves

LEMMA FinishExecutionKeeps ==
    ASSUME ReleaseInv, FinishExecution
    PROVE  ReleaseInv'
<1>1. PICK x \in executions, outcome \in {"completed", "failed", "canceled"} :
        /\ executions' = (executions \ {x}) \cup {[x EXCEPT !.status = outcome]}
        /\ UNCHANGED <<calls, demos, versions, reports, reviews, learned, released, route, clock>>
  BY DEF FinishExecution, rest, registry, routing
<1> DEFINE y == [x EXCEPT !.status = outcome]
<1>2. /\ x = [id |-> x.id, wf |-> x.wf, number |-> x.number, loadedAs |-> x.loadedAs,
              status |-> x.status]
      /\ x.loadedAs = "published"
  BY DEF ReleaseInv, ExecutionsSound
<1>3. y = [id |-> x.id, wf |-> x.wf, number |-> x.number, loadedAs |-> x.loadedAs,
           status |-> outcome]
  BY <1>2
<1>4. executions' = (executions \ {x}) \cup {y}
  BY <1>1
<1> HIDE DEF y
<1>5. /\ y = [id |-> y.id, wf |-> y.wf, number |-> y.number, loadedAs |-> y.loadedAs,
              status |-> y.status]
      /\ y.loadedAs = "published"
  BY <1>2, <1>3
<1>6. ExecutionsSound'
  BY <1>4, <1>5 DEF ReleaseInv, ExecutionsSound
<1>7. route' # NoRoute => route'.target \in Workflows /\ PublishedIn(versions, route'.target)
  BY <1>1 DEF ReleaseInv
<1>8. clock' \in Nat
  BY <1>1 DEF ReleaseInv
<1>9. QED
  BY <1>1, <1>6, <1>7, <1>8, RouteMoves

-----------------------------------------------------------------------------
\* The invariant

\* The first rows of a script are candidates that were learned from nothing.
LEMMA FirstRow ==
    ASSUME NEW s, NEW w, NEW n \in Numbers
    PROVE  LET row == FirstRows(s, w)[n] IN
           /\ IsRow(row) /\ row.status \in {"none", "candidate"} /\ row.doc.traces = <<>>
           /\ n <= s.candidates[w] => row.status = "candidate" /\ Candidate(row.doc) = row.doc
<1> DEFINE row == FirstRows(s, w)[n]
           t == <<w, n>>
           d == [NoDoc EXCEPT !.token = t]
           doc == [d EXCEPT !.status = "candidate"]
<1> HIDE DEF t
<1>1. IsDoc(d) /\ d.traces = <<>>
  <2>1. IsDoc(NoDoc) /\ NoDoc.traces = <<>>
    BY StartsFresh
  <2>2. QED
    BY <2>1, EditDocument
<1> HIDE DEF d
<1>2. IsDoc(doc) /\ doc.traces = <<>> /\ doc.status = "candidate" /\ Candidate(doc) = doc
  BY <1>1, WithStatus DEF Candidate
<1>3. row = IF n <= s.candidates[w] THEN [status |-> "candidate", doc |-> doc] ELSE NoRow
  BY DEF FirstRows, d, t
<1> HIDE DEF doc, row
<1>4. CASE n <= s.candidates[w]
  BY <1>2, <1>3, <1>4 DEF IsRow, row
<1>5. CASE ~(n <= s.candidates[w])
  <2>1. row = NoRow
    BY <1>3, <1>5
  <2>2. NoRow = [status |-> "none", doc |-> NoDoc]
    BY DEF NoRow
  <2>3. QED
    BY <1>5, <2>1, <2>2, StartsFresh DEF IsRow, row
<1>6. QED
  BY <1>4, <1>5

LEMMA InitHolds ==
    ASSUME Init PROVE ReleaseInv
<1> USE DEF Init
<1>1. DOMAIN versions = Workflows /\ \A w \in Workflows : versions[w] = FirstRows(script, w)
  OBVIOUS
<1>2. \A w \in Workflows : DOMAIN versions[w] = Numbers
  BY <1>1 DEF FirstRows
<1>3. ASSUME NEW w \in Workflows, NEW n \in Numbers
      PROVE  /\ IsRow(versions[w][n]) /\ versions[w][n].status \in {"none", "candidate"}
             /\ versions[w][n].doc.traces = <<>>
             /\ n <= script.candidates[w] =>
                   /\ versions[w][n].status = "candidate"
                   /\ Candidate(versions[w][n].doc) = versions[w][n].doc
  BY <1>1, FirstRow
<1>4. VersionsSound(versions, demos)
  <2>1. VersionsShape(versions)
    BY <1>1, <1>2, <1>3 DEF VersionsShape
  <2>2. OnePublished(versions)
    BY <1>3 DEF OnePublished
  <2>3. \A w \in Workflows, n \in Numbers : Frozen(versions[w][n].doc.traces, demos)
    BY <1>3 DEF Frozen
  <2>4. QED
    BY <2>1, <2>2, <2>3 DEF VersionsSound
<1>5. ReviewsSound(reviews, versions)
  <2>1. ASSUME NEW r \in reviews
        PROVE  /\ r.wf \in Workflows /\ r.number \in Numbers /\ r.number <= script.candidates[r.wf]
               /\ r.digest = versions[r.wf][r.number].doc
    <3>1. PICK x \in Workflows \X Numbers :
             /\ x[2] <= script.candidates[x[1]]
             /\ r = [id |-> 0, wf |-> x[1], number |-> x[2],
                     digest |-> Digest(FirstRows(script, x[1])[x[2]].doc),
                     suite |-> "required", verdict |-> "approved", at |-> 0]
      BY DEF FirstRecords
    <3>2. x[1] \in Workflows /\ x[2] \in Numbers
      BY <3>1
    <3>3. /\ r.wf = x[1] /\ r.number = x[2]
          /\ r.digest = FirstRows(script, x[1])[x[2]].doc
      BY <3>1 DEF Digest
    <3>4. QED
      BY <1>1, <3>1, <3>2, <3>3
  <2>2. QED
    BY <1>3, <2>1 DEF ReviewsSound
<1>6. CallsSound
  BY NoCallSound DEF CallsSound
<1>7. DemosSound(demos)
  <2>1. script.demos \in [Demos -> {"none", "recording", "completed"}]
    BY ReleaseAssumption DEF Script
  <2>2. <<>> \in Seq(EventType) /\ TraceOrdered(<<>>)
    BY DEF TraceOrdered
  <2>3. QED
    BY <2>1, <2>2 DEF DemosSound, Demonstration
<1>8. QED
  BY <1>4, <1>5, <1>6, <1>7
     DEF ReleaseInv, LearnedSound, PublishedOnEvidence, ExecutionsSound, NoRoute

LEMMA StepKeeps ==
    ASSUME ReleaseInv, [Next]_vars PROVE ReleaseInv'
<1>1. ASSUME NEW c \in Callers, LearnStep(c) PROVE ReleaseInv'
  BY <1>1, LearnKeeps, ImproveKeeps, ListDemosKeeps, ListVersionsKeeps, ExtractKeeps,
     StoreCandidateKeeps DEF LearnStep
<1>2. ASSUME NEW c \in Callers, ReleaseStep(c) PROVE ReleaseInv'
  BY <1>2, EvaluateKeeps, ReviewKeeps, PublishKeeps, SaveReportKeeps, SaveReviewKeeps,
     ListReportsKeeps, ListReviewsKeeps, StorePublicationKeeps DEF ReleaseStep
<1>3. ASSUME NEW c \in Callers, RouteStep(c) PROVE ReleaseInv'
  <2>1. CASE ReadRoute(c)
    BY <2>1, CallEnds DEF ReadRoute, Begin, rest, registry, running
  <2>2. CASE LoadPublished(c, "load_target", "save_route")
    BY <2>2, LoadPublishedKeeps
  <2>3. QED
    BY <1>3, <2>1, <2>2, SaveRouteKeeps, StoreRouteKeeps, DeleteRouteKeeps DEF RouteStep
<1>4. ASSUME NEW c \in Callers, ExecuteStep(c) PROVE ReleaseInv'
  <2>1. CASE SaveFeedback(c)
    BY <2>1, CallEnds DEF SaveFeedback, End, Continue, rest, registry, routing
  <2>2. CASE LoadPublished(c, "load_version", "start")
    BY <2>2, LoadPublishedKeeps
  <2>3. QED
    BY <1>4, <2>1, <2>2, ExecutePublishedKeeps, ExecuteTaskKeeps, ResolveKeeps,
       StartExecutionKeeps, RecordFeedbackKeeps DEF ExecuteStep
<1>5. ASSUME NEW c \in Callers, Abandon(c) PROVE ReleaseInv'
  BY <1>5, CallEnds DEF Abandon, End, Continue, rest, registry, routing, running
<1>6. CASE Tick \/ ChangeContracts \/ UNCHANGED vars
  <2>1. UNCHANGED <<calls, demos, versions, reports, reviews, learned, released, route, executions>>
    BY <1>6 DEF Tick, ChangeContracts, vars, rest, registry, routing, running
  <2>2. clock' \in Nat
    BY <1>6 DEF Tick, ChangeContracts, vars, rest, ReleaseInv
  <2>3. ExecutionsSound'
    BY <2>1 DEF ReleaseInv, ExecutionsSound
  <2>4. route' # NoRoute => route'.target \in Workflows /\ PublishedIn(versions, route'.target)
    BY <2>1 DEF ReleaseInv
  <2>5. QED
    BY <2>1, <2>2, <2>3, <2>4, RouteMoves
<1>7. QED
  BY <1>1, <1>2, <1>3, <1>4, <1>5, <1>6, DemoStepKeeps, FinishExecutionKeeps DEF Next

LEMMA InvariantHolds == Spec => []ReleaseInv
BY InitHolds, StepKeeps, PTL DEF Spec

-----------------------------------------------------------------------------
\* Theorems

(* What Publisher.Publish publishes has a passing report and an approving  *)
(* review of the exact document, and no record it was given contradicts    *)
(* them, whatever is saved, reviewed and published as it goes from store   *)
(* to store.                                                               *)
THEOREM PublicationsHaveEvidence == Spec => []PublishedOnEvidence
<1>1. ReleaseInv => PublishedOnEvidence
  BY DEF ReleaseInv
<1>2. QED
  BY <1>1, InvariantHolds, PTL

(* A stored route leads to a workflow with exactly one published version,  *)
(* and no execution starts from a version that was not the published one   *)
(* as its document was read, over either backend and any number of         *)
(* callers.                                                                *)
THEOREM TasksHaveTarget == Spec => []TasksReachPublished
<1>1. ReleaseInv => TasksReachPublished
  <2> SUFFICES ASSUME ReleaseInv PROVE TasksReachPublished
    OBVIOUS
  <2>1. \A w \in Workflows, m, n \in Numbers : m \in Published(w) /\ n \in Published(w) => m = n
    BY DEF ReleaseInv, VersionsSound, OnePublished, Published
  <2>2. route # NoRoute => Published(route.target) # {}
    BY DEF ReleaseInv, PublishedIn, Published
  <2>3. ExecutesWhatIsPublished
    BY DEF ReleaseInv, ExecutionsSound, ExecutesWhatIsPublished
  <2>4. QED
    BY <2>1, <2>2, <2>3 DEF TasksReachPublished, RouteTargetsPublished
<1>2. QED
  BY <1>1, InvariantHolds, PTL

(* The demonstrations a version was learned from stay as the compiler read *)
(* them, traces hold every event once, in order, and a candidate whose     *)
(* caller was told it is stored keeps its number, however captures,        *)
(* compilations and publications interleave.                               *)
THEOREM WhatWasLearnedIsKept == Spec => []LearningKept
<1>1. ReleaseInv => LearningKept
  <2> SUFFICES ASSUME ReleaseInv PROVE LearningKept
    OBVIOUS
  <2>1. SourcesFrozen
    BY DEF ReleaseInv, VersionsSound, Frozen, SourcesFrozen
  <2>2. TracesOrdered
    BY DEF ReleaseInv, DemosSound, TraceOrdered, TracesOrdered
  <2>3. LearnedKept
    BY DEF ReleaseInv, LearnedSound, LearnedKept
  <2>4. QED
    BY <2>1, <2>2, <2>3 DEF LearningKept
<1>2. QED
  BY <1>1, InvariantHolds, PTL

-----------------------------------------------------------------------------
(* Contracts and references                                                *)

(* Contracts are documents of finite height, so what is said of them       *)
(* recursively has one meaning (RecursionExists), and what is claimed of   *)
(* them is proved by induction on the height of the contract.              *)

LEMMA PartsAreDocuments ==
    ASSUME NEW s \in Schemas
    PROVE  /\ Height(s) \in Nat
           /\ \A child \in SubSchemas(s) : child \in Schemas /\ Height(child) < Height(s)
BY ContractsAssumption

LEMMA CheckedParts ==
    ASSUME NEW s \in Schemas, NEW v \in Values, s.type \in {Untyped, v.kind}
    PROVE  \A part \in Checked(s, v) :
              /\ part \in Schemas \X Values /\ part = <<part[1], part[2]>>
              /\ part[1] \in SubSchemas(s) /\ Height(part[1]) < Height(s)
<1>1. \A child \in SubSchemas(s) : child \in Schemas /\ Height(child) < Height(s)
  BY PartsAreDocuments
<1>2. (\A n \in DOMAIN v.fields : v.fields[n] \in Values) /\ (\A k \in DOMAIN v.items : v.items[k] \in Values)
  BY ContractsAssumption
<1>3. \A part \in Checked(s, v) :
         \E child \in SubSchemas(s), w \in Values : part = <<child, w>>
  BY <1>2 DEF Checked, SubSchemas
<1>4. QED
  BY <1>1, <1>3

HeightOf == [p \in Schemas \X Values |-> Height(p[1])]

LEMMA HeightsAreNumbers ==
    /\ HeightOf \in [Schemas \X Values -> Nat]
    /\ \A s \in Schemas, v \in Values : HeightOf[<<s, v>>] = Height(s)
<1>1. \A p \in Schemas \X Values : p[1] \in Schemas
  OBVIOUS
<1>2. QED
  BY <1>1, PartsAreDocuments DEF HeightOf

\* The body of validateContractValue, over any answer for the parts.
Accepts(f, s, v) ==
    \/ s = NoSchema
    \/ /\ s.enum = {} \/ v \in s.enum
       /\ s.type \in {Untyped, v.kind}
       /\ s.type = "object" =>
             /\ s.required \subseteq DOMAIN v.fields
             /\ s.closed => DOMAIN v.fields \subseteq DOMAIN s.properties
       /\ \A part \in Checked(s, v) : f[part]

LEMMA AcceptedIs ==
    \A s \in Schemas, v \in Values :
        ValidateContractValue(s, v) <=> Accepts(AcceptedValue, s, v)
<1> DEFINE D == Schemas \X Values
           F == [f \in [D -> BOOLEAN] |-> [p \in D |-> Accepts(f, p[1], p[2])]]
<1>1. F \in [[D -> BOOLEAN] -> [D -> BOOLEAN]]
  <2>1. \A f \in [D -> BOOLEAN] : \A p \in D : Accepts(f, p[1], p[2]) \in BOOLEAN
    BY DEF Accepts
  <2> HIDE DEF D
  <2>2. QED
    BY <2>1
<1>2. Descends(F, D, BOOLEAN, HeightOf)
  <2> SUFFICES ASSUME NEW f \in [D -> BOOLEAN], NEW g \in [D -> BOOLEAN], NEW p \in D,
                      \A q \in D : HeightOf[q] < HeightOf[p] => f[q] = g[q]
               PROVE  F[f][p] = F[g][p]
    BY DEF Descends
  <2>1. p[1] \in Schemas /\ p[2] \in Values /\ HeightOf[p] = Height(p[1])
    BY DEF HeightOf
  <2>2. ASSUME p[1].type \in {Untyped, p[2].kind}, NEW part \in Checked(p[1], p[2])
        PROVE  f[part] = g[part]
    <3>1. part \in D /\ HeightOf[part] < HeightOf[p]
      BY <2>1, <2>2, CheckedParts DEF HeightOf
    <3>2. QED
      BY <3>1
  <2>3. Accepts(f, p[1], p[2]) <=> Accepts(g, p[1], p[2])
    BY <2>2 DEF Accepts
  <2>4. F[f] = [x \in D |-> Accepts(f, x[1], x[2])] /\ F[g] = [x \in D |-> Accepts(g, x[1], x[2])]
    <3> HIDE DEF D
    <3>1. QED
      BY Zenon
  <2>5. (Accepts(f, p[1], p[2]) \in BOOLEAN) /\ (Accepts(g, p[1], p[2]) \in BOOLEAN)
    BY DEF Accepts
  <2>6. Accepts(f, p[1], p[2]) = Accepts(g, p[1], p[2])
    <3> HIDE DEF F, D
    <3>1. QED
      BY <2>3, <2>5
  <2>7. QED
    <3> HIDE DEF F, D
    <3>1. QED
      BY <2>4, <2>6
<1>3. PICK v \in [D -> BOOLEAN] : Solves(v, F)
  <2> HIDE DEF F, D
  <2>1. BOOLEAN # {}
    OBVIOUS
  <2>2. HeightOf \in [D -> Nat]
    BY HeightsAreNumbers DEF D
  <2>3. \E v \in [D -> BOOLEAN] : Solves(v, F)
    BY ONLY <2>1, <2>2, <1>1, <1>2, RecursionExists
  <2>4. QED
    BY <2>3
<1>4. v = [p \in D |-> Accepts(v, p[1], p[2])]
  BY <1>3 DEF Solves
<1>5. AcceptedValue = [p \in D |-> Accepts(AcceptedValue, p[1], p[2])]
  BY <1>4, Zenon DEF AcceptedValue, Accepts
<1>6. QED
  BY <1>5 DEF ValidateContractValue

\* The body of Conforming, over any answer for the parts.
Fits(f, s, v) ==
    /\ s.type # Untyped => v.kind = s.type
    /\ s.enum # {} => v \in s.enum
    /\ v.kind = "object" =>
          /\ \A n \in s.required : n \in DOMAIN v.fields
          /\ \A n \in DOMAIN v.fields \cap DOMAIN s.properties :
                f[<<s.properties[n], v.fields[n]>>]
          /\ \A n \in DOMAIN v.fields \ DOMAIN s.properties :
                ~s.closed /\ \A child \in s.additional : f[<<child, v.fields[n]>>]
    /\ v.kind = "array" =>
          \A k \in DOMAIN v.items, child \in s.items : f[<<child, v.items[k]>>]

LEMMA ConformsIs ==
    \A s \in Schemas, v \in Values : Conforms(s, v) <=> Fits(Conforming, s, v)
<1> DEFINE D == Schemas \X Values
           F == [f \in [D -> BOOLEAN] |-> [p \in D |-> Fits(f, p[1], p[2])]]
<1>1. F \in [[D -> BOOLEAN] -> [D -> BOOLEAN]]
  <2>1. \A f \in [D -> BOOLEAN] : \A p \in D : Fits(f, p[1], p[2]) \in BOOLEAN
    BY DEF Fits
  <2> HIDE DEF D
  <2>2. QED
    BY <2>1
<1>2. Descends(F, D, BOOLEAN, HeightOf)
  <2> SUFFICES ASSUME NEW f \in [D -> BOOLEAN], NEW g \in [D -> BOOLEAN], NEW p \in D,
                      \A q \in D : HeightOf[q] < HeightOf[p] => f[q] = g[q]
               PROVE  F[f][p] = F[g][p]
    BY DEF Descends
  <2> DEFINE s == p[1]
             v == p[2]
  <2>1. s \in Schemas /\ v \in Values /\ HeightOf[p] = Height(s)
    BY DEF HeightOf
  <2>2. \A child \in SubSchemas(s), w \in Values : f[<<child, w>>] = g[<<child, w>>]
    <3> SUFFICES ASSUME NEW child \in SubSchemas(s), NEW w \in Values
                 PROVE  f[<<child, w>>] = g[<<child, w>>]
      OBVIOUS
    <3>1. <<child, w>> \in D /\ HeightOf[<<child, w>>] < HeightOf[p]
      BY <2>1, PartsAreDocuments DEF HeightOf
    <3>2. QED
      BY <3>1
  <2>3. /\ \A n \in DOMAIN v.fields : v.fields[n] \in Values
        /\ \A k \in DOMAIN v.items : v.items[k] \in Values
    BY <2>1, ContractsAssumption
  <2>4. /\ \A n \in DOMAIN s.properties : s.properties[n] \in SubSchemas(s)
        /\ s.additional \subseteq SubSchemas(s) /\ s.items \subseteq SubSchemas(s)
    BY DEF SubSchemas
  <2>5. Fits(f, s, v) <=> Fits(g, s, v)
    <3> HIDE DEF s, v, D
    <3>1. QED
      BY <2>2, <2>3, <2>4 DEF Fits
  <2>6. F[f] = [x \in D |-> Fits(f, x[1], x[2])] /\ F[g] = [x \in D |-> Fits(g, x[1], x[2])]
    <3> HIDE DEF D
    <3>1. QED
      BY Zenon
  <2>7. (Fits(f, s, v) \in BOOLEAN) /\ (Fits(g, s, v) \in BOOLEAN)
    BY DEF Fits
  <2>8. Fits(f, s, v) = Fits(g, s, v)
    <3> HIDE DEF F, D
    <3>1. QED
      BY <2>5, <2>7
  <2>9. QED
    <3> HIDE DEF F, D
    <3>1. QED
      BY <2>6, <2>8
<1>3. PICK v \in [D -> BOOLEAN] : Solves(v, F)
  <2> HIDE DEF F, D
  <2>1. BOOLEAN # {}
    OBVIOUS
  <2>2. HeightOf \in [D -> Nat]
    BY HeightsAreNumbers DEF D
  <2>3. \E v \in [D -> BOOLEAN] : Solves(v, F)
    BY ONLY <2>1, <2>2, <1>1, <1>2, RecursionExists
  <2>4. QED
    BY <2>3
<1>4. v = [p \in D |-> Fits(v, p[1], p[2])]
  BY <1>3 DEF Solves
<1> DEFINE Eq(f) == [p \in Schemas \X Values |-> Fits(f, p[1], p[2])]
<1>5. Conforming = [p \in D |-> Fits(Conforming, p[1], p[2])]
  <2>1. Conforming = CHOOSE f : f = Eq(f)
    BY Zenon DEF Conforming, Fits
  <2>2. v = Eq(v)
    BY <1>4
  <2> HIDE DEF Eq
  <2>3. Conforming = Eq(Conforming)
    BY <2>1, <2>2
  <2>4. QED
    BY <2>3 DEF Eq
<1>6. QED
  BY <1>5 DEF Conforms

\* The body of Typed, over any answer for the parts.
NamesType(f, s) ==
    /\ s.type = Untyped => [s EXCEPT !.enum = {}] = NoSchema
    /\ \A child \in SubSchemas(s) : f[child]

LEMMA TypedIs == \A s \in Schemas : Typed(s) <=> NamesType(TypedSchema, s)
<1> DEFINE m == [s \in Schemas |-> Height(s)]
           F == [f \in [Schemas -> BOOLEAN] |-> [s \in Schemas |-> NamesType(f, s)]]
<1>1. F \in [[Schemas -> BOOLEAN] -> [Schemas -> BOOLEAN]]
  <2>1. \A f \in [Schemas -> BOOLEAN] : \A s \in Schemas : NamesType(f, s) \in BOOLEAN
    BY DEF NamesType
  <2>2. QED
    BY <2>1
<1>2. m \in [Schemas -> Nat]
  BY PartsAreDocuments
<1>3. Descends(F, Schemas, BOOLEAN, m)
  <2> SUFFICES ASSUME NEW f \in [Schemas -> BOOLEAN], NEW g \in [Schemas -> BOOLEAN],
                      NEW s \in Schemas, \A q \in Schemas : m[q] < m[s] => f[q] = g[q]
               PROVE  F[f][s] = F[g][s]
    BY DEF Descends
  <2>1. \A child \in SubSchemas(s) : f[child] = g[child]
    <3> SUFFICES ASSUME NEW child \in SubSchemas(s) PROVE f[child] = g[child]
      OBVIOUS
    <3>1. child \in Schemas /\ m[child] < m[s]
      BY PartsAreDocuments
    <3>2. QED
      BY <3>1
  <2>2. NamesType(f, s) <=> NamesType(g, s)
    BY <2>1 DEF NamesType
  <2>3. F[f] = [x \in Schemas |-> NamesType(f, x)] /\ F[g] = [x \in Schemas |-> NamesType(g, x)]
    BY Zenon
  <2>4. (NamesType(f, s) \in BOOLEAN) /\ (NamesType(g, s) \in BOOLEAN)
    BY DEF NamesType
  <2>5. NamesType(f, s) = NamesType(g, s)
    <3> HIDE DEF F
    <3>1. QED
      BY <2>2, <2>4
  <2>6. QED
    <3> HIDE DEF F
    <3>1. QED
      BY <2>3, <2>5
<1>4. PICK v \in [Schemas -> BOOLEAN] : Solves(v, F)
  <2> HIDE DEF F, m
  <2>1. BOOLEAN # {}
    OBVIOUS
  <2>2. \E v \in [Schemas -> BOOLEAN] : Solves(v, F)
    BY ONLY <2>1, <1>1, <1>2, <1>3, RecursionExists
  <2>3. QED
    BY <2>2
<1>5. v = [s \in Schemas |-> NamesType(v, s)]
  BY <1>4 DEF Solves
<1>6. TypedSchema = [s \in Schemas |-> NamesType(TypedSchema, s)]
  BY <1>5, Zenon DEF TypedSchema, NamesType
<1>7. QED
  BY <1>6 DEF Typed

\* An untyped part of a typed contract declares nothing but its values.
LEMMA UntypedSaysNothing ==
    ASSUME NEW s, [s EXCEPT !.enum = {}] = NoSchema
    PROVE  /\ s.properties = <<>> /\ s.required = {} /\ s.additional = {}
           /\ s.closed = FALSE /\ s.items = {} /\ s.type = Untyped
BY DEF NoSchema

\* What validateContractValue accepts conforms, when every part names its type.
LEMMA AcceptedConforms ==
    \A s \in Schemas, v \in Values : Typed(s) /\ ValidateContractValue(s, v) => Conforms(s, v)
<1> DEFINE D == Schemas \X Values
           Good(s, v) == Typed(s) /\ ValidateContractValue(s, v) => Conforms(s, v)
           T == {p \in D : Good(p[1], p[2])}
<1>1. ASSUME NEW p \in D, \A q \in D : HeightOf[q] < HeightOf[p] => q \in T
      PROVE  p \in T
  <2> DEFINE s == p[1]
             v == p[2]
  <2>1. s \in Schemas /\ v \in Values /\ HeightOf[p] = Height(s)
    BY DEF HeightOf
  <2>2. ASSUME NEW child \in SubSchemas(s), NEW w \in Values
        PROVE  Good(child, w)
    <3>1. <<child, w>> \in D /\ HeightOf[<<child, w>>] < HeightOf[p]
      BY <2>1, PartsAreDocuments DEF HeightOf
    <3>2. <<child, w>> \in T
      BY <3>1, <1>1
    <3>3. QED
      BY <3>2
  <2>3. /\ \A n \in DOMAIN v.fields : v.fields[n] \in Values
        /\ \A k \in DOMAIN v.items : v.items[k] \in Values
    BY <2>1, ContractsAssumption
  <2>4. /\ \A n \in DOMAIN s.properties : s.properties[n] \in SubSchemas(s)
        /\ s.additional \subseteq SubSchemas(s) /\ s.items \subseteq SubSchemas(s)
    BY DEF SubSchemas
  <2> HIDE DEF s, v, T, D
  <2>5. ASSUME Typed(s), ValidateContractValue(s, v)
        PROVE  Fits(Conforming, s, v)
    <3>1. NamesType(TypedSchema, s) /\ Accepts(AcceptedValue, s, v)
      BY <2>1, <2>5, TypedIs, AcceptedIs
    <3>2. ASSUME NEW child \in SubSchemas(s), NEW w \in Values, <<child, w>> \in Checked(s, v),
                 s # NoSchema
          PROVE  Conforming[<<child, w>>]
      <4>1. Typed(child)
        BY <3>1 DEF NamesType, Typed
      <4>2. ValidateContractValue(child, w)
        BY <3>1, <3>2 DEF Accepts, ValidateContractValue
      <4>3. QED
        BY <4>1, <4>2, <2>2 DEF Conforms
    <3>3. CASE s = NoSchema
      BY <3>3 DEF NoSchema, Fits
    <3>4. CASE s # NoSchema /\ s.type = Untyped
      <4>1. [s EXCEPT !.enum = {}] = NoSchema
        BY <3>1, <3>4 DEF NamesType
      <4>2. /\ s.properties = <<>> /\ s.required = {} /\ s.additional = {}
            /\ s.closed = FALSE /\ s.items = {}
        BY <4>1, UntypedSaysNothing
      <4>3. s.enum # {} => v \in s.enum
        BY <3>1, <3>4 DEF Accepts
      <4>4. QED
        BY <4>2, <4>3, <3>4 DEF Fits
    <3>5. CASE s # NoSchema /\ s.type # Untyped
      <4>1. s.type = v.kind /\ (s.enum # {} => v \in s.enum)
        BY <3>1, <3>5 DEF Accepts
      <4>2. CASE s.type = "object"
        <5>1. \A n \in DOMAIN v.fields :
                 IF n \in DOMAIN s.properties
                 THEN <<s.properties[n], v.fields[n]>> \in Checked(s, v)
                 ELSE \A child \in s.additional : <<child, v.fields[n]>> \in Checked(s, v)
          BY <4>2 DEF Checked
        <5>2. s.required \subseteq DOMAIN v.fields /\ (s.closed => DOMAIN v.fields \subseteq DOMAIN s.properties)
          BY <3>1, <3>5, <4>2 DEF Accepts
        <5>3. \A n \in DOMAIN v.fields :
                 IF n \in DOMAIN s.properties THEN Conforming[<<s.properties[n], v.fields[n]>>]
                 ELSE ~s.closed /\ \A child \in s.additional : Conforming[<<child, v.fields[n]>>]
          BY <5>1, <5>2, <3>2, <3>5, <2>3, <2>4
        <5>4. QED
          BY <4>1, <4>2, <5>2, <5>3 DEF Fits
      <4>3. CASE s.type = "array"
        <5>1. \A k \in DOMAIN v.items, child \in s.items : <<child, v.items[k]>> \in Checked(s, v)
          BY <4>3 DEF Checked
        <5>2. \A k \in DOMAIN v.items, child \in s.items : Conforming[<<child, v.items[k]>>]
          BY <5>1, <3>2, <3>5, <2>3, <2>4
        <5>3. QED
          BY <4>1, <4>3, <5>2 DEF Fits
      <4>4. CASE s.type \notin {"object", "array"}
        BY <4>1, <4>4 DEF Fits
      <4>5. QED
        BY <4>2, <4>3, <4>4
    <3>6. QED
      BY <3>3, <3>4, <3>5
  <2>6. Good(s, v)
    BY <2>1, <2>5, ConformsIs
  <2>7. QED
    BY <2>6 DEF T, s, v
<1>2. HeightOf \in [D -> Nat]
  BY HeightsAreNumbers
<1>3. D \subseteq T
  <2> HIDE DEF T, D
  <2>1. QED
    BY ONLY <1>1, <1>2, MeasureInduction
<1>4. QED
  <2> SUFFICES ASSUME NEW s \in Schemas, NEW v \in Values PROVE Good(s, v)
    OBVIOUS
  <2>1. <<s, v>> \in T
    BY <1>3
  <2>2. QED
    BY <2>1

LEMMA BelowIsContract ==
    ASSUME NEW s \in Schemas, NEW segment
    PROVE  Below(s, segment) \subseteq Schemas
BY PartsAreDocuments DEF Below, SubSchemas

LEMMA MemberIsValue ==
    ASSUME NEW v \in Values, NEW segment
    PROVE  Member(v, segment) \subseteq Values
BY ContractsAssumption DEF Member


\* run is what SchemaAt has found after each segment of the path.
LeadsDown(run, start, path) ==
    /\ run[0] = {start} /\ run[Len(path)] = SchemaAt(start, path)
    /\ \A k \in 1..Len(path) : run[k] = UNION {Below(f, path[k]) : f \in run[k - 1]}

LEMMA ContractStages ==
    ASSUME NEW start \in Schemas, NEW S, NEW path \in Seq(S)
    PROVE  \E run \in [0..Len(path) -> SUBSET Schemas] : LeadsDown(run, start, path)
<1> DEFINE n == Len(path)
           D == SUBSET Schemas
           Then(X, k) == UNION {Below(f, path[k]) : f \in X}
           Eq(f) == [s \in SUBSET (1..n) |->
                       IF s = {} THEN {start} ELSE Then(f[s \ {Max(s)}], Max(s))]
           iter == CHOOSE f : f = Eq(f)
           F == [k \in 1..n |-> [X \in D |-> Then(X, k)]]
<1>1. SchemaAt(start, path) = iter[1..n]
  <2>1. DOMAIN path = 1..n
    OBVIOUS
  <2>2. QED
    BY <2>1, Zenon DEF SchemaAt, FoldLeft, MapThenFoldSet
<1>2. n \in Nat /\ {start} \in D
  OBVIOUS
<1>3. \A X \in D : \A k \in 1..n : Then(X, k) \in D
  BY BelowIsContract
<1> HIDE DEF D, Then, n
<1>4. iter = Eq(iter)
  <2>1. F \in [1..n -> [D -> D]]
    BY <1>3
  <2>2. PICK g \in [SUBSET (1..n) -> D] : IsFold(g, n, {start}, F)
    <3> HIDE DEF F
    <3>1. QED
      BY ONLY <2>1, <1>2, FoldExists
  <2>3. \A s \in SUBSET (1..n) : s # {} => Max(s) \in 1..n /\ s \ {Max(s)} \in SUBSET (1..n)
    BY <1>2, GreatestExists
  <2>4. g = Eq(g)
    BY <2>2, <2>3 DEF IsFold
  <2>5. QED
    BY <2>4
<1>5. \A k \in 1..n : iter[1..k] = Then(iter[1..k - 1], k)
  <2> SUFFICES ASSUME NEW k \in 1..n PROVE iter[1..k] = Then(iter[1..k - 1], k)
    OBVIOUS
  <2> HIDE DEF iter
  <2>1. iter[1..k] = Eq(iter)[1..k]
    BY <1>4
  <2>2. 1..k \in SUBSET (1..n) /\ 1..k # {} /\ Max(1..k) = k /\ (1..k) \ {Max(1..k)} = 1..k - 1
    <3>1. k \in Nat \ {0} /\ 1..k \in SUBSET (1..n)
      BY <1>2
    <3>2. QED
      BY ONLY <3>1, GreatestOfInterval
  <2>3. QED
    BY <2>1, <2>2
<1>6. iter[1..0] = {start}
  <2> HIDE DEF iter
  <2>1. 1..0 = {}
    OBVIOUS
  <2>2. QED
    BY <1>4, <2>1
<1>7. \A k \in 0..n : iter[1..k] \in D
  <2> DEFINE T == {k \in 0..n : iter[1..k] \in D}
  <2> HIDE DEF iter
  <2>1. 0 \in T
    <3>1. 0 \in 0..n
      BY <1>2
    <3>2. QED
      BY <1>2, <1>6, <3>1
  <2>2. \A k \in 0..n - 1 : k \in T => k + 1 \in T
    <3> SUFFICES ASSUME NEW k \in 0..n - 1, iter[1..k] \in D PROVE k + 1 \in T
      OBVIOUS
    <3>1. k + 1 \in 1..n /\ (k + 1) - 1 = k
      BY <1>2
    <3>2. iter[1..k + 1] = Then(iter[1..k], k + 1)
      BY <1>5, <3>1
    <3>3. QED
      BY <1>3, <3>1, <3>2
  <2>3. 0..n \subseteq T
    <3> HIDE DEF T
    <3>1. QED
      BY ONLY <2>1, <2>2, <1>2, SetInduction
  <2>4. QED
    BY <2>3
<1>8. QED
  <2> DEFINE run == [k \in 0..n |-> iter[1..k]]
  <2> HIDE DEF iter
  <2>1. run \in [0..n -> D]
    BY <1>7
  <2>2. run[0] = {start} /\ run[n] = SchemaAt(start, path)
    BY <1>1, <1>2, <1>6
  <2>3. \A k \in 1..n : run[k] = Then(run[k - 1], k)
    <3>1. \A k \in 1..n : k \in 0..n /\ k - 1 \in 0..n
      BY <1>2
    <3>2. QED
      BY <1>5, <3>1
  <2> HIDE DEF run
  <2>4. LeadsDown(run, start, path)
    BY <2>2, <2>3 DEF LeadsDown, Then, n
  <2>5. QED
    BY <2>1, <2>4 DEF D, n


\* run is what ValueAt has found after each segment of the path.
LeadsIn(run, start, path) ==
    /\ run[0] = {start} /\ run[Len(path)] = ValueAt(start, path)
    /\ \A k \in 1..Len(path) : run[k] = UNION {Member(f, path[k]) : f \in run[k - 1]}

LEMMA ValueStages ==
    ASSUME NEW start \in Values, NEW S, NEW path \in Seq(S)
    PROVE  \E run \in [0..Len(path) -> SUBSET Values] : LeadsIn(run, start, path)
<1> DEFINE n == Len(path)
           D == SUBSET Values
           Then(X, k) == UNION {Member(f, path[k]) : f \in X}
           Eq(f) == [s \in SUBSET (1..n) |->
                       IF s = {} THEN {start} ELSE Then(f[s \ {Max(s)}], Max(s))]
           iter == CHOOSE f : f = Eq(f)
           F == [k \in 1..n |-> [X \in D |-> Then(X, k)]]
<1>1. ValueAt(start, path) = iter[1..n]
  <2>1. DOMAIN path = 1..n
    OBVIOUS
  <2>2. QED
    BY <2>1, Zenon DEF ValueAt, FoldLeft, MapThenFoldSet
<1>2. n \in Nat /\ {start} \in D
  OBVIOUS
<1>3. \A X \in D : \A k \in 1..n : Then(X, k) \in D
  BY MemberIsValue
<1> HIDE DEF D, Then, n
<1>4. iter = Eq(iter)
  <2>1. F \in [1..n -> [D -> D]]
    BY <1>3
  <2>2. PICK g \in [SUBSET (1..n) -> D] : IsFold(g, n, {start}, F)
    <3> HIDE DEF F
    <3>1. QED
      BY ONLY <2>1, <1>2, FoldExists
  <2>3. \A s \in SUBSET (1..n) : s # {} => Max(s) \in 1..n /\ s \ {Max(s)} \in SUBSET (1..n)
    BY <1>2, GreatestExists
  <2>4. g = Eq(g)
    BY <2>2, <2>3 DEF IsFold
  <2>5. QED
    BY <2>4
<1>5. \A k \in 1..n : iter[1..k] = Then(iter[1..k - 1], k)
  <2> SUFFICES ASSUME NEW k \in 1..n PROVE iter[1..k] = Then(iter[1..k - 1], k)
    OBVIOUS
  <2> HIDE DEF iter
  <2>1. iter[1..k] = Eq(iter)[1..k]
    BY <1>4
  <2>2. 1..k \in SUBSET (1..n) /\ 1..k # {} /\ Max(1..k) = k /\ (1..k) \ {Max(1..k)} = 1..k - 1
    <3>1. k \in Nat \ {0} /\ 1..k \in SUBSET (1..n)
      BY <1>2
    <3>2. QED
      BY ONLY <3>1, GreatestOfInterval
  <2>3. QED
    BY <2>1, <2>2
<1>6. iter[1..0] = {start}
  <2> HIDE DEF iter
  <2>1. 1..0 = {}
    OBVIOUS
  <2>2. QED
    BY <1>4, <2>1
<1>7. \A k \in 0..n : iter[1..k] \in D
  <2> DEFINE T == {k \in 0..n : iter[1..k] \in D}
  <2> HIDE DEF iter
  <2>1. 0 \in T
    <3>1. 0 \in 0..n
      BY <1>2
    <3>2. QED
      BY <1>2, <1>6, <3>1
  <2>2. \A k \in 0..n - 1 : k \in T => k + 1 \in T
    <3> SUFFICES ASSUME NEW k \in 0..n - 1, iter[1..k] \in D PROVE k + 1 \in T
      OBVIOUS
    <3>1. k + 1 \in 1..n /\ (k + 1) - 1 = k
      BY <1>2
    <3>2. iter[1..k + 1] = Then(iter[1..k], k + 1)
      BY <1>5, <3>1
    <3>3. QED
      BY <1>3, <3>1, <3>2
  <2>3. 0..n \subseteq T
    <3> HIDE DEF T
    <3>1. QED
      BY ONLY <2>1, <2>2, <1>2, SetInduction
  <2>4. QED
    BY <2>3
<1>8. QED
  <2> DEFINE run == [k \in 0..n |-> iter[1..k]]
  <2> HIDE DEF iter
  <2>1. run \in [0..n -> D]
    BY <1>7
  <2>2. run[0] = {start} /\ run[n] = ValueAt(start, path)
    BY <1>1, <1>2, <1>6
  <2>3. \A k \in 1..n : run[k] = Then(run[k - 1], k)
    <3>1. \A k \in 1..n : k \in 0..n /\ k - 1 \in 0..n
      BY <1>2
    <3>2. QED
      BY <1>5, <3>1
  <2> HIDE DEF run
  <2>4. LeadsIn(run, start, path)
    BY <2>2, <2>3 DEF LeadsIn, Then, n
  <2>5. QED
    BY <2>1, <2>4 DEF D, n

\* One segment leads from an accepted value to one its sub-schema has accepted.
LEMMA SegmentKeepsAcceptance ==
    ASSUME NEW s \in Schemas, NEW v \in Values, NEW segment,
           Typed(s), ValidateContractValue(s, v),
           NEW child \in Below(s, segment), NEW w \in Member(v, segment)
    PROVE  Typed(child) /\ ValidateContractValue(child, w)
<1>1. NamesType(TypedSchema, s) /\ Accepts(AcceptedValue, s, v)
  BY TypedIs, AcceptedIs
<1>2. child \in SubSchemas(s)
  BY DEF Below, SubSchemas
<1>3. s # NoSchema
  BY DEF Below, NoSchema, Untyped
<1>4. s.type # Untyped
  <2> SUFFICES ASSUME s.type = Untyped PROVE FALSE
    OBVIOUS
  <2>1. s.properties = <<>> /\ s.additional = {}
    BY <1>1, UntypedSaysNothing DEF NamesType
  <2>2. QED
    BY <2>1 DEF Below, Untyped
<1>5. s.type = v.kind
  BY <1>1, <1>3, <1>4 DEF Accepts
<1>6. <<child, w>> \in Checked(s, v)
  BY <1>5 DEF Checked, Below, Member
<1>7. QED
  BY <1>1, <1>2, <1>3, <1>6 DEF Accepts, NamesType, Typed, ValidateContractValue

\* The same path leads into a contract and into the value it accepts, to a
\* part of the one that has accepted the part of the other.
LEMMA PathKeepsAcceptance ==
    ASSUME NEW s \in Schemas, NEW v \in Values, NEW S, NEW path \in Seq(S),
           Typed(s), ValidateContractValue(s, v),
           NEW child \in SchemaAt(s, path), NEW w \in ValueAt(v, path)
    PROVE  Conforms(child, w)
<1> DEFINE n == Len(path)
<1>1. PICK down \in [0..n -> SUBSET Schemas] : LeadsDown(down, s, path)
  BY ContractStages
<1>2. PICK in \in [0..n -> SUBSET Values] : LeadsIn(in, v, path)
  BY ValueStages
<1> DEFINE Good(k) == \A c \in down[k], x \in in[k] : Typed(c) /\ ValidateContractValue(c, x)
           T == {k \in 0..n : Good(k)}
<1>3. n \in Nat
  OBVIOUS
<1> HIDE DEF n
<1>4. 0 \in T
  BY <1>1, <1>2, <1>3 DEF LeadsDown, LeadsIn
<1>5. \A k \in 0..n - 1 : k \in T => k + 1 \in T
  <2> SUFFICES ASSUME NEW k \in 0..n - 1, k \in T PROVE k + 1 \in T
    OBVIOUS
  <2>1. k + 1 \in 1..n /\ k + 1 \in 0..n /\ (k + 1) - 1 = k /\ k \in 0..n
    BY <1>3
  <2> SUFFICES ASSUME NEW c \in down[k + 1], NEW x \in in[k + 1]
               PROVE  Typed(c) /\ ValidateContractValue(c, x)
    BY <2>1
  <2>2. PICK above \in down[k] : c \in Below(above, path[k + 1])
    BY <1>1, <2>1 DEF LeadsDown, n
  <2>3. PICK outer \in in[k] : x \in Member(outer, path[k + 1])
    BY <1>2, <2>1 DEF LeadsIn, n
  <2>4. above \in Schemas /\ outer \in Values
    BY <2>1
  <2>5. Typed(above) /\ ValidateContractValue(above, outer)
    OBVIOUS
  <2>6. QED
    BY ONLY <2>2, <2>3, <2>4, <2>5, SegmentKeepsAcceptance
<1>6. 0..n \subseteq T
  <2> HIDE DEF T
  <2>1. QED
    BY ONLY <1>3, <1>4, <1>5, SetInduction
<1>7. n \in T
  BY <1>3, <1>6
<1>8. child \in down[n] /\ w \in in[n]
  BY <1>1, <1>2 DEF LeadsDown, LeadsIn, n
<1>9. Typed(child) /\ ValidateContractValue(child, w) /\ child \in Schemas /\ w \in Values
  BY <1>3, <1>7, <1>8
<1>10. QED
  BY <1>9, AcceptedConforms

-----------------------------------------------------------------------------
(* A run that has passed the preflight keeps what the preflight has seen,   *)
(* and every output in its state is of a step it has been through and       *)
(* accepted by that step's contract.                                        *)

Preflighted == Validate(job.version) /\ ValidateReferences(job.version) /\ ValidateInputs(job)

OutputsAccepted ==
    \A k \in DOMAIN state :
        /\ k \in 1..next - 1 /\ k \in DOMAIN job.version.steps
        /\ state[k] \in Values /\ ValidateContractValue(job.version.steps[k].output, state[k])

ContractsInv ==
    /\ job.version \in Versions /\ job.input \in Inputs /\ job.context \in Contexts
    /\ next \in Nat \ {0}
    /\ status \notin {"new", "rejected"} => Preflighted
    /\ OutputsAccepted
    /\ \A ref \in missing : Head(ref) = "steps"

LEMMA VersionShape ==
    ASSUME NEW version \in Versions
    PROVE  /\ version.inputSchema \in Schemas /\ version.contextSchema \in Schemas
           /\ version.steps \in Seq(Range(version.steps))
           /\ DOMAIN version.steps = 1..Len(version.steps) /\ Len(version.steps) \in Nat
           /\ \A k \in DOMAIN version.steps :
                 /\ version.steps[k].output \in Schemas
                 /\ \A ref \in References(version.steps[k]) : ref \in Seq(Range(ref)) /\ ref # <<>>
<1>1. version.steps \in Seq(Range(version.steps))
  BY ContractsAssumption
<1>2. DOMAIN version.steps = 1..Len(version.steps) /\ Len(version.steps) \in Nat
  BY <1>1
<1>3. \A k \in DOMAIN version.steps : version.steps[k] \in Range(version.steps)
  BY DEF Range
<1>4. \A k \in DOMAIN version.steps : version.steps[k].output \in Schemas
  BY <1>3, ContractsAssumption
<1>5. \A k \in DOMAIN version.steps : \A ref \in References(version.steps[k]) : ref \in Seq(Range(ref))
  BY <1>3, ContractsAssumption
<1>6. \A k \in DOMAIN version.steps : \A ref \in References(version.steps[k]) : ref # <<>>
  BY DEF References
<1>7. QED
  BY <1>1, <1>2, <1>4, <1>5, <1>6, ContractsAssumption

\* What the preflight has seen of a reference of the step that is next.
LEMMA SeenByPreflight ==
    ASSUME ContractsInv, next \in DOMAIN job.version.steps, status \notin {"new", "rejected"},
           NEW ref \in References(Step)
    PROVE  /\ Head(ref) \in {"input", "context", "steps"}
           /\ Head(ref) \in {"input", "context"} => ResolveRef(ref) # {}
<1>1. ValidateReference(job.version, next, ref)
  BY DEF ContractsInv, Preflighted, ValidateReferences, Step
<1>2. /\ Head(ref) = "input" => ValueAt(job.input, Tail(ref)) # {}
      /\ Head(ref) = "context" => ValueAt(job.context, Tail(ref)) # {}
  BY DEF ContractsInv, Preflighted, ValidateInputs, Step
<1>3. Head(ref) \in {"input", "context", "steps"}
  BY <1>1 DEF ValidateReference
<1>4. QED
  BY <1>2, <1>3 DEF ResolveRef

LEMMA AbsentAreOutputs ==
    ASSUME ContractsInv, next \in DOMAIN job.version.steps, status \notin {"new", "rejected"}
    PROVE  \A ref \in Absent : Head(ref) = "steps"
<1> SUFFICES ASSUME NEW x \in Step.arguments \cup Step.key, ResolveValue(x) = {}
             PROVE  Head(x.ref) = "steps"
  BY DEF Absent
<1>1. x.ref # <<>> /\ ResolveRef(x.ref) = {}
  BY DEF ResolveValue
<1>2. x.ref \in References(Step)
  BY <1>1 DEF References, ReferencedValues
<1>3. QED
  BY <1>1, <1>2, SeenByPreflight

LEMMA ContractsInvStarts == ContractsInit => ContractsInv
BY DEF ContractsInit, ContractsStart, ContractsInv, OutputsAccepted

LEMMA ContractsInvKept == ContractsInv /\ [ContractsNext]_contractVars => ContractsInv'
<1> SUFFICES ASSUME ContractsInv, [ContractsNext]_contractVars PROVE ContractsInv'
  OBVIOUS
<1> USE DEF contractVars
<1>1. CASE UNCHANGED contractVars
  BY <1>1 DEF ContractsInv, OutputsAccepted, Preflighted, ValidateInputs
<1>2. CASE Preflight
  BY <1>2 DEF Preflight, ContractsInv, OutputsAccepted, Preflighted, ValidateInputs
<1>3. ASSUME Running, Advance, state' = state
      PROVE  ContractsInv'
  BY <1>3 DEF Running, Advance, ContractsInv, OutputsAccepted, Preflighted, ValidateInputs
<1>4. ASSUME status = "running", NEW refs, UNCHANGED <<job, state, next>>,
             missing' \in {missing, refs}, \A ref \in refs : Head(ref) = "steps",
             status' \notin {"new", "rejected"}
      PROVE  ContractsInv'
  BY <1>4 DEF ContractsInv, OutputsAccepted, Preflighted, ValidateInputs
<1>5. CASE SkipStep
  BY <1>5, <1>3 DEF SkipStep
<1>6. CASE ConditionFails
  BY <1>6, <1>4 DEF ConditionFails, Fail, Running
<1>7. CASE StepPasses
  BY <1>7, <1>3 DEF StepPasses, Due
<1>8. CASE ArgumentMissing
  <2>1. \A ref \in Absent : Head(ref) = "steps"
    BY <1>8, AbsentAreOutputs DEF ArgumentMissing, Due, Running
  <2>2. QED
    BY <1>8, <2>1, <1>4 DEF ArgumentMissing, Fail, Due, Running
<1>9. ASSUME NEW output \in Results, CallTool(output)
      PROVE  ContractsInv'
  <2>1. Running
    BY <1>9 DEF CallTool, Due
  <2>2. CASE ValidateContractValue(Step.output, output)
    <3>1. /\ Advance
          /\ state' = [k \in DOMAIN state \cup {next} |-> IF k = next THEN output ELSE state[k]]
      BY <1>9, <2>2 DEF CallTool
    <3>2. output \in Values
      BY ContractsAssumption
    <3>3. OutputsAccepted'
      BY <3>1, <3>2, <2>1, <2>2 DEF ContractsInv, OutputsAccepted, Advance, Running, Step
    <3>4. QED
      BY <3>1, <3>3, <2>1 DEF ContractsInv, Advance, Preflighted, ValidateInputs, Running
  <2>3. CASE ~ValidateContractValue(Step.output, output)
    BY <1>9, <2>1, <2>3, <1>4 DEF CallTool, Fail, Running
  <2>4. QED
    BY <2>2, <2>3
<1>10. CASE Complete
  BY <1>10, <1>4 DEF Complete
<1>11. QED
  BY <1>1, <1>2, <1>5, <1>6, <1>7, <1>8, <1>9, <1>10 DEF ContractsNext

LEMMA ContractsInvHolds == ContractsSpec => []ContractsInv
BY ContractsInvStarts, ContractsInvKept, PTL DEF ContractsSpec

\* Two steps of an accepted version with one id are one step.
LEMMA StepIdsUnique ==
    ASSUME NEW version \in Versions, Validate(version),
           NEW j \in DOMAIN version.steps, NEW k \in DOMAIN version.steps,
           version.steps[j].id = version.steps[k].id
    PROVE  j = k
<1>1. j \in Nat /\ k \in Nat /\ j >= 1 /\ k >= 1
  BY VersionShape
<1>2. j < k => j \in 1..k - 1
  BY <1>1
<1>3. k < j => k \in 1..j - 1
  BY <1>1
<1>4. QED
  BY <1>1, <1>2, <1>3 DEF Validate

LEMMA DeclaredWhenSound ==
    ASSUME ContractsInv
    PROVE  ResolvedAsDeclared
<1> SUFFICES ASSUME Running, NEW ref \in References(Step), NEW c \in Contract(ref), Typed(c[1]),
                    NEW v \in ResolveRef(ref), NEW s \in SchemaAt(c[1], c[2])
             PROVE  Conforms(s, v)
  BY DEF ResolvedAsDeclared
<1> DEFINE version == job.version
<1>1. version \in Versions /\ next \in DOMAIN version.steps /\ Preflighted
  BY DEF ContractsInv, Running
<1>2. ref \in Seq(Range(ref)) /\ ref # <<>>
  BY <1>1, VersionShape DEF Step
<1>3. version.inputSchema \in Schemas /\ version.contextSchema \in Schemas
  BY <1>1, VersionShape
<1>4. job.input \in Values /\ job.context \in Values
  BY ContractsAssumption DEF ContractsInv
<1>5. Tail(ref) \in Seq(Range(ref))
  BY <1>2
<1>6. CASE Head(ref) = "input"
  <2>1. c[1] = version.inputSchema /\ c[2] = Tail(ref) /\ v \in ValueAt(job.input, Tail(ref))
    BY <1>6 DEF Contract, ResolveRef
  <2>2. ValidateContractValue(version.inputSchema, job.input)
    BY <1>1 DEF Preflighted, ValidateInputs
  <2>3. QED
    BY <1>3, <1>4, <1>5, <2>1, <2>2, PathKeepsAcceptance
<1>7. CASE Head(ref) = "context"
  <2>1. c[1] = version.contextSchema /\ c[2] = Tail(ref) /\ v \in ValueAt(job.context, Tail(ref))
    BY <1>7 DEF Contract, ResolveRef
  <2>2. ValidateContractValue(version.contextSchema, job.context)
    BY <1>1 DEF Preflighted, ValidateInputs
  <2>3. QED
    BY <1>3, <1>4, <1>5, <2>1, <2>2, PathKeepsAcceptance
<1>8. CASE Head(ref) = "steps"
  <2> DEFINE path == SubSeq(ref, 4, Len(ref))
  <2>1. PICK j \in 1..next - 1 :
           version.steps[j].id = ref[2] /\ c = <<version.steps[j].output, path>>
    BY <1>8 DEF Contract
  <2>2. Len(ref) > 2
    BY <1>8 DEF ResolveRef
  <2>3. PICK k \in DOMAIN state : version.steps[k].id = ref[2] /\ v \in ValueAt(state[k], path)
    BY <1>8, <2>2 DEF ResolveRef
  <2>4. /\ k \in DOMAIN version.steps /\ state[k] \in Values
        /\ ValidateContractValue(version.steps[k].output, state[k])
    BY DEF ContractsInv, OutputsAccepted
  <2>5. j \in DOMAIN version.steps
    BY <1>1, VersionShape
  <2>6. j = k
    BY <1>1, <2>1, <2>3, <2>4, <2>5, StepIdsUnique DEF Preflighted
  <2>7. path \in Seq(Range(ref))
    BY <1>2, <2>2
  <2>8. version.steps[k].output \in Schemas
    BY <1>1, <2>4, VersionShape
  <2>9. c[1] = version.steps[k].output /\ c[2] = path
    BY <2>1, <2>6
  <2> HIDE DEF path, version
  <2>10. QED
    BY <2>3, <2>4, <2>7, <2>8, <2>9, PathKeepsAcceptance
<1>9. QED
  BY <1>1, <1>6, <1>7, <1>8, SeenByPreflight DEF Running

(* Every reference to the task's input or context that a step resolves is  *)
(* there, and whatever a reference finds has the shape its contract        *)
(* declares at that place, whatever the workflow, its contracts, the       *)
(* inputs and the results of the tools.                                    *)
THEOREM ContractsAreSound == ContractsSpec => []ContractsSound
<1>1. ContractsInv => ContractsSound
  <2> SUFFICES ASSUME ContractsInv PROVE ContractsSound
    OBVIOUS
  <2>1. Running => \A ref \in References(Step) :
                      Head(ref) \in {"input", "context"} => ResolveRef(ref) # {}
    BY SeenByPreflight DEF Running
  <2>2. ExternalReferencesResolve
    BY <2>1 DEF ContractsInv, ExternalReferencesResolve
  <2>3. QED
    BY <2>2, DeclaredWhenSound DEF ContractsSound
<1>2. QED
  BY <1>1, ContractsInvHolds, PTL
====
