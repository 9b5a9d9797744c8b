--------------------------- MODULE ReleaseLifecycle ---------------------------
(***************************************************************************)
(* From a demonstration to an execution: observation.Recorder and its      *)
(* store, learning.Compiler, evaluation.Runner and Publisher, the version, *)
(* review, report, route and feedback stores, workflow.Resolver, and the   *)
(* automation.Lifecycle calls over them, for one tenant.                   *)
(*                                                                         *)
(* Every call is a sequence of store calls and nothing holds a lock over   *)
(* two of them.  One action is one store call and the local code around    *)
(* it; pc names the store call a caller makes next.  The stores are the    *)
(* memory ones or the SQLite ones: they differ in Published, which is two  *)
(* statements in SQLite, and in the document of a retired version.         *)
(*                                                                         *)
(* Records are only added: PurgeExpired is not there, which deletes        *)
(* demonstrations, feedback, reviews and reports (storage/sqlite/          *)
(* retention.go; its boundary is in TenantRecords).  The properties hold   *)
(* as long as the periods of a deployment outlast what cites a record.     *)
(***************************************************************************)
EXTENDS Integers, Sequences, FiniteSets

CONSTANTS
    Callers, Workflows, Demos, Events,
    MaxVersion, MaxClock, MaxRecords,  \* bounds: version numbers, time, ids
    MinDemos,       \* MultiDemoOptions.MinimumDemonstrations
    MinFeedback,    \* ImprovementRequest.MinimumFeedback
    MaxReportAge,   \* PublisherOptions.MaxReportAge, 0 for none
    NoWorkflow,
    Scripts         \* what is stored at first and who calls what: see Script

Operations == {"record", "learn", "improve", "evaluate", "review", "publish",
               "read_route", "route", "unroute", "execute", "feedback"}

Script == [backend : {"memory", "sqlite"},
           demos : [Demos -> {"none", "recording", "completed"}],
           candidates : [Workflows -> 0 .. MaxVersion],  \* versions stored at first
           vetted : BOOLEAN,   \* with a passing report and an approving review
           ops : [Callers -> SUBSET Operations],
           calls : [Callers -> Nat],                     \* calls each may make
           contracts : Nat]                              \* tool contract changes

ASSUME ReleaseAssumption ==
    /\ Scripts \subseteq Script
    /\ {MaxVersion, MaxClock, MaxRecords, MinDemos, MinFeedback, MaxReportAge} \subseteq Nat
    /\ NoWorkflow \notin Workflows

VARIABLES
    script, left,  \* chosen once; calls left to each caller
    clock,
    contracts,     \* the fingerprint of the referenced tools' contracts
    demos,         \* the demonstration store
    versions,      \* the version store: a row per number
    reports, reviews, feedback,    \* append-only stores
    route,         \* the route of the one task type
    executions,    \* checkpoints, with the stored status of the version as its
                   \* document was read
    calls,         \* the call of each caller
    seen,          \* the route each caller read last
    learned,       \* history: the candidates their callers know to be stored
    released       \* history: publications, and what was stored as they began

registry == <<versions, reports, reviews, learned, released>>
routing == <<route, seen>>
running == <<executions, feedback>>
rest == <<script, contracts, clock>>
vars == <<script, left, clock, contracts, demos, registry, routing, running, calls>>

Numbers == 1 .. MaxVersion
Ids == 1 .. MaxRecords

NoDoc == [token |-> <<>>, traces |-> <<>>, tools |-> 0, status |-> "none"]
NoRow == [status |-> "none", doc |-> NoDoc]
NoRoute == [target |-> NoWorkflow, revision |-> 0, token |-> <<>>]
NoCall == [pc |-> "idle", wf |-> NoWorkflow, number |-> 0, doc |-> NoDoc, demo |-> <<>>,
           event |-> <<>>, base |-> NoRoute, stored |-> "none", at |-> 0, known |-> <<{}, {}>>]

-------------------------------------------------------------------------------
(* Calls *)

Idle(c) == calls[c].pc = "idle"
At(c, pc) == calls[c].pc = pc
Self(c) == calls[c]
Token(c) == <<c, left[c]>>

Begin(c, op, call) ==
    /\ Idle(c) /\ left[c] > 0 /\ op \in script.ops[c]
    /\ left' = [left EXCEPT ![c] = @ - 1]
    /\ calls' = [calls EXCEPT ![c] = call]

Continue(c, call) == /\ calls' = [calls EXCEPT ![c] = call]
                     /\ UNCHANGED left

Goto(c, pc) == Continue(c, [Self(c) EXCEPT !.pc = pc])
End(c) == Continue(c, NoCall)

(* Goes on if the check passes, returns an error to the caller otherwise.  *)
Check(c, holds, call) == IF holds THEN Continue(c, call) ELSE End(c)

-------------------------------------------------------------------------------
(* Demonstrations *)

EventIds(trace) == {trace[i].id : i \in DOMAIN trace}

(* ValidateAppend; corrects is the id an event corrects, or its own id.    *)
ValidAppend(trace, event) ==
    /\ event.id \notin EventIds(trace)
    /\ event.corrects \in EventIds(trace) \cup {event.id}
    /\ trace = <<>> \/ trace[Len(trace)].at <= event.at

(* MemoryStore.Append and demonstrationStore.Append validate again, under  *)
(* the lock or in the transaction.                                         *)
Appended(demo, event) ==
    IF demo.status = "recording" /\ ValidAppend(demo.trace, event)
    THEN [demo EXCEPT !.trace = Append(@, event)]
    ELSE demo

Start(c, d) ==
    /\ demos[d].status = "none"
    /\ Begin(c, "record", NoCall)
    /\ demos' = [demos EXCEPT ![d].status = "recording"]
    /\ UNCHANGED <<rest, registry, routing, running>>

(* Capture reads the demonstration, stamps the event and validates it      *)
(* against what it has read.  An adapter chooses the id, and delivers an   *)
(* event again with the same one.                                          *)
Capture(c, d, id, corrects) ==
    LET event == [id |-> id, corrects |-> corrects, at |-> clock]
    IN  /\ Begin(c, "record",
                 IF demos[d].status = "recording" /\ ValidAppend(demos[d].trace, event)
                 THEN [NoCall EXCEPT !.pc = "append", !.demo = <<d>>, !.event = <<event>>]
                 ELSE NoCall)
        /\ UNCHANGED <<rest, demos, registry, routing, running>>

AppendEvent(c) ==
    /\ At(c, "append")
    /\ LET d == Self(c).demo[1]
       IN  demos' = [demos EXCEPT ![d] = Appended(@, Self(c).event[1])]
    /\ End(c)
    /\ UNCHANGED <<rest, registry, routing, running>>

CompleteDemo(c, d) ==
    /\ demos[d].status = "recording"
    /\ Begin(c, "record", NoCall)
    /\ demos' = [demos EXCEPT ![d].status = "completed"]
    /\ UNCHANGED <<rest, registry, routing, running>>

Completed == {d \in Demos : demos[d].status = "completed"}

-------------------------------------------------------------------------------
(* The version store *)

Stored(w) == {n \in Numbers : versions[w][n].status # "none"}
Published(w) == {n \in Numbers : versions[w][n].status = "published"}

Highest(S) == CHOOSE n \in S : \A m \in S : m <= n

\* prepare: the number after the last version.
NextNumber(w) == IF Stored(w) = {} THEN 1 ELSE Highest(Stored(w)) + 1

(* Get, loadWorkflow: the stored document under the stored status.         *)
LoadVersion(w, n) ==
    [versions[w][n].doc EXCEPT !.status = versions[w][n].status]

(* Digest covers the whole document, its status included.                  *)
Digest(doc) == doc

\* Mutant: an existing number is replaced.
SaveCandidateUpsert(w, n, doc) ==
    [versions EXCEPT ![w][n] = [status |-> "candidate", doc |-> doc]]

(* SaveCandidate inserts; an existing number is a conflict.                *)
SaveCandidate(w, n, doc) ==
    IF versions[w][n].status = "none"
    THEN [versions EXCEPT ![w][n] = [status |-> "candidate", doc |-> doc]]
    ELSE versions

(* Publish, in one critical section or transaction: retires what was       *)
(* published and publishes n.  SQLite leaves the document of a retired     *)
(* version as it was published.                                            *)
Retired(row) ==
    IF script.backend = "sqlite" THEN [row EXCEPT !.status = "retired"]
    ELSE [row EXCEPT !.status = "retired", !.doc.status = "retired"]

\* Mutant: only lower numbers are retired.
PublishVersionForward(w, n) ==
    [versions EXCEPT ![w] = [m \in Numbers |->
        CASE m = n -> [status |-> "published", doc |-> [@[n].doc EXCEPT !.status = "published"]]
          [] m < n /\ @[m].status = "published" -> Retired(@[m])
          [] OTHER -> @[m]]]

PublishVersion(w, n) ==
    [versions EXCEPT ![w] = [m \in Numbers |->
        CASE m = n -> [status |-> "published", doc |-> [@[n].doc EXCEPT !.status = "published"]]
          [] m # n /\ @[m].status = "published" -> Retired(@[m])
          [] OTHER -> @[m]]]

-------------------------------------------------------------------------------
(* Learn and ProposeImprovement *)

Labels(w, n) == {f \in feedback : f.wf = w /\ f.number = n}

\* AnalyzeFeedback: RequiresNewDemonstrations.
AskForChange(labels) == \E f \in labels : f.disposition # "accepted"

(* ProposeImprovement reads the base version and its feedback: enough of   *)
(* it, and some that asks for a change. The two reads are one step: nothing *)
(* here takes away the version or a label.                                 *)
Improve(c, w, n) ==
    /\ Begin(c, "improve",
             IF /\ versions[w][n].status # "none"
                /\ Cardinality(Labels(w, n)) >= MinFeedback
                /\ AskForChange(Labels(w, n))
             THEN [NoCall EXCEPT !.pc = "list_demos", !.wf = w, !.number = n]
             ELSE NoCall)
    /\ UNCHANGED <<rest, demos, registry, routing, running>>

Learn(c, w) ==
    /\ Begin(c, "learn", [NoCall EXCEPT !.pc = "list_demos", !.wf = w])
    /\ UNCHANGED <<rest, demos, registry, routing, running>>

\* CompileMultiple: what it does not refuse to learn from.
Learnable(ds) == Cardinality(ds) >= MinDemos

(* The completed demonstrations with their traces; an improvement needs    *)
(* one that its base version was not learned from.                         *)
ListDemos(c) ==
    LET call == Self(c)
        old == IF call.number = 0 THEN {}
               ELSE DOMAIN versions[call.wf][call.number].doc.traces
    IN  /\ At(c, "list_demos")
        /\ Check(c, /\ Learnable(Completed)
                    /\ call.number # 0 => Completed \ old # {},
                 [call EXCEPT !.pc = "list_versions",
                              !.doc.traces = [d \in Completed |-> demos[d].trace]])
        /\ UNCHANGED <<rest, demos, registry, routing, running>>

ListVersions(c) ==
    /\ At(c, "list_versions")
    /\ Check(c, NextNumber(Self(c).wf) <= MaxVersion,   \* bound
             [Self(c) EXCEPT !.pc = "extract", !.number = NextNumber(Self(c).wf)])
    /\ UNCHANGED <<rest, demos, registry, routing, running>>

(* Extract takes as long as a model does; then the contracts of the tools  *)
(* it refers to are fingerprinted.                                         *)
Extract(c) ==
    /\ At(c, "extract")
    /\ Continue(c, [Self(c) EXCEPT !.pc = "save_candidate", !.doc.tools = contracts,
                                   !.doc.token = Token(c), !.doc.status = "candidate"])
    /\ UNCHANGED <<rest, demos, registry, routing, running>>

StoreCandidate(c) ==
    LET call == Self(c)
    IN  /\ At(c, "save_candidate")
        /\ versions' = SaveCandidate(call.wf, call.number, call.doc)
        /\ learned' = IF versions' # versions
                      THEN learned \cup {<<call.wf, call.number, call.doc.token>>}
                      ELSE learned
        /\ End(c)
        /\ UNCHANGED <<rest, demos, reports, reviews, released, routing, running>>

-------------------------------------------------------------------------------
(* Evaluation, review and publication *)

Evaluate(c, w, n) ==
    /\ Begin(c, "evaluate",
             IF versions[w][n].status \in {"candidate", "published"}
             THEN [NoCall EXCEPT !.pc = "save_report", !.wf = w, !.number = n,
                                 !.doc = LoadVersion(w, n)]
             ELSE NoCall)
    /\ UNCHANGED <<rest, demos, registry, routing, running>>

\* evaluateNamedGates: the gates pass or fail, if there are any.
Verdicts == {"none", "passed", "failed"}

(* A report of the publisher's suite or of another.  Ids are random.       *)
SaveReport(c, id) ==
    LET call == Self(c)
    IN  /\ At(c, "save_report")
        /\ \A r \in reports : r.id # id
        /\ \E suite \in {"required", "other"}, gates \in Verdicts :
              reports' = reports \cup
                {[id |-> id, wf |-> call.wf, number |-> call.number, digest |-> Digest(call.doc),
                  suite |-> suite, verdict |-> gates, at |-> clock]}
        /\ End(c)
        /\ UNCHANGED <<rest, demos, versions, reviews, learned, released, routing, running>>

(* Lifecycle.Review stamps the review when it reads the candidate.         *)
Review(c, w, n) ==
    /\ Begin(c, "review",
             IF versions[w][n].status = "candidate"
             THEN [NoCall EXCEPT !.pc = "save_review", !.wf = w, !.number = n,
                                 !.doc = LoadVersion(w, n), !.at = clock]
             ELSE NoCall)
    /\ UNCHANGED <<rest, demos, registry, routing, running>>

SaveReview(c, id) ==
    LET call == Self(c)
    IN  /\ At(c, "save_review")
        /\ \A r \in reviews : r.id # id
        /\ \E decision \in {"approved", "rejected"} :
              reviews' = reviews \cup
                {[id |-> id, wf |-> call.wf, number |-> call.number, digest |-> Digest(call.doc),
                  suite |-> "required", verdict |-> decision, at |-> call.at]}
        /\ End(c)
        /\ UNCHANGED <<rest, demos, versions, reports, learned, released, routing, running>>

Later(q, r) == q.at > r.at \/ (q.at = r.at /\ q.id > r.id)

(* The records about version n of w that the publisher looks at.           *)
About(records, w, n) == {r \in records : r.wf = w /\ r.number = n}
SuiteReports(w, n) == {r \in About(reports, w, n) : r.suite = "required"}
ExactReviews(w, n, doc) == {r \in About(reviews, w, n) : r.digest = Digest(doc)}

\* Mutant: the first record is taken, the order of the loop is reversed.
IsFirst(r, records) == \A q \in records : ~Later(r, q)

IsLatest(r, records) == \A q \in records : ~Later(q, r)

Publish(c, w, n) ==
    LET doc == LoadVersion(w, n)
    IN  /\ Begin(c, "publish",
                 IF doc.status = "candidate" /\ doc.tools = contracts
                 THEN [NoCall EXCEPT !.pc = "list_reports", !.wf = w, !.number = n, !.doc = doc,
                                     !.known = <<About(reports, w, n), About(reviews, w, n)>>]
                 ELSE NoCall)
        /\ UNCHANGED <<rest, demos, registry, routing, running>>

ListReports(c) ==
    LET call == Self(c)
        found == SuiteReports(call.wf, call.number)
    IN  /\ At(c, "list_reports")
        /\ Check(c, \E r \in found : /\ IsLatest(r, found)
                                     /\ r.digest = Digest(call.doc)
                                     /\ r.verdict = "passed"
                                     /\ MaxReportAge > 0 => clock - r.at <= MaxReportAge,
                 [call EXCEPT !.pc = "list_reviews"])
        /\ UNCHANGED <<rest, demos, registry, routing, running>>

ListReviews(c) ==
    LET call == Self(c)
        found == ExactReviews(call.wf, call.number, call.doc)
    IN  /\ At(c, "list_reviews")
        /\ Check(c, \E r \in found : IsLatest(r, found) /\ r.verdict = "approved",
                 [call EXCEPT !.pc = "publish"])
        /\ UNCHANGED <<rest, demos, registry, routing, running>>

StorePublication(c) ==
    LET call == Self(c)
    IN  /\ At(c, "publish")
        /\ IF versions[call.wf][call.number].status = "candidate"
           THEN /\ versions' = PublishVersion(call.wf, call.number)
                /\ released' = released \cup {[wf |-> call.wf, number |-> call.number,
                                               doc |-> call.doc, known |-> call.known]}
           ELSE UNCHANGED <<versions, released>>
        /\ End(c)
        /\ UNCHANGED <<rest, demos, reports, reviews, learned, routing, running>>

-------------------------------------------------------------------------------
(* Routes, resolution and execution *)

(* Store.Published for a call that goes on at pc.  SQLite selects the      *)
(* number in one statement and loads the row in the next.                  *)
SelectPublished(call, load, pc) ==
    IF Published(call.wf) = {} THEN NoCall
    ELSE LET n == Highest(Published(call.wf))
         IN  IF script.backend = "sqlite" THEN [call EXCEPT !.pc = load, !.number = n]
             ELSE [call EXCEPT !.pc = pc, !.number = n, !.doc = LoadVersion(call.wf, n),
                               !.stored = "published"]

LoadPublished(c, load, pc) ==
    /\ At(c, load)
    /\ LET call == Self(c)
       IN  Continue(c, [call EXCEPT !.pc = pc, !.doc = LoadVersion(call.wf, call.number),
                                    !.stored = versions[call.wf][call.number].status])
    /\ UNCHANGED <<rest, demos, registry, routing, running>>

ReadRoute(c) ==
    /\ Begin(c, "read_route", NoCall)
    /\ seen' = [seen EXCEPT ![c] = route]
    /\ UNCHANGED <<rest, demos, registry, route, running>>

(* Lifecycle.SaveRoute, with the revision of the route the caller has      *)
(* read: zero to create one.                                               *)
SaveRoute(c, w) ==
    /\ Begin(c, "route",
             SelectPublished([NoCall EXCEPT !.wf = w, !.base = seen[c]], "load_target", "save_route"))
    /\ UNCHANGED <<rest, demos, registry, routing, running>>

(* The revision the caller passes must be the stored one, 0 standing for   *)
(* no route.                                                               *)
RevisionMatches(base) == base.revision = route.revision

StoreRoute(c) ==
    LET call == Self(c)
    IN  /\ At(c, "save_route")
        /\ IF RevisionMatches(call.base)
           THEN /\ route' = [target |-> call.wf, revision |-> route.revision + 1,
                             token |-> Token(c)]
                /\ seen' = [seen EXCEPT ![c] = route']
           ELSE UNCHANGED routing
        /\ End(c)
        /\ UNCHANGED <<rest, demos, registry, running>>

(* Lifecycle.DeleteRoute reads the route for its audit event, then deletes *)
(* by the revision of its caller.                                          *)
DeleteRoute(c) ==
    /\ seen[c].revision > 0
    /\ Begin(c, "unroute",
             IF route # NoRoute THEN [NoCall EXCEPT !.pc = "delete_route", !.base = seen[c]]
             ELSE NoCall)
    /\ UNCHANGED <<rest, demos, registry, routing, running>>

RemoveRoute(c) ==
    /\ At(c, "delete_route")
    /\ IF RevisionMatches(Self(c).base)
       THEN /\ route' = NoRoute
            /\ seen' = [seen EXCEPT ![c] = NoRoute]
       ELSE UNCHANGED routing
    /\ End(c)
    /\ UNCHANGED <<rest, demos, registry, running>>

(* ExecuteTask resolves the task's route; ExecutePublished and a request   *)
(* that names the workflow begin at w.                                     *)
ExecuteTask(c) ==
    /\ Begin(c, "execute",
             IF route = NoRoute THEN NoCall
             ELSE [NoCall EXCEPT !.pc = "resolve", !.wf = route.target])
    /\ UNCHANGED <<rest, demos, registry, routing, running>>

ExecutePublished(c, w) ==
    /\ Begin(c, "execute", SelectPublished([NoCall EXCEPT !.wf = w], "load_version", "start"))
    /\ UNCHANGED <<rest, demos, registry, routing, running>>

Resolve(c) ==
    /\ At(c, "resolve")
    /\ Continue(c, SelectPublished(Self(c), "load_version", "start"))
    /\ UNCHANGED <<rest, demos, registry, routing, running>>

(* Executor.Execute: its own checks, then the first checkpoint.            *)
StartExecution(c) ==
    LET call == Self(c)
    IN  /\ At(c, "start")
        /\ executions' = IF call.doc.status = "published" /\ call.doc.tools = contracts
                         THEN executions \cup {[id |-> Token(c), wf |-> call.wf, number |-> call.number,
                                                loadedAs |-> call.stored, status |-> "running"]}
                         ELSE executions
        /\ End(c)
        /\ UNCHANGED <<rest, demos, registry, routing, feedback>>

(* What the executor makes of it: see WorkflowExecutor.                    *)
FinishExecution ==
    \E x \in executions, status \in {"completed", "failed", "canceled"} :
        /\ x.status = "running"
        /\ executions' = (executions \ {x}) \cup {[x EXCEPT !.status = status]}
        /\ UNCHANGED <<rest, left, calls, demos, registry, routing, feedback>>

Dispositions(status) ==
    CASE status = "completed" -> {"accepted", "correction", "unsafe"}
      [] status \in {"failed", "canceled"} -> {"failure", "correction", "unsafe"}
      [] OTHER -> {}

(* Lifecycle.RecordFeedback labels a terminal checkpoint.                  *)
RecordFeedback(c) ==
    \E x \in executions, d \in {"accepted", "correction", "failure", "unsafe"} :
        /\ Begin(c, "feedback",
                 IF d \in Dispositions(x.status)
                 THEN [NoCall EXCEPT !.pc = "save_feedback",
                          !.event = <<[id |-> Token(c), execution |-> x.id, wf |-> x.wf,
                                       number |-> x.number, disposition |-> d]>>]
                 ELSE NoCall)
        /\ UNCHANGED <<rest, demos, registry, routing, running>>

SaveFeedback(c) ==
    /\ At(c, "save_feedback")
    /\ feedback' = feedback \cup {Self(c).event[1]}
    /\ End(c)
    /\ UNCHANGED <<rest, demos, registry, routing, executions>>

-------------------------------------------------------------------------------
(* The environment *)

Tick ==
    /\ clock < MaxClock
    /\ clock' = clock + 1
    /\ UNCHANGED <<script, contracts, left, calls, demos, registry, routing, running>>

(* A release of the application with other tool contracts.                 *)
ChangeContracts ==
    /\ contracts < script.contracts
    /\ contracts' = contracts + 1
    /\ UNCHANGED <<script, clock, left, calls, demos, registry, routing, running>>

(* A call is canceled, a store call fails or the process dies: the caller  *)
(* goes no further.                                                        *)
Abandon(c) ==
    /\ ~Idle(c)
    /\ End(c)
    /\ UNCHANGED <<rest, demos, registry, routing, running>>

-------------------------------------------------------------------------------
FirstRows(s, w) ==
    [n \in Numbers |-> IF n <= s.candidates[w]
                       THEN [status |-> "candidate",
                             doc |-> [NoDoc EXCEPT !.token = <<w, n>>, !.status = "candidate"]]
                       ELSE NoRow]

(* A record about each first candidate, older than any of this behavior.   *)
FirstRecords(s, verdict) ==
    IF ~s.vetted THEN {}
    ELSE {[id |-> 0, wf |-> x[1], number |-> x[2],
           digest |-> Digest(FirstRows(s, x[1])[x[2]].doc),
           suite |-> "required", verdict |-> verdict, at |-> 0] :
             x \in {y \in Workflows \X Numbers : y[2] <= s.candidates[y[1]]}}

Init ==
    /\ script \in Scripts
    /\ left = script.calls
    /\ clock = 0 /\ contracts = 0
    /\ demos = [d \in Demos |-> [status |-> script.demos[d], trace |-> <<>>]]
    /\ versions = [w \in Workflows |-> FirstRows(script, w)]
    /\ reports = FirstRecords(script, "passed")
    /\ reviews = FirstRecords(script, "approved")
    /\ feedback = {} /\ executions = {}
    /\ route = NoRoute
    /\ seen = [c \in Callers |-> NoRoute]
    /\ calls = [c \in Callers |-> NoCall]
    /\ learned = {} /\ released = {}

DemoStep(c) ==
    \/ \E d \in Demos : Start(c, d) \/ CompleteDemo(c, d)
    \/ \E d \in Demos, id, corrects \in Events : Capture(c, d, id, corrects)
    \/ AppendEvent(c)

LearnStep(c) ==
    \/ \E w \in Workflows : Learn(c, w)
    \/ \E w \in Workflows, n \in Numbers : Improve(c, w, n)
    \/ ListDemos(c) \/ ListVersions(c) \/ Extract(c) \/ StoreCandidate(c)

ReleaseStep(c) ==
    \/ \E w \in Workflows, n \in Numbers : Evaluate(c, w, n) \/ Review(c, w, n) \/ Publish(c, w, n)
    \/ \E id \in Ids : SaveReport(c, id) \/ SaveReview(c, id)
    \/ ListReports(c) \/ ListReviews(c) \/ StorePublication(c)

RouteStep(c) ==
    \/ \E w \in Workflows : SaveRoute(c, w)
    \/ ReadRoute(c) \/ StoreRoute(c) \/ DeleteRoute(c) \/ RemoveRoute(c)
    \/ LoadPublished(c, "load_target", "save_route")

ExecuteStep(c) ==
    \/ \E w \in Workflows : ExecutePublished(c, w)
    \/ ExecuteTask(c) \/ Resolve(c) \/ LoadPublished(c, "load_version", "start")
    \/ StartExecution(c) \/ RecordFeedback(c) \/ SaveFeedback(c)

Next ==
    \/ \E c \in Callers : \/ DemoStep(c) \/ LearnStep(c) \/ ReleaseStep(c)
                          \/ RouteStep(c) \/ ExecuteStep(c) \/ Abandon(c)
    \/ FinishExecution \/ Tick \/ ChangeContracts

Spec == Init /\ [][Next]_vars

-------------------------------------------------------------------------------
(* Properties *)

(* A publication rests on evidence no known record contradicts: for each   *)
(* published version there is a passing report of the required suite and   *)
(* an approving review, both of the exact document, and none of the        *)
(* records stored before the call began is a later one that says           *)
(* otherwise, whatever was saved while Publisher.Publish went from store   *)
(* to store.                                                               *)
PublishedOnEvidence ==
    \A p \in released :
        /\ \E r \in SuiteReports(p.wf, p.number) :
              /\ r.verdict = "passed" /\ r.digest = p.doc
              /\ \A q \in p.known[1] : q.suite = "required" => ~Later(q, r)
        /\ \E r \in ExactReviews(p.wf, p.number, p.doc) :
              /\ r.verdict = "approved"
              /\ \A q \in p.known[2] : ~Later(q, r)

(* A stored route leads to a workflow with exactly one published version,  *)
(* although SaveRoute checks the target in one store and saves in another  *)
(* and publications go on in between.                                      *)
RouteTargetsPublished ==
    /\ \A w \in Workflows, m, n \in Numbers :
          m \in Published(w) /\ n \in Published(w) => m = n
    /\ route # NoRoute => Published(route.target) # {}

(* An execution starts only from a version that was the published one when *)
(* its document was read, even when a publication retires it between the   *)
(* two statements of the SQLite Published.                                 *)
ExecutesWhatIsPublished == \A x \in executions : x.loadedAs = "published"

(* Both: whatever is published meanwhile, a task reaches a published one.  *)
TasksReachPublished == RouteTargetsPublished /\ ExecutesWhatIsPublished

(* What a candidate was learned from stays what it was: the demonstrations *)
(* it cites are complete and their traces are those the compiler read,     *)
(* although captures are checked in one store call and appended in         *)
(* another.                                                                *)
SourcesFrozen ==
    \A w \in Workflows, n \in Numbers :
        LET traces == versions[w][n].doc.traces
        IN  \A d \in DOMAIN traces : demos[d].status = "completed" /\ demos[d].trace = traces[d]

(* Concurrent and repeated deliveries leave a trace in which every event   *)
(* occurs once, in time order, and corrects an earlier one or none.        *)
TracesOrdered ==
    \A d \in Demos :
        LET trace == demos[d].trace
        IN  \A i \in DOMAIN trace :
              /\ ValidAppend(SubSeq(trace, 1, i - 1), trace[i])

(* A candidate whose caller was told it is stored is never replaced by     *)
(* another that was given the same number.                                 *)
LearnedKept ==
    \A l \in learned : versions[l[1]][l[2]].doc.token = l[3]

(* All three: what was recorded is what was learned, and what was learned  *)
(* is kept.                                                                *)
LearningKept == SourcesFrozen /\ TracesOrdered /\ LearnedKept

(* resolver.go:65 and docs/WORKFLOWS.md:116: Resolve returns only the      *)
(* currently published version.                                            *)
ResolvesPublished ==
    \A c \in Callers : At(c, "start") => Self(c).doc.status = "published"

(* docs/WORKFLOWS.md:149: updating or deleting requires the latest         *)
(* revision; a writer that has not seen the stored route is refused.       *)
StaleRouteWriterRefused ==
    [][\A c \in Callers :
          route' # route /\ calls[c].pc \in {"save_route", "delete_route"} /\ calls'[c] = NoCall
              => calls[c].base = route]_vars
===============================================================================
