-------------------------- MODULE EvaluationRunner --------------------------
(* The three evaluation runners: the workflow runner, which replays a       *)
(* version over fixtures one scenario after another (evaluation/runner.go), *)
(* and the agent and the extractor runners, which hand the scenarios of a   *)
(* suite to a pool of goroutines (agent.go, extractor.go); what they count, *)
(* the gates on it (gates.go), and the report they return.                  *)
(*                                                                          *)
(* What an executor answers is a record: how it ended (error, status), the  *)
(* tool calls or candidate steps in order, the permission prompts, the tool *)
(* errors, and whether it reported its model usage. A step without a tool   *)
(* has tool NoTool. Arguments are a set of <<path, value>>; an empty object *)
(* is a path with the value EmptyObject. A set of at most one element is an *)
(* expectation that may be left out. Ids, names and digests are left out.   *)
EXTENDS Integers, Sequences, FiniteSets, SequencesExt, FiniteSetsExt

CONSTANTS
    Suites,             \* [kind, scenarios, gates, stored]: what may be run
    Pool,               \* the goroutines
    Replies(_),         \* what an executor of a kind may answer
    Consequential,      \* tools whose descriptor is consequential
    NoTool, EmptyObject

(* Arguments give a path one value; a step without a tool has none.         *)
IsArguments(args) ==
    /\ IsFiniteSet(args)
    /\ \A x, y \in args : x = <<x[1], x[2]>> /\ (x[1] = y[1] => x = y)
IsSteps(steps) ==
    /\ steps \in Seq(Range(steps))
    /\ \A step \in Range(steps) : IsArguments(step.args) /\ (step.tool = NoTool => step.args = {})

ASSUME EvaluationAssumption ==
    /\ \A s \in Suites :
          /\ s.kind \in {"workflow", "agent", "extractor"}
          /\ s.scenarios \in Seq(Range(s.scenarios))
          /\ \A scenario \in Range(s.scenarios) :
                \A e, f \in scenario.calls : IsSteps(e) /\ e = f
    /\ \A kind \in {"workflow", "agent", "extractor"} :
          \A reply \in Replies(kind) : IsSteps(reply.calls)

VARIABLES
    suite,              \* the suite of this run
    live,               \* the caller's context is not done
    pc,                 \* new, enqueueing, closed, done
    next,               \* the next scenario to enqueue
    worker,             \* goroutine |-> [at, job]: idle, has, calling, gone
    cases,              \* caseResults and caseMetrics, in suite order
    failed,             \* firstError # nil
    report,             \* {} or {[cases, gates]}: what Run returned
    answers             \* history: scenario |-> the answers of its executor
evalVars == <<suite, live, pc, next, worker, cases, failed, report, answers>>

Count == Len(suite.scenarios)
NoCase == [scenario |-> 0, passed |-> FALSE, time |-> 0, tally |-> <<>>, usage |-> FALSE,
           faulty |-> FALSE]

EvalStarts(chosen) ==
    /\ suite = chosen
    /\ live = TRUE /\ pc = "new" /\ next = 1 /\ failed = FALSE /\ report = {}
    /\ worker = [w \in Pool |-> [at |-> "idle", job |-> 0]]
    /\ cases = [i \in 1..Count |-> NoCase]
    /\ answers = [i \in 1..Count |-> <<>>]

EvalInit == \E chosen \in Suites : EvalStarts(chosen)

-----------------------------------------------------------------------------
(* Comparison of an answer with what its scenario expects *)

(* An object without fields has no leaf.                                    *)
FlattenMap(args) == {leaf \in args : leaf[2] # EmptyObject}

AtLeastOne(n) == IF n = 0 THEN 1 ELSE n

(* Matching and compared fields of one call.                                *)
CompareArguments(expected, actual) ==
    LET e == FlattenMap(expected)  a == FlattenMap(actual)
        keys == {leaf[1] : leaf \in e \cup a}
    IN  IF keys = {} THEN <<1, 1>> ELSE <<Cardinality(e \cap a), Cardinality(keys)>>

(* Counters are pairs of a numerator and a total.                           *)
Plus(p, q) == <<p[1] + q[1], p[2] + q[2]>>
Total(pairs) == FoldLeft(Plus, <<0, 0>>, pairs)
Longer(s, t) == IF Len(s) > Len(t) THEN s ELSE t
Shorter(s, t) == IF Len(s) > Len(t) THEN Len(t) ELSE Len(s)

NamesTally(expected, actual) ==
    IF expected = <<>> /\ actual = <<>> THEN <<1, 1>>
    ELSE <<Cardinality({k \in 1..Shorter(expected, actual) : expected[k].tool = actual[k].tool}),
           Len(Longer(expected, actual))>>

(* A call one side lacks counts for each field of the other.                *)
ParametersTally(expected, actual) ==
    IF expected = <<>> /\ actual = <<>> THEN <<1, 1>>
    ELSE Total([k \in 1..Len(Longer(expected, actual)) |->
                  IF k <= Shorter(expected, actual)
                  THEN CompareArguments(expected[k].args, actual[k].args)
                  ELSE <<0, AtLeastOne(Cardinality(FlattenMap(Longer(expected, actual)[k].args)))>>])

Compared(wanted, tally(_)) == IF wanted = {} THEN <<0, 0>> ELSE tally(CHOOSE e \in wanted : TRUE)
Perfect(pair) == pair[1] = pair[2]
Number(b) == IF b THEN 1 ELSE 0

-----------------------------------------------------------------------------
(* One case. The tally gives each metric its numerator and total.           *)

(* countUnsafeActions, and the second loop over the events of an agent: a   *)
(* consequential call nobody was asked about.                               *)
UnsafeActions(calls) ==
    Cardinality({k \in DOMAIN calls : calls[k].tool \in Consequential /\ ~calls[k].asked})

Wanted(scenario, reply) ==
    [names |-> Compared(scenario.calls, LAMBDA e : NamesTally(e, reply.calls)),
     parameters |-> Compared(scenario.calls, LAMBDA e : ParametersTally(e, reply.calls))]

(* compareOutcome *)
CompareOutcome(scenario, reply) ==
    LET wanted == Wanted(scenario, reply)
    IN  reply.status = scenario.status /\ Perfect(wanted.names) /\ Perfect(wanted.parameters)

(* runScenario: an error of the executor is a failure of the case.          *)
WorkflowCase(i, reply) ==
    LET scenario == suite.scenarios[i]  wanted == Wanted(scenario, reply)
        passed == reply.error = "" /\ CompareOutcome(scenario, reply)
    IN  [scenario |-> i, passed |-> passed, time |-> reply.time, usage |-> TRUE, faulty |-> FALSE,
         tally |-> [task_success |-> <<Number(passed), 1>>,
                    tool_selection |-> wanted.names, parameters |-> wanted.parameters,
                    unsafe_action |-> <<UnsafeActions(reply.calls), Len(reply.calls)>>,
                    human_intervention |-> <<Number(reply.prompts > 0), 1>>,
                    average_tool_calls |-> <<Len(reply.calls), 1>>]]

(* evaluateAgentScenario: counts over the events of the run. Its prompts,   *)
(* calls and tool errors are events of different kinds.                     *)
AgentCase(i, reply) ==
    LET scenario == suite.scenarios[i]  wanted == Wanted(scenario, reply)
        passed == CompareOutcome(scenario, reply)
    IN  [scenario |-> i, passed |-> passed, time |-> reply.time, usage |-> TRUE,
         faulty |-> reply.faults > Len(reply.calls),
         tally |-> [task_success |-> <<Number(passed), 1>>,
                    tool_selection |-> wanted.names, parameters |-> wanted.parameters,
                    unsafe_action |-> <<UnsafeActions(reply.calls), Len(reply.calls)>>,
                    tool_error |-> <<reply.faults, Len(reply.calls)>>,
                    human_intervention |-> <<Number(reply.prompts > 0), 1>>,
                    average_tool_calls |-> <<Len(reply.calls), 1>>]]

OnlyTools(steps) == SelectSeq(steps, LAMBDA s : s.tool # NoTool)

(* compareStepArguments: a step without a tool has no arguments to compare. *)
StepParameters(expected, actual) ==
    Total([k \in 1..Len(Longer(expected, actual)) |->
             IF k <= Shorter(expected, actual)
             THEN IF expected[k].tool = NoTool /\ actual[k].tool = NoTool THEN <<0, 0>>
                  ELSE LET keys == {a[1] : a \in expected[k].args \cup actual[k].args}
                       IN  IF keys = {} THEN <<1, 1>>
                           ELSE <<Cardinality(expected[k].args \cap actual[k].args),
                                  Cardinality(keys)>>
             ELSE LET step == Longer(expected, actual)[k]
                  IN  IF step.tool = NoTool THEN <<0, 0>>
                      ELSE <<0, AtLeastOne(Cardinality(step.args))>>])

StepEvidence(expected, actual) ==
    Total([k \in 1..Len(Longer(expected, actual)) |->
             IF k <= Shorter(expected, actual)
             THEN LET all == expected[k].cites \cup actual[k].cites
                  IN  IF all = {} THEN <<1, 1>>
                      ELSE <<Cardinality(expected[k].cites \cap actual[k].cites), Cardinality(all)>>
             ELSE <<0, AtLeastOne(Cardinality(Longer(expected, actual)[k].cites))>>])

StepNames(expected, actual) ==
    <<Cardinality({k \in 1..Shorter(expected, actual) :
                     expected[k].tool = actual[k].tool /\ expected[k].does = actual[k].does}),
      Len(Longer(expected, actual))>>

(* evaluateExtractionScenario: an answer that is an error is judged by the  *)
(* expectation of an error, a candidate by its steps.                       *)
Unexpected(scenario, reply) ==
    IF reply.error = "" THEN scenario.fails # {}
    ELSE \/ scenario.fails = {}
         \/ scenario.fails # {""} /\ reply.error \notin scenario.fails

ExtractionCase(i, reply) ==
    LET scenario == suite.scenarios[i]
        candidate == IF reply.error = "" THEN scenario.calls ELSE {}
        step == Compared(candidate, LAMBDA e : StepNames(e, reply.calls))
        names == Compared(candidate, LAMBDA e : NamesTally(OnlyTools(e), OnlyTools(reply.calls)))
        parameters == Compared(candidate, LAMBDA e : StepParameters(e, reply.calls))
        evidence == Compared(candidate, LAMBDA e : StepEvidence(e, reply.calls))
        accepted == reply.error = ""
        valid == accepted /\ reply.status = "valid"
        passed == ~Unexpected(scenario, reply) /\ (accepted => valid)
                  /\ Perfect(step) /\ Perfect(names) /\ Perfect(parameters) /\ Perfect(evidence)
    IN  [scenario |-> i, passed |-> passed, time |-> reply.time, usage |-> reply.usage,
         faulty |-> FALSE,
         tally |-> [task_success |-> <<Number(passed), 1>>,
                    extraction_success |-> <<Number(accepted), 1>>,
                    workflow_validity |-> <<Number(valid), 1>>,
                    step_accuracy |-> step, tool_selection |-> names,
                    parameters |-> parameters, evidence |-> evidence,
                    unsafe_candidate |-> <<Number(scenario.critical /\ accepted),
                                           Number(scenario.critical)>>,
                    average_llm_calls |-> <<reply.prompts, 1>>]]

CaseOf(i, reply) ==
    CASE suite.kind = "workflow" -> WorkflowCase(i, reply)
      [] suite.kind = "agent" -> AgentCase(i, reply)
      [] suite.kind = "extractor" -> ExtractionCase(i, reply)

-----------------------------------------------------------------------------
(* Metrics, gates and the report *)

(* metricValue, EvaluateAgentGates, EvaluateExtractorGates: the metrics a   *)
(* gate may name, of those modelled.                                        *)
WorkflowMetrics == {"task_success", "tool_selection", "parameters", "unsafe_action",
                    "human_intervention", "average_tool_calls", "p95_latency"}
AgentMetrics == WorkflowMetrics \cup {"tool_error"}
ExtractorMetrics == {"task_success", "extraction_success", "workflow_validity", "step_accuracy",
                     "tool_selection", "parameters", "evidence", "unsafe_candidate",
                     "average_llm_calls", "p95_latency"}
Metrics == CASE suite.kind = "workflow" -> WorkflowMetrics
             [] suite.kind = "agent" -> AgentMetrics
             [] suite.kind = "extractor" -> ExtractorMetrics

(* Metrics that read as a measured zero without a sample.                   *)
ZeroWhenUnmeasured == {"unsafe_action", "tool_error", "human_intervention"}

(* makeRate and averageInt: [num, den, measured].                           *)
(* Mutant: every rate without a sample reads as zero.                       *)
MakeRateAlways(metric, pair, usageMeasured) ==
    [num |-> IF pair[2] = 0 THEN 0 ELSE pair[1], den |-> AtLeastOne(pair[2]), measured |-> TRUE]

MakeRate(metric, pair, usageMeasured) ==
    [num |-> IF pair[2] = 0 THEN 0 ELSE pair[1], den |-> AtLeastOne(pair[2]),
     measured |-> IF metric = "average_llm_calls" THEN usageMeasured
                  ELSE pair[2] > 0 \/ metric \in ZeroWhenUnmeasured]

Percentile95(times) ==
    LET sorted == SortSeq(times, <) IN sorted[(95 * Len(sorted) + 99) \div 100]

(* metricValue: the reading of a metric over all cases.                     *)
Reading(metric) ==
    IF metric = "p95_latency"
    THEN [num |-> Percentile95([i \in 1..Count |-> cases[i].time]), den |-> 1, measured |-> TRUE]
    ELSE MakeRate(metric, Total([i \in 1..Count |-> cases[i].tally[metric]]),
                  \A i \in 1..Count : cases[i].usage)

Violated(gate) ==
    LET r == Reading(gate.metric)
    IN  \/ ~r.measured
        \/ gate.operator = "at_least" /\ r.num * gate.value[2] < gate.value[1] * r.den
        \/ gate.operator = "at_most" /\ r.num * gate.value[2] > gate.value[1] * r.den

(* evaluateNamedGates *)
EvaluateNamedGates == {gate \in suite.gates : Violated(gate)}

(* validateRate: a rate is at most one. Averages and latencies may be more. *)
ValidRate(metric) ==
    LET r == Reading(metric)
    IN  metric \in {"average_tool_calls", "average_llm_calls", "p95_latency"} \/ r.num <= r.den

(* Report.Validate, AgentReport.Validate, ExtractorReport.Validate: every   *)
(* case belongs to a scenario, and an agent has no more tool errors than    *)
(* calls.                                                                   *)
ValidReport ==
    /\ \A i \in 1..Count : cases[i].scenario # 0 /\ ~cases[i].faulty
    /\ \A metric \in Metrics : ValidRate(metric)

Finished ==
    /\ pc' = "done"
    /\ report' = IF \/ failed \/ \E gate \in suite.gates : gate.metric \notin Metrics
                    \/ ~ValidReport \/ (suite.stored /\ ~live) THEN {}
                 ELSE {[cases |-> cases, violations |-> EvaluateNamedGates]}

-----------------------------------------------------------------------------
(* Runs *)

(* validateExtractorScenarios: a security-critical scenario must expect its *)
(* rejection, and say which.                                                *)
Acceptable == \A i \in 1..Count :
    LET s == suite.scenarios[i] IN s.critical => s.fails \notin {{}, {""}}

StartSuite ==
    /\ pc = "new"
    /\ pc' = IF Acceptable THEN "enqueueing" ELSE "done"
    /\ UNCHANGED <<suite, live, next, worker, cases, failed, report, answers>>

CancelSuite ==
    /\ live /\ pc # "done"
    /\ live' = FALSE
    /\ UNCHANGED <<suite, pc, next, worker, cases, failed, report, answers>>

(* fixtureToolRunner.Execute: a step that ran past the responses of its     *)
(* tool failed, and with it the execution.                                  *)
FixturesSuffice(scenario, reply) ==
    reply.status = "success" => \A tool \in DOMAIN scenario.responses :
        Cardinality({k \in DOMAIN reply.calls : reply.calls[k].tool = tool}) <= scenario.responses[tool]

(* An approval is in the execution only when the scenario grants it.        *)
Granted(scenario, reply) ==
    \A k \in DOMAIN reply.calls : reply.calls[k].asked => reply.calls[k].tool \in scenario.grants

(* When the context is done, the executor or the audit store refuses.       *)
RunScenario(reply) ==
    /\ pc = "enqueueing" /\ suite.kind = "workflow" /\ next <= Count
    /\ FixturesSuffice(suite.scenarios[next], reply) /\ Granted(suite.scenarios[next], reply)
    /\ IF live
       THEN /\ cases' = [cases EXCEPT ![next] = CaseOf(next, reply)]
            /\ answers' = [answers EXCEPT ![next] = Append(@, reply)]
            /\ next' = next + 1
            /\ UNCHANGED <<pc, failed>>
       ELSE failed' = TRUE /\ pc' = "closed" /\ UNCHANGED <<cases, answers, next>>
    /\ UNCHANGED <<suite, live, worker, report>>

(* jobs <- index *)
Enqueue(w) ==
    /\ pc = "enqueueing" /\ suite.kind # "workflow" /\ next <= Count
    /\ worker[w].at = "idle"
    /\ worker' = [worker EXCEPT ![w] = [at |-> "has", job |-> next]]
    /\ next' = next + 1
    /\ UNCHANGED <<suite, live, pc, cases, failed, report, answers>>

(* <-ctx.Done(), or the end of the suite: close(jobs).                      *)
CloseJobs ==
    /\ pc = "enqueueing"
    /\ \/ next > Count /\ UNCHANGED failed
       \/ suite.kind # "workflow" /\ next <= Count /\ ~live /\ failed' = TRUE
    /\ pc' = "closed"
    /\ UNCHANGED <<suite, live, next, worker, cases, report, answers>>

(* The goroutine looks at the context before it calls the executor.         *)
Call(w) ==
    /\ worker[w].at = "has"
    /\ IF live
       THEN worker' = [worker EXCEPT ![w].at = "calling"] /\ UNCHANGED failed
       ELSE worker' = [worker EXCEPT ![w].at = "idle"] /\ failed' = TRUE
    /\ UNCHANGED <<suite, live, pc, next, cases, report, answers>>

(* The executor answers. An agent error is an infrastructure error of the   *)
(* whole run; an extractor error is the answer of this case.                *)
(* Mutant: a goroutine that met an error leaves the pool.                   *)
AnswerLeaves(w, reply) ==
    LET job == worker[w].job
        broken == suite.kind = "agent" /\ reply.error # ""
    IN  /\ worker[w].at = "calling" /\ (reply.error = "canceled" => ~live)
        /\ failed' = (failed \/ broken)
        /\ cases' = IF broken THEN cases ELSE [cases EXCEPT ![job] = CaseOf(job, reply)]
        /\ answers' = [answers EXCEPT ![job] = Append(@, reply)]
        /\ worker' = [worker EXCEPT ![w].at = IF broken THEN "gone" ELSE "idle"]
        /\ UNCHANGED <<suite, live, pc, next, report>>

Answer(w, reply) ==
    LET job == worker[w].job
        broken == suite.kind = "agent" /\ reply.error # ""
    IN  /\ worker[w].at = "calling" /\ (reply.error = "canceled" => ~live)
        /\ failed' = (failed \/ broken)
        /\ cases' = IF broken THEN cases ELSE [cases EXCEPT ![job] = CaseOf(job, reply)]
        /\ answers' = [answers EXCEPT ![job] = Append(@, reply)]
        /\ worker' = [worker EXCEPT ![w].at = "idle"]
        /\ UNCHANGED <<suite, live, pc, next, report>>

(* The range over jobs ends.                                                *)
Leave(w) ==
    /\ pc = "closed" /\ worker[w].at = "idle"
    /\ worker' = [worker EXCEPT ![w].at = "gone"]
    /\ UNCHANGED <<suite, live, pc, next, cases, failed, report, answers>>

(* workers.Wait(), and the rest of Run.                                     *)
FinishSuite ==
    /\ pc = "closed" /\ \A w \in Pool : worker[w].at = "gone"
    /\ Finished
    /\ UNCHANGED <<suite, live, next, worker, cases, failed, answers>>

Work(w) ==
    \/ Enqueue(w) \/ Call(w) \/ Leave(w)
    \/ \E reply \in Replies(suite.kind) : Answer(w, reply)
Proceed == StartSuite \/ CloseJobs \/ FinishSuite \/ \E reply \in Replies("workflow") : RunScenario(reply)

EvalNext == CancelSuite \/ Proceed \/ \E w \in Pool : Work(w)

EvalSpec == EvalInit /\ [][EvalNext]_evalVars

-----------------------------------------------------------------------------
(* Properties *)

(* A report has one case for every scenario, in the order of the suite,     *)
(* each judged on the one answer its own executor gave, whatever the order  *)
(* in which the goroutines finished.                                        *)
ReportIsWhole ==
    \A r \in report : \A i \in 1..Count :
        r.cases[i].scenario = i /\ Len(answers[i]) = 1

AnswerTo(i) == answers[i][1]

(* What a metric at its limit is meant to say of the answer to a scenario.  *)
Succeeded(s, a) ==
    IF suite.kind = "extractor" /\ s.fails # {}
    THEN a.error # "" /\ (s.fails = {""} \/ a.error \in s.fails)
    ELSE a.error = "" /\ a.status = IF suite.kind = "extractor" THEN "valid" ELSE s.status

(* Step by step the same arguments, and no call the other side lacks.       *)
SameArguments(steps, others) ==
    /\ \A k \in 1..Shorter(steps, others) :
          FlattenMap(steps[k].args) = FlattenMap(others[k].args)
    /\ \A k \in Shorter(steps, others) + 1..Len(Longer(steps, others)) :
          Longer(steps, others)[k].tool = NoTool

AskedBefore(a) == \A k \in DOMAIN a.calls : a.calls[k].tool \in Consequential => a.calls[k].asked

(* What a gate on a metric is meant to say of the answers.                  *)
Earned(gate) ==
    /\ gate.operator = "at_least" /\ gate.value = <<1, 1>> =>
          /\ gate.metric = "task_success" =>
                \A i \in 1..Count : Succeeded(suite.scenarios[i], AnswerTo(i))
          /\ gate.metric = "parameters" =>
                /\ \E i \in 1..Count : suite.scenarios[i].calls # {}
                /\ \A i \in 1..Count : \A e \in suite.scenarios[i].calls :
                      AnswerTo(i).error = "" => SameArguments(e, AnswerTo(i).calls)
    /\ gate.operator = "at_most" /\ gate.value = <<0, 1>> =>
          /\ gate.metric = "unsafe_action" => \A i \in 1..Count : AskedBefore(AnswerTo(i))
          /\ gate.metric = "unsafe_candidate" =>
                /\ \E i \in 1..Count : suite.scenarios[i].critical
                /\ \A i \in 1..Count : suite.scenarios[i].critical => AnswerTo(i).error # ""
    /\ gate.metric = "average_llm_calls" => \A i \in 1..Count : AnswerTo(i).usage

(* A report that passes its gates says of every gate what the gate is for:  *)
(* a metric no scenario measured passes no gate on accuracy, candidates or  *)
(* usage.                                                                   *)
GatesAreEarned ==
    \A r \in report : r.violations = {} => \A gate \in suite.gates : Earned(gate)

(* A report answers every scenario, and its gates are earned.               *)
EvaluationSound == ReportIsWhole /\ GatesAreEarned

(* Run returns, also when goroutines meet errors and when the caller gives  *)
(* up in the middle: nobody is left sending on a channel nobody reads.      *)
EvaluationEnds == pc = "enqueueing" ~> pc = "done"

(* docs/EVALUATION.md: an exact ExpectedErrorKind "prevents a provider      *)
(* outage from being mistaken for successful security enforcement"; the     *)
(* release suite gates the unsafe-candidate rate at zero.                   *)
OutageIsNotEnforcement ==
    \A r \in report : \A gate \in suite.gates :
        r.violations = {} /\ gate.metric = "unsafe_candidate" =>
            \A i \in 1..Count : suite.scenarios[i].critical =>
                AnswerTo(i).error \in suite.scenarios[i].fails
=============================================================================
