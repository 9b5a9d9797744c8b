------------------------------ MODULE MCTools ------------------------------
(***************************************************************************)
(* TLC instance of what stands around a tool call: the resources a tool    *)
(* registry holds (the MCP client, the background processes, the scheduled *)
(* prompts), the three places where an action is authorized (the gate in   *)
(* front of a session's calls, Raven's broker behind the gate's callback,  *)
(* the stores in which people decide the approvals of workflows) and the   *)
(* evaluation of a suite. To the gate the callback is any function, a      *)
(* workflow's approval is not a session's, and Registry.Close closes its   *)
(* managers one after another: the parts share no state, and the rigid     *)
(* variable focus says which of them moves.                                *)
(*                                                                         *)
(* One caller against two MCP servers; two users and a closer of           *)
(* background processes; two jobs over four minutes. Two calls of tools of *)
(* every kind under short rule lists, and composite Bash commands under    *)
(* all lists of up to three rules; three questions to Raven's user; one    *)
(* approval, two tenants and three people, one of whom may not decide.     *)
(* Suites of one to three scenarios for each evaluation runner, with the   *)
(* gates the documentation recommends.                                     *)
(***************************************************************************)
EXTENDS ToolHost, CronManager, ToolGate, PermissionBroker, Approvals,
        EvaluationRunner

VARIABLE focus

hostVars == <<mcpVars, procVars, cronVars>>
authVars == <<gateVars, brokerVars, approvalVars>>

-----------------------------------------------------------------------------
(* Values of the constants *)

SomeSchedules == {{}, {1, 3}}

Descriptor(name, scope, risk, effect, network, capabilities) ==
    [name |-> name, scope |-> scope, risk |-> risk, effect |-> effect,
     network |-> network, capabilities |-> capabilities]

Bash == Descriptor("Bash", "execute", "high", "unknown", FALSE, {"execute"})
Write == Descriptor("Write", "write", "medium", "idempotent", FALSE, {})
Lookup == Descriptor("lookup", "read", "low", "none", FALSE, {"lookup"})
Fetch == Descriptor("fetch", "read", "medium", "none", TRUE, {"fetch"})
Inspect == Descriptor("inspect", "read", "critical", "none", FALSE, {"other"})

SomeInputs(tool) ==
    IF tool.name = "Bash" THEN {<<"a">>, <<"a", "b">>} ELSE {<<"a">>, <<"b">>}

BashRules == {BashRule(m, d) : m \in {{"a"}, {"b"}, {"a", "b"}}, d \in {"allow", "deny"}}
AllBash == {ToolRule("Bash", "", d) : d \in {"allow", "deny"}}
BashLists == {<<>>} \cup {<<r, s>> : r \in BashRules, s \in BashRules \cup AllBash}
                    \cup {<<r, s, t>> : r \in BashRules, s \in BashRules, t \in BashRules}
RuleLists ==
    {<<>>, <<ToolRule("*", "", "allow")>>, <<ToolRule("fetch", "", "deny")>>,
     <<PathRule({}, {"a"}, FALSE, "deny"), ToolRule("Write", "", "allow")>>,
     <<PathRule({"Write"}, {"a"}, TRUE, "allow"), ToolRule("lookup", "", "ask")>>}

Agent(production, mode, rules, tools) ==
    [production |-> production, mode |-> mode, rules |-> rules,
     granted |-> {"lookup", "fetch"}, tools |-> tools]

SomeSessions ==
    {Agent(FALSE, mode, rules, {Bash, Write, Fetch}) :
        mode \in {"default", "acceptEdits", "yolo"}, rules \in RuleLists}
    \cup {Agent(TRUE, mode, rules, {Lookup, Fetch, Inspect}) :
        mode \in {"default", "acceptEdits"}, rules \in RuleLists}
    \cup {Agent(FALSE, "default", rules, {Bash}) : rules \in BashLists}

TwoTenants(person) == IF person = "mallory" THEN "other" ELSE "home"

Invoice == {<<"invoice", "42">>}
Other == {<<"invoice", "43">>, <<"options", EmptyObject>>}
Look(args) == [tool |-> "lookup", args |-> args, asked |-> FALSE, cites |-> {"e1"}, does |-> "tool"]
Pay(asked) == [tool |-> "pay", args |-> Invoice, asked |-> asked, cites |-> {"e2"}, does |-> "tool"]
Confirm == [tool |-> NoTool, args |-> {}, asked |-> FALSE, cites |-> {}, does |-> "confirm"]

Scenario(calls) == [calls |-> calls, status |-> "success", fails |-> {}, critical |-> FALSE,
                    grants |-> {"pay"}, responses |-> [tool \in {"pay"} |-> 1]]
Adversarial == [Scenario({}) EXCEPT !.fails = {"validation"}, !.critical = TRUE]
Rejecting == [Scenario({}) EXCEPT !.fails = {""}]

AtLeast(metric) == [metric |-> metric, operator |-> "at_least", value |-> <<1, 1>>]
AtMost(metric) == [metric |-> metric, operator |-> "at_most", value |-> <<0, 1>>]
Usual == {AtLeast("task_success"), AtMost("unsafe_action")}
Accuracy == {AtLeast("parameters"), AtLeast("tool_selection")}
Fast == [metric |-> "p95_latency", operator |-> "at_most", value |-> <<1, 1>>]

SuiteOf(kind, scenarios, gates) ==
    [kind |-> kind, scenarios |-> scenarios, gates |-> gates, stored |-> Len(scenarios) = 2]
Paid == {<<Look(Invoice), Pay(TRUE)>>}

SomeSuites ==
    {SuiteOf(kind, <<Scenario({}), Scenario(calls)>>, gates) :
        kind \in {"workflow", "agent"}, calls \in {{}, Paid}, gates \in {Usual, Accuracy, {Fast}}}
    \cup {SuiteOf("agent", <<Scenario({}), Scenario({}), Scenario({})>>, Usual),
          SuiteOf("agent", <<Scenario({})>>, {AtMost("unsafe_candidate")})}
    \cup {SuiteOf("extractor", <<first, Adversarial>>, gates) :
            first \in {[Scenario({<<Look(Invoice), Confirm>>}) EXCEPT !.status = "valid"], Rejecting},
            gates \in {{AtMost("unsafe_candidate")}, {AtLeast("task_success")}, Accuracy,
                       {AtMost("average_llm_calls")}}}
    \cup {SuiteOf("extractor", <<Rejecting, [Adversarial EXCEPT !.fails = {""}]>>, {})}
    \cup {SuiteOf("extractor", <<Rejecting, Rejecting>>, {AtMost("unsafe_candidate")})}

Reply(error, status, calls) ==
    [error |-> error, status |-> status, calls |-> calls, time |-> 1, faults |-> 0,
     prompts |-> 0, usage |-> TRUE]

SomeReplies(kind) ==
    CASE kind = "extractor" ->
           {Reply("", "valid", <<Look(args), Confirm>>) : args \in {Invoice, Other}}
           \cup {Reply("", "invalid", <<Look(Invoice)>>)}
           \cup {[Reply(e, "", <<>>) EXCEPT !.usage = FALSE] : e \in {"validation", "outage", "canceled"}}
      [] OTHER ->
           {Reply("", "success", <<Look(Invoice), Pay(asked)>>) : asked \in BOOLEAN}
           \cup {[Reply("", "success", <<Look(Other)>>) EXCEPT !.time = 2],
                 [Reply("", "success", <<Look(Invoice)>>) EXCEPT !.faults = 2],
                 [Reply("", "rejected", <<>>) EXCEPT !.prompts = 1],
                 Reply("infrastructure", "", <<>>)}

-----------------------------------------------------------------------------

(* A part at rest has one initial state.                                    *)
GateAtRest ==
    LET s == CHOOSE s \in Sessions : s.production
    IN GateStarts(s) /\ call = [c \in Calls |-> CHOOSE p \in ProposedTo(s) : TRUE]
BrokerAtRest == ask = (CHOOSE a \in Conversations : TRUE) /\ BrokerStarts
ApprovalsAtRest == durable = TRUE /\ ApprovalsStart
EvaluationAtRest == EvalStarts(CHOOSE s \in Suites : TRUE)

MCInit ==
    /\ focus \in {"mcp", "processes", "cron", "gate", "broker", "approvals", "evaluation"}
    /\ McpInit /\ ProcInit /\ CronInit
    /\ IF focus = "gate" THEN GateInit ELSE GateAtRest
    /\ IF focus = "broker" THEN BrokerInit ELSE BrokerAtRest
    /\ IF focus = "approvals" THEN ApprovalsInit ELSE ApprovalsAtRest
    /\ IF focus = "evaluation" THEN EvalInit ELSE EvaluationAtRest

MCNext ==
    /\ UNCHANGED focus
    /\ \/ focus = "mcp" /\ McpNext /\ UNCHANGED <<procVars, cronVars, authVars, evalVars>>
       \/ focus = "processes" /\ ProcNext /\ UNCHANGED <<mcpVars, cronVars, authVars, evalVars>>
       \/ focus = "cron" /\ CronNext /\ UNCHANGED <<mcpVars, procVars, authVars, evalVars>>
       \/ focus = "gate" /\ GateNext
          /\ UNCHANGED <<hostVars, brokerVars, approvalVars, evalVars>>
       \/ focus = "broker" /\ BrokerNext
          /\ UNCHANGED <<hostVars, gateVars, approvalVars, evalVars>>
       \/ focus = "approvals" /\ ApprovalsNext
          /\ UNCHANGED <<hostVars, gateVars, brokerVars, evalVars>>
       \/ focus = "evaluation" /\ EvalNext /\ UNCHANGED <<hostVars, authVars>>

(* The goroutines that exist are scheduled, and executors of an evaluation  *)
(* return. Nothing is promised about a server, a caller giving up, a user   *)
(* answering, or anyone asking for a connection, a close or a cancellation. *)
MCFairness ==
    /\ \A p \in Procs : WF_mcpVars(focus = "mcp" /\ SendRequest(p))
    /\ \A c \in Clients : WF_mcpVars(focus = "mcp" /\ Reader(c))
    /\ WF_mcpVars(focus = "mcp" /\ Manage)
    /\ \A j \in Jobs : WF_cronVars(focus = "cron" /\ CronLoop(j))
    /\ \A r \in Asks : /\ WF_brokerVars(focus = "broker" /\ CanUseTool(r))
                      /\ WF_brokerVars(focus = "broker" /\ Answered(r))
                      /\ WF_brokerVars(focus = "broker" /\ AllResolves(r))
    /\ WF_brokerVars(focus = "broker" /\ EmitEvent)
    /\ WF_evalVars(focus = "evaluation" /\ Proceed)
    /\ \A w \in Pool : WF_evalVars(focus = "evaluation" /\ Work(w))

MCSpec == MCInit /\ [][MCNext]_<<hostVars, authVars, evalVars, focus>> /\ MCFairness

-----------------------------------------------------------------------------
(* What the run checks, put together from the properties of the parts *)

(* Whoever waits on a client, a job or a dialog is let go: when the client  *)
(* is closed, the job deleted, the question answered. Calls, jobs and       *)
(* questions are finitely many, so that letting go of each is letting go of *)
(* them all in the end.                                                     *)
HostsLetGo == <>[](CallersReleased /\ LoopsEnded /\ AnswersArrived)
=============================================================================
