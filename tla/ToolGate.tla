------------------------------ MODULE ToolGate ------------------------------
(* The gate between the tool calls of one model turn and their execution:   *)
(* Session.resolveToolCallPermissions and executePreparedToolCall, with the *)
(* permission engine, and in production the hard policy (RolePolicy over    *)
(* RiskPolicy) and the audit outbox. The calls are one parallel batch, so   *)
(* that every call is screened and every question asked before any runs.    *)
(* The validation of inputs at the head of executeToolCalls and the tools'  *)
(* work are left out; SessionRun has the turn around the batch.             *)
EXTENDS PermissionRules

CONSTANTS
    MaxCalls,           \* the calls of the batch
    NoInput,
    Sessions,           \* what agents are built with: [production, mode, rules, granted, tools]
    Inputs(_)           \* the inputs a model may propose for a tool

Calls == 1 .. MaxCalls

ASSUME GateAssumption ==
    /\ MaxCalls \in Nat
    /\ \A s \in Sessions :
          /\ s.production =>
                /\ s.mode # "yolo"
                /\ \A t \in s.tools : t.effect = "none" /\ t.capabilities # {}
          /\ s.rules \in Seq(Range(s.rules))
          /\ \A t \in s.tools : NoInput \notin Inputs(t)

VARIABLES
    gate,               \* the session, and how far the batch is
    call,               \* each call
    trail,              \* what the audit outbox holds of each call, in its order
    cancelled           \* the run's context
gateVars == <<gate, call, trail, cancelled>>

(* judged, approved and ran are for the properties: the input the policy or *)
(* the rules judged, the one the callback allowed, the one that was run.    *)
Proposed(tool, input) ==
    [tool |-> tool, input |-> input, at |-> "new", result |-> "none",
     verdict |-> "none", judged |-> NoInput, approved |-> NoInput, ran |-> NoInput]

ProposedTo(s) == UNION {{Proposed(t, i) : i \in Inputs(t)} : t \in s.tools}

GateStarts(s) ==
    /\ gate = [session |-> s, phase |-> "screening"]
    /\ trail = [c \in Calls |-> <<>>]
    /\ cancelled = FALSE

GateInit == \E s \in Sessions : GateStarts(s) /\ call \in [Calls -> ProposedTo(s)]

Production == gate.session.production

Audited(trace, c, event) == [trace EXCEPT ![c] = Append(@, event)]

(* appendAgentAudit: without production there is no audit. The append fails *)
(* on a cancelled context, or because the outbox does.                      *)
AuditOk(c, event) == trail' = IF Production THEN Audited(trail, c, event) ELSE trail
AuditOkLive(c, event) == (Production => ~cancelled) /\ AuditOk(c, event)
AuditFails == Production /\ UNCHANGED trail

Denied(c) == [call[c] EXCEPT !.at = "answered", !.result = "denied"]

-----------------------------------------------------------------------------
(* RolePolicy.Evaluate, then RiskPolicy.Evaluate; granted are the           *)
(* capabilities the actor's roles give together.                            *)
PolicyVerdict(tool, granted) ==
    IF ~(tool.capabilities \subseteq granted) THEN "deny"
    ELSE IF \/ tool.risk \in {"high", "critical"}
            \/ tool.effect \in {"unknown", "non_idempotent"}
            \/ tool.network
         THEN "require_approval" ELSE "allow"

Foremost(phase, at) == {c \in Calls : gate.phase = phase /\ call[c].at = at
                                     /\ \A d \in Calls : d < c => call[d].at # at}

(* The evaluator fails, as it does on a cancelled context, or its verdict   *)
(* does not reach the outbox.                                               *)
PolicyFails(c) ==
    /\ Production
    /\ call' = [call EXCEPT ![c] = Denied(c)]
    /\ UNCHANGED <<gate, trail, cancelled>>

(* Asking: the call waits for the callback when its question is audited.    *)
AskAudited(c, judged, trace) ==
    \/ /\ call' = [call EXCEPT ![c] = [judged EXCEPT !.at = "asking"]]
       /\ trail' = IF Production THEN Audited(trace, c, "requested") ELSE trace
    \/ /\ Production
       /\ call' = [call EXCEPT ![c] = [judged EXCEPT !.at = "answered", !.result = "denied"]]
       /\ trail' = trace

(* The permission engine on a call the policy allowed or did not see.       *)
RulesScreen(c, judged, trace) ==
    LET s == gate.session
        decision == Evaluate(s.rules, s.mode, call[c].tool, call[c].input)
    IN CASE decision = "deny" ->
              /\ call' = [call EXCEPT ![c] = [judged EXCEPT !.at = "answered", !.result = "denied"]]
              /\ trail' = trace
         [] decision = "allow" ->
              /\ call' = [call EXCEPT ![c] = [judged EXCEPT !.at = "ready"]]
              /\ trail' = trace
         [] OTHER -> AskAudited(c, judged, trace)

(* One pass of the screening loop. A verdict that requires approval goes    *)
(* to the callback whatever the rules and the mode say.                     *)
Screen(c) ==
    LET verdict == IF Production THEN PolicyVerdict(call[c].tool, gate.session.granted)
                                 ELSE "allow"
        judged == [call[c] EXCEPT !.judged = call[c].input, !.verdict = verdict]
        trace == IF Production THEN Audited(trail, c, verdict) ELSE trail
    IN /\ Production => ~cancelled
       /\ CASE verdict = "deny" ->
                 /\ call' = [call EXCEPT ![c] = [judged EXCEPT !.at = "answered", !.result = "denied"]]
                 /\ trail' = trace
            [] verdict = "require_approval" -> AskAudited(c, judged, trace)
            [] OTHER -> RulesScreen(c, judged, trace)
       /\ UNCHANGED <<gate, cancelled>>

(* The requests are emitted together; when the consumer has left, the calls *)
(* that asked stay without a result.                                        *)
EmitRequests ==
    /\ gate.phase = "screening" /\ \A c \in Calls : call[c].at # "new"
    /\ \/ /\ gate' = [gate EXCEPT !.phase = "asking"]
          /\ UNCHANGED call
       \/ /\ \E c \in Calls : call[c].at = "asking"
          /\ gate' = [gate EXCEPT !.phase = "running"]
          /\ call' = [c \in Calls |-> IF call[c].at = "asking"
                                      THEN [call[c] EXCEPT !.at = "answered"] ELSE call[c]]
    /\ UNCHANGED <<trail, cancelled>>

(* The callback is asked for one call after the other, on a live context.   *)
Consult(c) ==
    /\ ~cancelled /\ \A d \in Calls : call[d].at # "consulted"
    /\ call' = [call EXCEPT ![c].at = "consulted"]
    /\ UNCHANGED <<gate, trail, cancelled>>

(* ResolveApproval denies: no callback, an aborted run, a callback that     *)
(* fails, denies or answers something else, or a rewritten input the tool   *)
(* does not accept. The audit of a denial is not waited for.                *)
Refused(c) ==
    /\ call[c].at = "consulted" \/ \A d \in Calls : call[d].at # "consulted"
    /\ call' = [call EXCEPT ![c] = Denied(c)]
    /\ AuditOkLive(c, "denied") \/ AuditFails
    /\ UNCHANGED <<gate, cancelled>>

(* Mutant: production takes the callback's input as well.                   *)
AllowedAsRewritten(c) ==
    /\ \E i \in Inputs(call[c].tool) :
          LET allowed == [call[c] EXCEPT !.approved = call[c].input]
          IN \/ /\ AuditOkLive(c, "granted")
                /\ call' = [call EXCEPT ![c] = [allowed EXCEPT !.at = "ready", !.input = i]]
             \/ AuditFails /\ call' = [call EXCEPT ![c] = Denied(c)]
    /\ UNCHANGED <<gate, cancelled>>

(* The callback allows, possibly with an input of its own; an append that   *)
(* fails, and in production a rewritten input, deny all the same.           *)
Allowed(c) ==
    /\ \E i \in Inputs(call[c].tool) :
          LET allowed == [call[c] EXCEPT !.approved = call[c].input]
          IN \/ /\ AuditOkLive(c, "granted")
                /\ call' = [call EXCEPT ![c] =
                      IF Production /\ i # call[c].input
                      THEN [allowed EXCEPT !.at = "answered", !.result = "denied"]
                      ELSE [allowed EXCEPT !.at = "ready", !.input = i]]
             \/ AuditFails /\ call' = [call EXCEPT ![c] = Denied(c)]
    /\ UNCHANGED <<gate, cancelled>>

EndAsking ==
    /\ gate.phase = "asking" /\ \A c \in Calls : call[c].at \notin {"asking", "consulted"}
    /\ gate' = [gate EXCEPT !.phase = "running"]
    /\ UNCHANGED <<call, trail, cancelled>>

-----------------------------------------------------------------------------
(* executePreparedToolCall, up to the invocation. The contract of the tool  *)
(* may have changed since, the consumer may have left, and the event that   *)
(* announces the call may not be stored.                                    *)
NotStarted(c) ==
    /\ \E result \in IF Production THEN {"denied", "error"} ELSE {"error"} :
          call' = [call EXCEPT ![c].at = "answered", ![c].result = result]
    /\ UNCHANGED <<gate, trail, cancelled>>

Start(c) ==
    /\ call' = [call EXCEPT ![c].at = "started"]
    /\ AuditOkLive(c, "called")
    /\ UNCHANGED <<gate, cancelled>>

(* The tool runs; what it returns may fail the output schema or the limits. *)
(* The completion is audited on a context that is not cancelled, and an     *)
(* outcome that could not be stored is reported as an error.                *)
Finish(c) ==
    /\ \E outcome \in {"ok", "error"} :
          LET ran == [call[c] EXCEPT !.at = "answered", !.ran = call[c].input]
          IN \/ /\ AuditOk(c, outcome)
                /\ call' = [call EXCEPT ![c] = [ran EXCEPT !.result = outcome]]
             \/ AuditFails /\ call' = [call EXCEPT ![c] = [ran EXCEPT !.result = "error"]]
    /\ UNCHANGED <<gate, cancelled>>

CancelRun ==
    /\ ~cancelled /\ cancelled' = TRUE
    /\ UNCHANGED <<gate, call, trail>>

GateNext ==
    \/ \E c \in Foremost("screening", "new") : PolicyFails(c) \/ Screen(c)
    \/ EmitRequests
    \/ \E c \in Foremost("asking", "asking") : Consult(c) \/ Refused(c)
    \/ \E c \in Foremost("asking", "consulted") : Refused(c) \/ Allowed(c)
    \/ EndAsking
    \/ gate.phase = "running" /\ \E c \in Calls :
          \/ call[c].at = "ready" /\ (NotStarted(c) \/ Start(c))
          \/ call[c].at = "started" /\ Finish(c)
    \/ CancelRun

GateSpec == GateInit /\ [][GateNext]_gateVars

-----------------------------------------------------------------------------
(* A call that runs was allowed, or asked about and approved as it was      *)
(* judged: a policy that requires approval is not satisfied by a yolo mode  *)
(* or an allow rule, what the policy or a rule denies is never run, and a   *)
(* question nobody saw is not an answer                                     *)
(* (loop.go resolveToolCallPermissions, permissions/engine.go Resolve).     *)
NothingRunsUnasked ==
    \A c \in Calls : call[c].ran # NoInput =>
       LET s == gate.session
           verdict == IF Production THEN PolicyVerdict(call[c].tool, s.granted) ELSE "allow"
           rules == Evaluate(s.rules, s.mode, call[c].tool, call[c].judged)
       IN \/ verdict = "allow" /\ rules = "allow"
          \/ verdict = "allow" /\ rules = "ask" /\ call[c].approved = call[c].judged
          \/ verdict = "require_approval" /\ call[c].approved = call[c].judged

(* In production a tool runs on the very input the policy judged: between   *)
(* the judgement and the run the callback and the tool's own validation     *)
(* have both had a chance to rewrite it (loop.go executePreparedToolCall).  *)
ExecutedAsJudged ==
    Production => \A c \in Calls : call[c].ran \in {NoInput, call[c].judged}

(* The verdict, the question and its answer if there was one, the call.     *)
Story(k) ==
    IF k.approved # NoInput THEN <<k.verdict, "requested", "granted", "called">>
                            ELSE <<k.verdict, "called">>

(* In production the outbox tells the whole story of a call that has begun  *)
(* before its tool is invoked. A call reported as successful has its        *)
(* outcome there as well (loop.go appendAgentAudit and its callers).        *)
AuditTellsTheStory ==
    Production => \A c \in Calls :
       /\ call[c].at = "started" \/ call[c].ran # NoInput => IsPrefix(Story(call[c]), trail[c])
       /\ call[c].result = "ok" => Last(trail[c]) = "ok"

(* A composite Bash command is never judged more leniently than its parts:  *)
(* it is allowed by rule only if each segment alone would be, and denied as *)
(* soon as one of them would be, wherever tool rules stand among the bash   *)
(* rules (permissions/engine.go evaluateRules, evaluateBashRules).          *)
CompositeNeverWider ==
    \A tool \in {t \in gate.session.tools : t.name = "Bash"} : \A input \in Inputs(tool) :
       LET whole == RuleVerdict(gate.session.rules, tool, input)
           parts == {RuleVerdict(gate.session.rules, tool, <<input[i]>>) : i \in DOMAIN input}
       IN /\ whole = "allow" => parts \subseteq {"allow"}
          /\ "deny" \in parts => whole = "deny"

(* A session's call runs only as it was allowed and judged, and production  *)
(* has the story of it before it runs.                                      *)
GateSound == NothingRunsUnasked /\ ExecutedAsJudged /\ AuditTellsTheStory /\ CompositeNeverWider
=============================================================================
