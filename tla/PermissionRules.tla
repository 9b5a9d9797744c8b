-------------------------- MODULE PermissionRules --------------------------
(* The permission engine's verdict on one tool call: permissions.Engine.    *)
(* A tool is its name and descriptor. An input is a sequence of the parts   *)
(* that rules look at: the segments of a Bash command between its           *)
(* operators, the path of a file tool, the name of a skill. A rule's        *)
(* pattern (glob, prefix or regular expression) is the set of the parts it  *)
(* matches; an inverted path pattern matches the others.                    *)
EXTENDS Integers, Sequences, FiniteSets, FiniteSetsExt, SequencesExt

ToolRule(tool, arg, decision) ==
    [kind |-> "tool", tool |-> tool, arg |-> arg, decision |-> decision]
PathRule(tools, matches, inverted, decision) ==
    [kind |-> "path", tools |-> tools, matches |-> matches, inverted |-> inverted,
     decision |-> decision]
BashRule(matches, decision) ==
    [kind |-> "bash", matches |-> matches, decision |-> decision]

Decisive(rule) == rule.decision \in {"allow", "deny"}

(* An argument narrows a rule to one skill, and then only fits Skill.       *)
MatchToolRule(rule, tool, input) ==
    /\ rule.tool \in {"*", tool.name}
    /\ \/ rule.arg = ""
       \/ tool.name = "Skill" /\ rule.arg \in {"*", input[1]}

MatchPathRule(rule, tool, input) ==
    /\ tool.name \in (IF rule.tools = {} THEN {"Write", "Edit"} ELSE rule.tools)
    /\ tool.name \in {"Read", "Write", "Edit", "Glob", "Grep"}
    /\ IF rule.inverted THEN input[1] \notin rule.matches ELSE input[1] \in rule.matches

(* The bash rules from the one being looked at to the last.                 *)
BashRulesFrom(rules, i) ==
    SelectSeq(SubSeq(rules, i, Len(rules)),
              LAMBDA rule : rule.kind = "bash" /\ Decisive(rule))

FirstMatchingBashDecision(bash, segment) ==
    LET matching == {i \in DOMAIN bash : segment \in bash[i].matches}
    IN IF matching = {} THEN "none" ELSE bash[Min(matching)].decision

EvaluateBashRules(bash, segments) ==
    LET verdicts == {FirstMatchingBashDecision(bash, segments[i]) : i \in DOMAIN segments}
    IN CASE segments = <<>> -> "none"
         [] "deny" \in verdicts -> "deny"
         [] verdicts = {"allow"} -> "allow"
         [] OTHER -> "none"

RuleVerdictAt(rules, i, tool, input) ==
    LET rule == rules[i]
    IN IF ~Decisive(rule) THEN "none"
       ELSE CASE rule.kind = "tool" ->
                    IF MatchToolRule(rule, tool, input) THEN rule.decision ELSE "none"
              [] rule.kind = "path" ->
                    IF MatchPathRule(rule, tool, input) THEN rule.decision ELSE "none"
              [] rule.kind = "bash" ->
                    IF tool.name = "Bash"
                    THEN EvaluateBashRules(BashRulesFrom(rules, i), input) ELSE "none"
              [] OTHER -> "none"

(* evaluateRules: the first rule that decides.                              *)
RuleVerdict(rules, tool, input) ==
    LET deciding == {i \in DOMAIN rules : RuleVerdictAt(rules, i, tool, input) # "none"}
    IN IF deciding = {} THEN "none"
       ELSE RuleVerdictAt(rules, Min(deciding), tool, input)

TaskTools == {"TaskCreate", "TaskList", "TaskGet", "TaskUpdate"}

ModeDefault(tool, mode) ==
    LET dangerous == tool.risk \in {"high", "critical"} \/ tool.network
        edit == /\ tool.scope = "write" /\ mode = "acceptEdits"
                /\ tool.effect # "non_idempotent"
        harmless == tool.scope = "read" \/ tool.name \in TaskTools \/ edit
    IN IF mode = "yolo" \/ (~dangerous /\ harmless) THEN "allow" ELSE "ask"

(* Engine.Evaluate                                                          *)
Evaluate(rules, mode, tool, input) ==
    LET ruled == RuleVerdict(rules, tool, input)
    IN IF ruled # "none" THEN ruled ELSE ModeDefault(tool, mode)
=============================================================================
