-------------------------- MODULE MCWorkflowExecutor --------------------------
(***************************************************************************)
(* TLC instances of WorkflowExecutor: small workflows, worker assignments. *)
(***************************************************************************)
EXTENDS WorkflowExecutor, TLC

CONSTANTS p1, p2, w1, w2

TwoWorkers == (p1 :> w1) @@ (p2 :> w2)
Unleased == (p1 :> NoWorker) @@ (p2 :> NoWorker)

Tool(effect) ==
    [kind |-> "tool", effect |-> effect, policy |-> "allow", attempts |-> 1,
     when |-> TRUE, valid |-> TRUE]

Retried(effect) == [Tool(effect) EXCEPT !.attempts = 2]
NeedingApproval(effect) == [Tool(effect) EXCEPT !.policy = "approval"]
Skipped(effect) == [Tool(effect) EXCEPT !.when = FALSE]
ApprovalStep == [Tool("none") EXCEPT !.kind = "approval"]
ValidationStep(valid) ==
    [Tool("none") EXCEPT !.kind = "validation", !.valid = valid]

\* A risky call after a read, and before a safe one.
ReadThenPay == <<Tool("none"), Tool("non_idempotent")>>
PayThenNotify == <<Tool("unknown"), Tool("idempotent")>>

\* One risky call, without and with an approval.
SinglePayment == <<Tool("non_idempotent")>>
SingleApproval == <<NeedingApproval("non_idempotent")>>

\* An approval step, an approved call, and a validation that fails.
ApprovedCheck ==
    <<ApprovalStep, NeedingApproval("idempotent"), ValidationStep(FALSE)>>

\* Retries of an idempotent tool, alone and at the end of a workflow.
RetriedIdempotent == <<Retried("idempotent")>>
Mixed == <<Skipped("unknown"), ValidationStep(TRUE), Retried("idempotent")>>

Budget(crashes, faults, decisions, shutdowns) ==
    [crashes |-> crashes, faults |-> faults, decisions |-> decisions,
     shutdowns |-> shutdowns]

Deploy(workflow, entries, limits) ==
    [worker |-> TwoWorkers, entries |-> entries, workflow |-> workflow,
     deadline |-> 0, ttl |-> 0, budget |-> limits]

\* Two coordinators take over from each other.
Takeover == Deploy(PayThenNotify, {"run_once"}, Budget(1, 0, 0, 1))

\* An execution from its creation, with a cancellation and a decision.
Direct == Deploy(SinglePayment, {"execute", "recover", "cancel"}, Budget(1, 0, 1, 0))

\* Coordinators, cancellations and recovery decisions.
Recovery == Deploy(SinglePayment, {"run_once", "recover", "cancel"}, Budget(1, 0, 1, 0))

\* Two hosts without leases.
Hosts ==
    [Deploy(PayThenNotify, {"resume_stored", "cancel"}, Budget(1, 0, 0, 0))
        EXCEPT !.worker = Unleased]

\* Approvals against a deadline, and with a TTL.
ApprovalDeadline ==
    [Deploy(SingleApproval, {"run_once", "cancel"}, Budget(1, 0, 0, 0))
        EXCEPT !.deadline = 3]
ApprovalTTL == [Deploy(ApprovedCheck, {"run_once"}, Budget(1, 0, 0, 0)) EXCEPT !.ttl = 1]

\* One storage, policy or preflight fault anywhere.
Faulty == Deploy(ReadThenPay, {"run_once"}, Budget(1, 1, 0, 0))
FaultyCancel == Deploy(SinglePayment, {"run_once", "cancel"}, Budget(0, 1, 0, 0))

FaultyApproval == Deploy(SingleApproval, {"run_once"}, Budget(1, 1, 0, 0))

\* A tool that is retried and then called again on a decision.
Repeated == Deploy(RetriedIdempotent, {"run_once", "recover"}, Budget(1, 0, 1, 0))

SafetyDeployments ==
    {Takeover, Direct, Recovery, Hosts, ApprovalDeadline, ApprovalTTL, Faulty,
     FaultyCancel, FaultyApproval, Repeated}

\* A workflow of everything that is safe to repeat, and a risky one.
LiveDeployments ==
    {Deploy(Mixed, {"run_once"}, Budget(1, 0, 0, 0)), Takeover}

\* One deployment for each violation.
CreatedThenClaimed == {Deploy(SinglePayment, {"execute", "run_once"}, Budget(1, 0, 0, 0))}
RetriedThenRecovered == {Repeated}
FaultBeforeAwait == {FaultyApproval}
DecidedThenClosed ==
    {[Deploy(SingleApproval, {"run_once", "cancel"}, Budget(1, 0, 0, 0))
        EXCEPT !.deadline = 2]}
FaultAfterCall == {Deploy(SinglePayment, {"run_once"}, Budget(1, 1, 0, 0))}
===============================================================================
