-------------------------- MODULE ExecutionCheckpoint --------------------------
(***************************************************************************)
(* The durable workflow.Execution document and the rules every             *)
(* ExecutionStore applies before it accepts a new revision of it:          *)
(* Execution.ValidateCheckpoint and ValidateExecutionUpdate.               *)
(*                                                                         *)
(* A document keeps its revision, its status, the index of the next step,  *)
(* one record per step, the pending approval and the approval recorded for *)
(* each step.  Identity, input, context, outputs and timestamps never      *)
(* decide a transition and are left out; steps are numbered from 1.        *)
(***************************************************************************)
EXTENDS Naturals, Sequences

ExecutionStatus == {"running", "awaiting_approval", "recovery_required",
                    "completed", "failed", "canceled"}

TerminalStatus == {"completed", "failed", "canceled"}

StepStatus == {"pending", "running", "skipped", "awaiting_approval",
               "recovery_required", "completed", "failed", "canceled"}

(* allowedExecutionTransition: the successors of each status but itself. *)
ExecutionSuccessors ==
    [running           |-> {"awaiting_approval", "recovery_required"}
                              \cup TerminalStatus,
     awaiting_approval |-> {"running", "failed", "canceled"},
     recovery_required |-> {"running"} \cup TerminalStatus,
     completed         |-> {},
     failed            |-> {},
     canceled          |-> {}]

\* Mutant: saving a document in the status it has is refused.
AllowedExecutionTransitionStrict(before, after) ==
    after \in ExecutionSuccessors[before]

AllowedExecutionTransition(before, after) ==
    before = after \/ after \in ExecutionSuccessors[before]

\* Mutant: a running step cannot be handed to recovery.
StepSuccessorsWithoutRecovery ==
    [pending           |-> {"running", "skipped", "failed", "canceled"},
     running           |-> {"completed", "failed", "canceled",
                            "awaiting_approval"},
     awaiting_approval |-> {"running", "failed", "canceled"},
     recovery_required |-> {"running", "completed", "failed", "canceled"},
     skipped |-> {}, completed |-> {}, failed |-> {}, canceled |-> {}]

(* allowedStepTransition, in the same form. *)
StepSuccessors ==
    [pending           |-> {"running", "skipped", "failed", "canceled"},
     running           |-> {"completed", "failed", "canceled",
                            "awaiting_approval", "recovery_required"},
     awaiting_approval |-> {"running", "failed", "canceled"},
     recovery_required |-> {"running", "completed", "failed", "canceled"},
     skipped           |-> {},
     completed         |-> {},
     failed            |-> {},
     canceled          |-> {}]

AllowedStepTransition(before, after) ==
    before = after \/ after \in StepSuccessors[before]

(* ValidateCheckpoint, for the fields kept here.  NoApproval is the empty  *)
(* approval id.                                                            *)
ValidCheckpoint(execution, NoApproval) ==
    /\ execution.status \in ExecutionStatus
    /\ execution.next \in 1 .. (Len(execution.steps) + 1)
    /\ (execution.status = "awaiting_approval")
          <=> (execution.pending # NoApproval)
    /\ \A i \in DOMAIN execution.steps :
          execution.steps[i].status \in StepStatus

(* ValidateExecutionUpdate: what a new revision may change. *)
ValidUpdate(before, after) ==
    /\ before.rev = after.rev
    /\ before.status \notin TerminalStatus
    /\ AllowedExecutionTransition(before.status, after.status)
    /\ after.next \in {before.next, before.next + 1}
    /\ \A i \in DOMAIN before.steps :
          /\ after.steps[i].attempts >= before.steps[i].attempts
          /\ AllowedStepTransition(before.steps[i].status,
                                   after.steps[i].status)

===============================================================================
