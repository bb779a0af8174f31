------------------------------ MODULE Lifecycle ------------------------------
(* The lifecycle policy and the lifecycle state machine.                     *)
(*                                                                           *)
(* After execution, acceptance, publish and repair the control plane builds  *)
(* a record of facts and asks LifecycleStateMachine.transition where to go.  *)
(* The machine in turn asks a policy evaluator named queries; the evaluator  *)
(* is either the OPA engine running runtime.rego, the in-process fallback,   *)
(* or - in opa_required mode without a usable engine - a refusal.            *)
(*                                                                           *)
(* Facts are kept as a record.  The publish result is summarised by the      *)
(* record `publish`, the acceptance decision by `acceptance`.                *)
EXTENDS Naturals

GitActions == {"pr", "push", "commit"}
Engines == {"opa", "fallback", "unavailable"}
Events == {"execution", "acceptance", "publish", "repair", "other"}
Queries == {"can_leave_execute", "can_publish", "can_leave_publish",
            "can_repair", "can_reenter", "can_finalize_success"}

(* What the facts say of a publish result; NoPublish when there is none.     *)
PublishFacts == [done : BOOLEAN, stageFailed : BOOLEAN, forbidden : BOOLEAN,
                 failedChecks : BOOLEAN, hasBlockers : BOOLEAN]
NoPublish == [done |-> FALSE, stageFailed |-> FALSE, forbidden |-> FALSE,
              failedChecks |-> FALSE, hasBlockers |-> FALSE]

(* An acceptance decision, as far as the lifecycle reads it: absent,         *)
(* accepted, rejected only for the publish obligation, or rejected.          *)
AcceptanceFacts == {"absent", "accepted", "only_publish_missing", "rejected"}

(* `violations` are the violations the facts themselves report               *)
(* (control_plane_violations).  Rego does not read them.                     *)
Facts == [violations : SUBSET STRING, stageFailed : BOOLEAN,
          git : SUBSET GitActions, envBlocked : BOOLEAN,
          verificationRequired : BOOLEAN,
          verificationSatisfied : BOOLEAN, executionSucceeded : BOOLEAN,
          publishRequired : BOOLEAN, publish : PublishFacts,
          acceptance : AcceptanceFacts, repairs : Nat, maxRepairs : Nat,
          reentryRequired : BOOLEAN, reentryTarget : STRING,
          reentryExhausted : BOOLEAN]

-----------------------------------------------------------------------------
(* The in-process evaluator: the violation codes a query adds to those of    *)
(* the facts, and all of them.  No re-entry is always allowed.               *)
When(condition, code) == IF condition THEN {code} ELSE {}

Objections(query, f) ==
  IF query = "can_leave_execute" THEN
         When(f.stageFailed, "openhands_execute_no_usable_result")
           \cup When("pr" \in f.git, "execute_created_pr")
           \cup When("push" \in f.git, "execute_pushed_git")
           \cup When("commit" \in f.git, "execute_committed_git")
           \cup When(f.git # {}, "execute_forbidden_action")
  ELSE IF query = "can_publish" THEN
         When(f.envBlocked, "publish_blocked_by_environment")
           \cup When(f.verificationRequired /\ ~f.verificationSatisfied,
                     "publish_requires_mandatory_verification")
           \cup When(~f.executionSucceeded,
                     "publish_requires_successful_execution")
  ELSE IF query = "can_leave_publish" THEN
         When(f.publish.stageFailed, "openhands_publish_no_usable_result")
           \cup When(f.publish.forbidden, "publisher_repaired_or_reimplemented")
  ELSE IF query = "can_repair" THEN
         When(f.envBlocked, "repair_blocked_by_environment")
           \cup When(f.repairs >= f.maxRepairs, "repair_attempt_limit_reached")
           \cup When(~f.publish.failedChecks /\ ~f.publish.hasBlockers,
                     "repair_requires_failed_publish_checks")
  ELSE IF query = "can_reenter" THEN
         When(f.reentryExhausted, "pipeline_reentry_budget_exhausted")
           \cup When(f.reentryTarget = "continue",
                     "pipeline_reentry_missing_target")
  ELSE When(f.acceptance # "accepted", "finalize_requires_acceptance")

FallbackViolations(query, f) ==
  IF query = "can_reenter" /\ ~f.reentryRequired THEN {}
  ELSE f.violations \cup Objections(query, f)

(* Faulty: the attempt at the limit is still allowed.                        *)
RegoCanRepairLate(f) ==
  /\ ~f.envBlocked
  /\ f.repairs <= f.maxRepairs
  /\ f.publish.failedChecks \/ f.publish.hasBlockers

RegoCanRepair(f) ==
  \/ ~f.envBlocked /\ f.repairs < f.maxRepairs /\ f.publish.failedChecks
  \/ ~f.envBlocked /\ f.repairs < f.maxRepairs /\ f.publish.hasBlockers

RegoCanPublish(f) ==
  \/ f.executionSucceeded /\ ~f.envBlocked /\ ~f.verificationRequired
  \/ /\ f.executionSucceeded
     /\ ~f.envBlocked
     /\ f.verificationRequired
     /\ f.verificationSatisfied

(* The rules of runtime.rego, which answer a plain boolean.                  *)
RegoAllows(query, f) ==
  IF query = "can_leave_execute" THEN
         /\ ~f.stageFailed
         /\ "pr" \notin f.git
         /\ "push" \notin f.git
         /\ "commit" \notin f.git
         /\ f.git = {}
  ELSE IF query = "can_publish" THEN RegoCanPublish(f)
  ELSE IF query = "can_leave_publish" THEN
         ~f.publish.stageFailed /\ ~f.publish.forbidden
  ELSE IF query = "can_repair" THEN RegoCanRepair(f)
  ELSE IF query = "can_reenter" THEN
         \/ /\ f.reentryRequired
            /\ f.reentryTarget # "continue"
            /\ ~f.reentryExhausted
         \/ ~f.reentryRequired
  ELSE f.acceptance = "accepted"

(* Faulty: without a usable engine the in-process rules answer instead.      *)
EvaluateOpen(engine, query, f) ==
  IF engine = "opa" THEN [allowed |-> RegoAllows(query, f), violations |-> {}]
  ELSE [allowed |-> FallbackViolations(query, f) = {},
        violations |-> FallbackViolations(query, f)]

(* A policy decision.  A boolean answer of OPA carries no violations; the    *)
(* refusal of opa_required mode carries one of its own.                      *)
Evaluate(engine, query, f) ==
  IF engine = "opa"
    THEN [allowed |-> RegoAllows(query, f), violations |-> {}]
  ELSE IF engine = "fallback"
    THEN [allowed |-> FallbackViolations(query, f) = {},
          violations |-> FallbackViolations(query, f)]
  ELSE [allowed |-> FALSE,
        violations |-> f.violations \cup {"policy_evaluation_unavailable"}]

-----------------------------------------------------------------------------
(* LifecycleStateMachine.transition: the graph stage that follows, whether   *)
(* the transition is legal, and the violations handed to acceptance.         *)
Decision(next, allowed, violations) ==
  [next |-> next, allowed |-> allowed, violations |-> violations]

AfterExecution(engine, f) ==
  LET leave == Evaluate(engine, "can_leave_execute", f)
      publish == Evaluate(engine, "can_publish", f)
  IN  IF ~leave.allowed THEN Decision("finalize", FALSE, leave.violations)
      ELSE IF \/ f.envBlocked
              \/ f.verificationRequired /\ ~f.verificationSatisfied
              \/ ~f.publishRequired
        THEN Decision("verify", TRUE, {})
      ELSE IF publish.allowed THEN Decision("publish", TRUE, {})
      ELSE Decision("verify", TRUE, publish.violations)

(* Faulty: an open gate publishes without asking can_publish.                *)
AfterAcceptanceUnasked(engine, f) ==
  IF f.acceptance = "absent" THEN Decision("finalize", FALSE, {})
  ELSE IF /\ f.publishRequired
          /\ ~f.publish.done
          /\ f.verificationSatisfied
          /\ f.acceptance \in {"accepted", "only_publish_missing"}
       THEN Decision("publish", TRUE, {})
       ELSE Decision("finalize", f.acceptance = "accepted", {})

AfterAcceptance(engine, f) ==
  LET gateReady == f.acceptance \in {"accepted", "only_publish_missing"}
  IN  IF f.acceptance = "absent" THEN Decision("finalize", FALSE, {})
      ELSE IF /\ f.publishRequired
              /\ ~f.publish.done
              /\ f.verificationSatisfied
              /\ gateReady
              /\ Evaluate(engine, "can_publish", f).allowed
           THEN Decision("publish", TRUE, {})
           ELSE Decision("finalize", f.acceptance = "accepted", {})

(* Faulty: every failed publication is repaired.                             *)
AfterPublishUnbounded(engine, f) ==
  LET leave == Evaluate(engine, "can_leave_publish", f)
  IN  IF ~leave.allowed THEN Decision("finalize", FALSE, leave.violations)
      ELSE IF f.publish.failedChecks \/ f.publish.hasBlockers
           THEN Decision("repair", TRUE, {})
           ELSE Decision("finalize", TRUE, {})

AfterPublish(engine, f) ==
  LET leave == Evaluate(engine, "can_leave_publish", f)
      repair == Evaluate(engine, "can_repair", f)
      failed == f.publish.failedChecks \/ f.publish.hasBlockers
  IN  IF ~leave.allowed THEN Decision("finalize", FALSE, leave.violations)
      ELSE IF ~failed THEN Decision("finalize", TRUE, {})
      ELSE IF repair.allowed THEN Decision("repair", TRUE, {})
      ELSE Decision("verify", FALSE, repair.violations)

AfterRepair(engine, f) ==
  LET leave == Evaluate(engine, "can_leave_execute", f)
  IN  IF leave.allowed THEN Decision("execution_review", TRUE, {})
                       ELSE Decision("finalize", FALSE, leave.violations)

Transition(engine, event, f) ==
  IF event = "execution" THEN AfterExecution(engine, f)
  ELSE IF event = "acceptance" THEN AfterAcceptance(engine, f)
  ELSE IF event = "publish" THEN AfterPublish(engine, f)
  ELSE IF event = "repair" THEN AfterRepair(engine, f)
  ELSE Decision("finalize", TRUE, {})

-----------------------------------------------------------------------------
(* acceptance_from_lifecycle_violation: the workflow status recorded when a  *)
(* transition was refused.                                                   *)
RefusalStatus(violations) ==
  IF violations \cap {"openhands_execute_no_usable_result",
                      "openhands_publish_no_usable_result"} # {}
  THEN "agent_failed" ELSE "control_plane_violation"
=============================================================================
