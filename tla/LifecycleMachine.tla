--------------------------- MODULE LifecycleMachine ---------------------------
(* One question to the lifecycle machine: the facts the control plane holds, *)
(* the event it reports, the engine that happens to answer, and the decision. *)
(* The workflow asks again, with new facts, after every such event.          *)
EXTENDS Lifecycle

CONSTANT FactSpace   \* the facts the control plane may hold

ASSUME FactSpaceAssumption == FactSpace \subseteq Facts

VARIABLES facts, event, engine, decision

machineVars == <<facts, event, engine, decision>>

Unanswered == Decision("none", FALSE, {})

Init ==
  /\ facts \in FactSpace
  /\ event = "none"
  /\ engine = "none"
  /\ decision = Unanswered

Ask(e, asked) ==
  /\ event = "none"
  /\ event' = e
  /\ engine' = asked
  /\ decision' = Transition(asked, e, facts)
  /\ UNCHANGED facts

Next == \E e \in Events, asked \in Engines : Ask(e, asked)

Spec == Init /\ [][Next]_machineVars

-----------------------------------------------------------------------------
(* The types of the question and of the answer.                              *)
NextStages == {"none", "finalize", "verify", "publish", "repair",
               "execution_review"}
TypeOK ==
  /\ facts \in FactSpace
  /\ event \in Events \cup {"none"}
  /\ engine \in Engines \cup {"none"}
  /\ decision.next \in NextStages
  /\ decision.allowed \in BOOLEAN

(* runtime.rego and the Python fallback, one of which lists what permits and *)
(* the other what forbids: whatever the fallback allows Rego allows, and     *)
(* what Rego allows the fallback refuses only for a violation that the facts *)
(* themselves report.  lifecycle_facts never reports one.                    *)
EnginesAgree ==
  \A q \in Queries :
    /\ FallbackViolations(q, facts) = {} => RegoAllows(q, facts)
    /\ RegoAllows(q, facts) =>
         FallbackViolations(q, facts) \subseteq facts.violations

(* On facts that report no violation of their own a workflow takes the same  *)
(* route whichever of the two engines answered; on all others Rego, which    *)
(* does not read them, at least publishes and repairs where the fallback     *)
(* does.                                                                     *)
RoutesAgree ==
  \A e \in Events :
    LET opa == Transition("opa", e, facts)
        fallback == Transition("fallback", e, facts)
    IN  /\ facts.violations = {} =>
             opa.next = fallback.next /\ opa.allowed = fallback.allowed
        /\ fallback.next \in {"publish", "repair"} => opa.next = fallback.next

(* The machine sends a workflow to publish only with a successful execution, *)
(* no missing environment and its mandatory verification done; after         *)
(* acceptance also only if the gate is open and nothing is published yet.    *)
PublishIsGated ==
  decision.next = "publish" =>
    /\ facts.executionSucceeded
    /\ ~facts.envBlocked
    /\ facts.verificationRequired => facts.verificationSatisfied
    /\ event = "acceptance" =>
         facts.acceptance \in {"accepted", "only_publish_missing"}
           /\ ~facts.publish.done

(* Only failed publish checks or publish blockers are repaired, never a      *)
(* publisher that did more than publish, and only within the attempts.       *)
RepairIsGated ==
  decision.next = "repair" =>
    /\ event = "publish"
    /\ facts.repairs < facts.maxRepairs
    /\ facts.publish.failedChecks \/ facts.publish.hasBlockers
    /\ ~facts.publish.forbidden
    /\ ~facts.envBlocked

(* Without a policy engine nothing is published and nothing repaired, and an *)
(* execution, a publication or a repair ends the workflow as a violation.    *)
FailsClosed ==
  engine = "unavailable" =>
    /\ decision.next \notin {"publish", "repair"}
    /\ event \in {"execution", "publish", "repair"} =>
         decision.next = "finalize" /\ ~decision.allowed
=============================================================================
