---------------------------- MODULE LifecycleProofs ----------------------------
(* What holds of the lifecycle machine whatever the facts are.               *)
EXTENDS LifecycleMachine, TLAPS

(* The facts are among those allowed, throughout.                            *)
FactsKnown == facts \in Facts

LEMMA FactsAreKnown == Spec => []FactsKnown
<1>1. Init => FactsKnown
  BY FactSpaceAssumption DEF Init, FactsKnown
<1>2. FactsKnown /\ [Next]_machineVars => FactsKnown'
  BY DEF FactsKnown, Next, Ask, machineVars
<1>. QED  BY <1>1, <1>2, PTL DEF Spec

(* The answers have the shape of a decision, and only of a known stage.      *)
LEMMA AnswerTyped ==
  ASSUME NEW f \in Facts, NEW e \in Events, NEW by \in Engines
  PROVE  /\ Transition(by, e, f).next \in NextStages
         /\ Transition(by, e, f).allowed \in BOOLEAN
<1>1. CASE e = "execution"
  BY <1>1 DEF Transition, AfterExecution, Decision, NextStages
<1>2. CASE e = "acceptance"
  BY <1>2 DEF Transition, AfterAcceptance, Decision, NextStages
<1>3. CASE e = "publish"
  BY <1>3 DEF Transition, AfterPublish, Decision, NextStages
<1>4. CASE e = "repair"
  BY <1>4 DEF Transition, AfterRepair, Decision, NextStages
<1>5. CASE e = "other"
  BY <1>5 DEF Transition, Decision, NextStages
<1>. QED  BY <1>1, <1>2, <1>3, <1>4, <1>5 DEF Events

(* The question and the answer keep their types.                             *)
THEOREM TypesKept == Spec => []TypeOK
<1>1. Init => TypeOK
  BY DEF Init, TypeOK, Unanswered, Decision, NextStages
<1>2. TypeOK /\ [Next]_machineVars => TypeOK'
  <2>1. ASSUME TypeOK, NEW e \in Events, NEW asked \in Engines, Ask(e, asked)
        PROVE  TypeOK'
    <3>1. facts \in Facts
      BY <2>1, FactSpaceAssumption DEF TypeOK
    <3>. QED  BY <2>1, <3>1, AnswerTyped DEF Ask, TypeOK
  <2>. QED  BY <2>1 DEF Next, machineVars, TypeOK
<1>. QED  BY <1>1, <1>2, PTL DEF Spec

-----------------------------------------------------------------------------
(* The rules of runtime.rego permit, query by query, what the fallback has   *)
(* no objection of its own to.                                               *)
LEMMA SameAnswer ==
  ASSUME NEW f \in Facts, NEW q \in Queries
  PROVE  RegoAllows(q, f) <=> \/ Objections(q, f) = {}
                              \/ q = "can_reenter" /\ ~f.reentryRequired
<1>1. CASE q = "can_leave_execute"
  BY <1>1 DEF RegoAllows, Objections, When, Facts, GitActions
<1>2. CASE q = "can_publish"
  BY <1>2 DEF RegoAllows, RegoCanPublish, Objections, When, Facts
<1>3. CASE q = "can_leave_publish"
  BY <1>3 DEF RegoAllows, Objections, When, Facts, PublishFacts
<1>4. CASE q = "can_repair"
  BY <1>4 DEF RegoAllows, RegoCanRepair, Objections, When, Facts, PublishFacts
<1>5. CASE q = "can_reenter"
  BY <1>5 DEF RegoAllows, Objections, When, Facts
<1>6. CASE q = "can_finalize_success"
  BY <1>6 DEF RegoAllows, Objections, When, Facts
<1>. QED  BY <1>1, <1>2, <1>3, <1>4, <1>5, <1>6 DEF Queries

(* Hence Rego allows at least what the fallback allows, and the fallback     *)
(* objects beyond Rego only by the violations of the facts.                  *)
LEMMA RegoAllowsMore ==
  ASSUME NEW f \in Facts, NEW q \in Queries
  PROVE  /\ FallbackViolations(q, f) = {} => RegoAllows(q, f)
         /\ RegoAllows(q, f) => FallbackViolations(q, f) \subseteq f.violations
BY SameAnswer DEF FallbackViolations

LEMMA VerdictsFollow ==
  ASSUME NEW f \in Facts, NEW q \in Queries
  PROVE  /\ Evaluate("fallback", q, f).allowed => Evaluate("opa", q, f).allowed
         /\ f.violations = {} =>
              (Evaluate("opa", q, f).allowed <=> Evaluate("fallback", q, f).allowed)
BY RegoAllowsMore DEF Evaluate

(* Rego and the fallback differ on no query but by the violations that the   *)
(* facts themselves report.                                                  *)
THEOREM EnginesAlwaysAgree == Spec => []EnginesAgree
<1>1. FactsKnown => EnginesAgree
  BY RegoAllowsMore DEF FactsKnown, EnginesAgree
<1>. QED  BY <1>1, FactsAreKnown, PTL

(* A workflow takes the same route whichever engine answered, where the      *)
(* facts report no violation; elsewhere Rego too publishes and repairs where *)
(* the fallback does.                                                        *)
THEOREM RoutesAlwaysAgree == Spec => []RoutesAgree
<1>1. ASSUME NEW f \in Facts, NEW e \in Events
      PROVE  LET opa == Transition("opa", e, f)
                 fallback == Transition("fallback", e, f)
             IN  /\ f.violations = {} =>
                      opa.next = fallback.next /\ opa.allowed = fallback.allowed
                 /\ fallback.next \in {"publish", "repair"} =>
                      opa.next = fallback.next
  <2>. DEFINE allows(by, q) == Evaluate(by, q, f).allowed
  <2>1. \A q \in Queries :
          /\ allows("fallback", q) => allows("opa", q)
          /\ f.violations = {} => (allows("opa", q) <=> allows("fallback", q))
    BY VerdictsFollow
  <2>. HIDE DEF allows
  <2>2. {"can_leave_execute", "can_publish", "can_leave_publish",
         "can_repair"} \subseteq Queries
    BY DEF Queries
  <2>. USE DEF allows
  <2>3. CASE e = "execution"
    BY <2>1, <2>2, <2>3 DEF Transition, AfterExecution, Decision
  <2>4. CASE e = "acceptance"
    BY <2>1, <2>2, <2>4 DEF Transition, AfterAcceptance, Decision
  <2>5. CASE e = "publish"
    BY <2>1, <2>2, <2>5 DEF Transition, AfterPublish, Decision
  <2>6. CASE e = "repair"
    BY <2>1, <2>2, <2>6 DEF Transition, AfterRepair, Decision
  <2>7. CASE e = "other"
    BY <2>7 DEF Transition, Decision
  <2>. QED  BY <2>3, <2>4, <2>5, <2>6, <2>7 DEF Events
<1>2. FactsKnown => RoutesAgree
  BY <1>1 DEF RoutesAgree, FactsKnown
<1>. QED  BY <1>2, FactsAreKnown, PTL

-----------------------------------------------------------------------------
(* The gates.  Each is an invariant with the range of the facts: before the  *)
(* answer there is no decision, and the answer is read off the transition.   *)
(* Publication follows only a successful execution in a complete             *)
(* environment, verified where that is mandatory, and after acceptance only  *)
(* through an open gate.                                                     *)
THEOREM PublishAlwaysGated == Spec => []PublishIsGated
<1>1. Init => PublishIsGated
  BY DEF Init, PublishIsGated, Unanswered, Decision
<1>2. FactsKnown /\ PublishIsGated /\ [Next]_machineVars => PublishIsGated'
  <2>. SUFFICES ASSUME FactsKnown, PublishIsGated, [Next]_machineVars
                PROVE  PublishIsGated'
    OBVIOUS
  <2>1. CASE UNCHANGED machineVars
    BY <2>1 DEF PublishIsGated, machineVars
  <2>2. ASSUME NEW e \in Events, NEW asked \in Engines, Ask(e, asked)
        PROVE  PublishIsGated'
    <3>1. event' = e /\ facts' = facts /\ decision' = Transition(asked, e, facts)
      BY <2>2 DEF Ask
    <3>2. Evaluate(asked, "can_publish", facts).allowed =>
            /\ facts.executionSucceeded
            /\ ~facts.envBlocked
            /\ facts.verificationRequired => facts.verificationSatisfied
      BY RegoAllowsMore DEF Evaluate, RegoAllows, RegoCanPublish, FactsKnown, Queries
    <3>3. CASE e = "execution"
      BY <3>1, <3>2, <3>3 DEF PublishIsGated, Transition, AfterExecution, Decision
    <3>4. CASE e = "acceptance"
      BY <3>1, <3>2, <3>4 DEF PublishIsGated, Transition, AfterAcceptance, Decision
    <3>5. CASE e \notin {"execution", "acceptance"}
      BY <3>1, <3>5 DEF PublishIsGated, Transition, AfterPublish, AfterRepair,
                        Decision
    <3>. QED  BY <3>3, <3>4, <3>5
  <2>. QED  BY <2>1, <2>2 DEF Next
<1>. QED  BY <1>1, <1>2, FactsAreKnown, PTL DEF Spec

(* Repair follows only a publication that failed its checks, within the      *)
(* attempts, and never one that repaired by itself.                          *)
THEOREM RepairAlwaysGated == Spec => []RepairIsGated
<1>1. Init => RepairIsGated
  BY DEF Init, RepairIsGated, Unanswered, Decision
<1>2. FactsKnown /\ RepairIsGated /\ [Next]_machineVars => RepairIsGated'
  <2>. SUFFICES ASSUME FactsKnown, RepairIsGated, [Next]_machineVars
                PROVE  RepairIsGated'
    OBVIOUS
  <2>1. CASE UNCHANGED machineVars
    BY <2>1 DEF RepairIsGated, machineVars
  <2>2. ASSUME NEW e \in Events, NEW asked \in Engines, Ask(e, asked)
        PROVE  RepairIsGated'
    <3>1. event' = e /\ facts' = facts /\ decision' = Transition(asked, e, facts)
      BY <2>2 DEF Ask
    <3>2. Evaluate(asked, "can_repair", facts).allowed =>
            ~facts.envBlocked /\ facts.repairs < facts.maxRepairs
      BY RegoAllowsMore DEF Evaluate, RegoAllows, RegoCanRepair, FactsKnown, Queries
    <3>3. Evaluate(asked, "can_leave_publish", facts).allowed =>
            ~facts.publish.forbidden
      BY RegoAllowsMore DEF Evaluate, RegoAllows, FactsKnown, Queries
    <3>4. CASE e = "publish"
      BY <3>1, <3>2, <3>3, <3>4
         DEF RepairIsGated, Transition, AfterPublish, Decision
    <3>5. CASE e # "publish"
      BY <3>1, <3>5 DEF RepairIsGated, Transition, AfterExecution,
                        AfterAcceptance, AfterRepair, Decision
    <3>. QED  BY <3>4, <3>5
  <2>. QED  BY <2>1, <2>2 DEF Next
<1>. QED  BY <1>1, <1>2, FactsAreKnown, PTL DEF Spec

(* Without a policy engine nothing is published or repaired.                 *)
THEOREM AlwaysFailsClosed == Spec => []FailsClosed
<1>1. Init => FailsClosed
  BY DEF Init, FailsClosed
<1>2. FailsClosed /\ [Next]_machineVars => FailsClosed'
  <2>. SUFFICES ASSUME FailsClosed, [Next]_machineVars
                PROVE  FailsClosed'
    OBVIOUS
  <2>1. CASE UNCHANGED machineVars
    BY <2>1 DEF FailsClosed, machineVars
  <2>2. ASSUME NEW e \in Events, Ask(e, "unavailable")
        PROVE  FailsClosed'
    <3>1. event' = e /\ decision' = Transition("unavailable", e, facts)
      BY <2>2 DEF Ask
    <3>2. \A q \in Queries : ~Evaluate("unavailable", q, facts).allowed
      BY DEF Evaluate
    <3>3. CASE e = "execution"
      BY <3>1, <3>2, <3>3
         DEF FailsClosed, Transition, AfterExecution, Decision, Queries
    <3>4. CASE e = "acceptance"
      BY <3>1, <3>2, <3>4
         DEF FailsClosed, Transition, AfterAcceptance, Decision, Queries
    <3>5. CASE e = "publish"
      BY <3>1, <3>2, <3>5
         DEF FailsClosed, Transition, AfterPublish, Decision, Queries
    <3>6. CASE e = "repair"
      BY <3>1, <3>2, <3>6
         DEF FailsClosed, Transition, AfterRepair, Decision, Queries
    <3>7. CASE e = "other"
      BY <3>1, <3>7 DEF FailsClosed, Transition, Decision
    <3>. QED  BY <3>3, <3>4, <3>5, <3>6, <3>7 DEF Events
  <2>3. ASSUME NEW e \in Events, NEW asked \in Engines, Ask(e, asked),
               asked # "unavailable"
        PROVE  FailsClosed'
    BY <2>3 DEF Ask, FailsClosed
  <2>. QED  BY <2>1, <2>2, <2>3 DEF Next
<1>. QED  BY <1>1, <1>2, PTL DEF Spec
=============================================================================
