----------------------------- MODULE PipelineLoop -----------------------------
(* The pipeline re-entry budget.                                             *)
(*                                                                           *)
(* QA review and acceptance may send the workflow back to an upstream stage  *)
(* when they discover missing evidence.  Every such question appends one     *)
(* PipelineLoopDecision to the history the workflow keeps, and the history   *)
(* is what the budget is computed from: its length, and its entries with the *)
(* same trigger, source stage or target.                                     *)
EXTENDS Naturals, Sequences, FiniteSets

CONSTANTS
  GlobalLimit,       \* PipelineLoopBudget.global_limit
  PerTriggerLimit,   \* PipelineLoopBudget.per_trigger_limit
  PerSourceLimit,    \* PipelineLoopBudget.per_source_stage_limit
  PerTargetLimit,    \* PipelineLoopBudget.per_target_limit
  Sources,           \* the stages that ask for re-entry
  Triggers,          \* the trigger kinds that evidence may raise
  PolicyUp,          \* subset of BOOLEAN: may can_reenter be evaluated at all
  MaxDecisions       \* bound on the length of the history

VARIABLE decisions

ObligationTriggers ==
  {"missing_obligations", "verification_missing_evidence",
   "acceptance_missing_required_obligations", "new_side_effects_discovered",
   "docs_impact_discovered", "examples_impact_discovered",
   "ci_build_impact_discovered", "codegen_build_impact_discovered",
   "integration_scope_discovered"}
ObserveTriggers ==
  {"missing_repository_observation", "missing_world_observation",
   "setup_gap_discovered", "environment_prerequisite_missing",
   "repair_exhausted_rediscovery_required"}
PlanTriggers ==
  {"plan_incomplete", "publish_deeper_planning_required",
   "packet_replanning_required"}
TriggerKinds ==
  ObligationTriggers \cup ObserveTriggers \cup PlanTriggers
    \cup {"missing_research_evidence", "missing_context"}

ReentryStages == {"research", "observe", "build_context", "obligations", "plan"}
Targets == ReentryStages \cup {"continue", "finalize"}

ASSUME LoopAssumption ==
  /\ {GlobalLimit, PerTriggerLimit, PerSourceLimit, PerTargetLimit} \subseteq Nat
  /\ MaxDecisions \in Nat
  /\ Triggers \subseteq TriggerKinds
  /\ PolicyUp \subseteq BOOLEAN

-----------------------------------------------------------------------------
TargetForTrigger(trigger) ==
  IF trigger \in ObligationTriggers THEN "obligations"
  ELSE IF trigger \in ObserveTriggers THEN "observe"
  ELSE IF trigger \in PlanTriggers THEN "plan"
  ELSE IF trigger = "missing_research_evidence" THEN "research"
  ELSE "build_context"

LoopDecision(source, trigger, target) ==
  [source |-> source, trigger |-> trigger, target |-> target]

LoopDecisions ==
  [source : Sources, trigger : Triggers \cup {"none"}, target : Targets]

(* The positions of the history with a given value of a field.               *)
WithTrigger(prior, t) == {i \in DOMAIN prior : prior[i].trigger = t}
WithSource(prior, src) == {i \in DOMAIN prior : prior[i].source = src}
WithTarget(prior, tgt) == {i \in DOMAIN prior : prior[i].target = tgt}

(* Faulty: the target's budget is forgotten.                                 *)
ExhaustedAnyTarget(prior, source, trigger) ==
  \/ Len(prior) >= GlobalLimit
  \/ Cardinality(WithTrigger(prior, trigger)) >= PerTriggerLimit
  \/ Cardinality(WithSource(prior, source)) >= PerSourceLimit

(* Faulty: the source stage's budget is compared for equality.               *)
ExhaustedOnce(prior, source, trigger) ==
  \/ Len(prior) >= GlobalLimit
  \/ Cardinality(WithTrigger(prior, trigger)) >= PerTriggerLimit
  \/ Cardinality(WithSource(prior, source)) = PerSourceLimit
  \/ Cardinality(WithTarget(prior, TargetForTrigger(trigger))) >= PerTargetLimit

Exhausted(prior, source, trigger) ==
  \/ Len(prior) >= GlobalLimit
  \/ Cardinality(WithTrigger(prior, trigger)) >= PerTriggerLimit
  \/ Cardinality(WithSource(prior, source)) >= PerSourceLimit
  \/ Cardinality(WithTarget(prior, TargetForTrigger(trigger))) >= PerTargetLimit

(* PipelineLoopPolicy.evaluate.  `up` says whether the policy engine answers; *)
(* when it does, can_reenter denies exactly the exhausted budget.            *)
Evaluate(prior, source, trigger, up) ==
  LoopDecision(source, trigger,
    IF trigger = "none" THEN "continue"
    ELSE IF up /\ ~Exhausted(prior, source, trigger)
         THEN TargetForTrigger(trigger)
         ELSE "finalize")

(* The decision QA review records when a repairable failure takes precedence *)
(* over re-entry.                                                            *)
ContinueDecision(source) == LoopDecision(source, "none", "continue")

-----------------------------------------------------------------------------
Init == decisions = <<>>

Ask(source, trigger, up) ==
  decisions' = Append(decisions, Evaluate(decisions, source, trigger, up))

PreferRepair(source) ==
  decisions' = Append(decisions, ContinueDecision(source))

Decide ==
  \/ \E source \in Sources, trigger \in Triggers \cup {"none"}, up \in PolicyUp :
       Ask(source, trigger, up)
  \/ \E source \in Sources : PreferRepair(source)

(* The history as it evolves, and as far as model checking follows it.       *)
History == Init /\ [][Decide]_decisions

Next == Len(decisions) < MaxDecisions /\ Decide

Spec == Init /\ [][Next]_decisions

-----------------------------------------------------------------------------
(* The type of the history.                                                  *)
TypeOK == decisions \in Seq(LoopDecisions)

Reentries == {i \in DOMAIN decisions : decisions[i].target \in ReentryStages}

(* Only the first GlobalLimit decisions of a workflow may re-enter: the      *)
(* global budget counts every decision, so once it is used up nothing        *)
(* re-enters any more, however the other budgets stand.                      *)
ReentriesAreEarly == \A i \in Reentries : i <= GlobalLimit

(* No more than GlobalLimit re-entries, no more than PerTriggerLimit for one *)
(* trigger, PerSourceLimit from one stage, PerTargetLimit into one stage.    *)
ReentriesBounded ==
  /\ Cardinality(Reentries) <= GlobalLimit
  /\ \A t \in Triggers :
       Cardinality(Reentries \cap WithTrigger(decisions, t)) <= PerTriggerLimit
  /\ \A src \in Sources :
       Cardinality(Reentries \cap WithSource(decisions, src)) <= PerSourceLimit
  /\ \A tgt \in ReentryStages :
       Cardinality(WithTarget(decisions, tgt)) <= PerTargetLimit

(* While the policy engine answers, a stage that was once denied re-entry    *)
(* for a trigger is denied it for the rest of the workflow, however many     *)
(* other questions come in between: nothing gives budget back.  (Another     *)
(* stage may still re-enter for the trigger: the budget of a source stage    *)
(* is its own.)                                                              *)
DenialIsFinal ==
  \A i, j \in DOMAIN decisions :
    (/\ i < j
     /\ decisions[i].target = "finalize"
     /\ decisions[j].trigger = decisions[i].trigger
     /\ decisions[j].source = decisions[i].source)
      => decisions[j].target \notin ReentryStages
=============================================================================
