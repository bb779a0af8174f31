------------------------------- MODULE Workflow -------------------------------
(* The artifact workflow: the stage graph, the state the stages share, its   *)
(* checkpoints, and resuming after a crash.                                  *)
(*                                                                           *)
(* The variable `s` is the workflow state.  A stage reads it, calls out to   *)
(* an LLM, to OpenHands or to the publisher, and returns an update; the      *)
(* graph merges the update, checks the merged state and writes it as a       *)
(* checkpoint before the next stage starts.  A stage is one action, so at    *)
(* every state `s` is also the last checkpoint.  What a crash interrupts is  *)
(* the call out, whose effect on the world may have happened already.        *)
(*                                                                           *)
(* What the outside answers is chosen from CONSTANT sets.                    *)
EXTENDS Naturals, Sequences, FiniteSets, Lifecycle, Decomposition

CONSTANTS
  None,                \* an absent field of the state
  Routes,              \* routing decisions: [fresh, observe : BOOLEAN]
  Gathered,            \* outcomes of research and observation
  Impacts,             \* impact discovered by the obligations: trigger or "none"
  Plans,               \* [mutates, tests, publish, world : BOOLEAN]
  PacketChains,        \* packet types of a plan the planner may decompose into
  PolicyVerdicts,      \* what the policy engine says of a plan
  Approvals,           \* what the approval provider may answer
  Outcomes,            \* execution results
  DeliverablesMissing, \* may an execution miss deliverables
  QaReports,           \* what the run of the QA plan may report
  Verdicts,            \* verification results
  PublishOutcomes,     \* publish results
  PolicyEngines,       \* lifecycle policy engines that may answer
  MaxRepairAttempts, RetryBudget,
  GlobalLimit, PerTriggerLimit, PerSourceLimit, PerTargetLimit,
  MaxCrashes           \* bound on the crashes of one behaviour

VARIABLES
  s,          \* the workflow state, also the last checkpoint
  node,       \* the stage that runs next
  exit,       \* "running", or why the run ended
  crashes,    \* resumes so far
  repairCalls, publishes,  \* calls out so far
  vouched     \* what was checked of the workspace since it last changed

vars == <<s, node, exit, crashes, repairCalls, publishes, vouched>>

(* The budget of pipeline re-entry, over the history kept in the state.      *)
TriggerSpace == {"none"} \cup Impacts \cup {v.trigger : v \in Verdicts}
L == INSTANCE PipelineLoop WITH
       decisions <- s.loops,
       Sources <- {"verify", "acceptance", "qa_review"},
       Triggers <- TriggerSpace \ {"none"},
       PolicyUp <- BOOLEAN,
       MaxDecisions <- 100

GatheredResults == {"ok", "failed"}
PolicyResults == {"allowed", "approval", "blocked"}
Executions ==
  [ok : BOOLEAN, status : {"succeeded", "partial", "failed", "blocked"},
   failure : {"none", "retryable", "fatal"}, git : SUBSET GitActions,
   blocker : {"none", "env", "generic", "code"},
   checks : {"none", "passed", "failed"}, mutated : BOOLEAN]
(* codeLike: the summary or a failed check speaks of a build or a test.      *)
Verifications ==
  [passed : BOOLEAN, checks : {"none", "passed", "failed"}, codeLike : BOOLEAN,
   gap : {"none", "evidence", "setup"}, trigger : L!TriggerKinds \cup {"none"},
   published : {"silent", "claimed", "denied"}]
PublishResults ==
  [ok : BOOLEAN, checks : {"none", "passed", "failed"}, blockers : BOOLEAN,
   forbidden : BOOLEAN, failed : BOOLEAN]
(* world: the plan's execution family works on the world - a repository, a   *)
(* host, a cluster or a network - and not on documents alone.                *)
PlanRecords ==
  [mutates : BOOLEAN, tests : BOOLEAN, publish : BOOLEAN, world : BOOLEAN]
(* "blocked": some item of the QA plan could not run in this environment.    *)
QaResults == {"ran", "blocked"}

ASSUME WorkflowAssumption ==
  /\ Routes \subseteq [fresh : BOOLEAN, observe : BOOLEAN]
  /\ Gathered \subseteq GatheredResults
  /\ Impacts \subseteq L!TriggerKinds \cup {"none"}
  /\ Plans \subseteq PlanRecords
  /\ \A chain \in PacketChains : chain \in Seq(PacketTypes)
  /\ PolicyVerdicts \subseteq PolicyResults
  /\ Approvals \subseteq BOOLEAN
  /\ Outcomes \subseteq Executions
  /\ DeliverablesMissing \subseteq BOOLEAN
  /\ QaReports \subseteq QaResults
  /\ Verdicts \subseteq Verifications
  /\ PublishOutcomes \subseteq PublishResults
  /\ PolicyEngines \subseteq Engines
  /\ {MaxRepairAttempts, RetryBudget, MaxCrashes} \subseteq Nat
  /\ {GlobalLimit, PerTriggerLimit, PerSourceLimit, PerTargetLimit} \subseteq Nat

-----------------------------------------------------------------------------
(* Stages, what each needs of the state, and what each status promises.  The *)
(* state is also checked for the form of its last transition, which every    *)
(* stage writes in the same way; that check is left out.                     *)
Stages ==
  {"intake", "classify", "route", "research", "observe", "build_context",
   "obligations", "done_contract", "plan", "policy", "approval",
   "workspace_prepare", "execute", "review", "qa_plan", "qa_execute",
   "qa_review", "acceptance", "publish", "post_publish_verify", "repair",
   "finalize"}

Required(stage) ==
  CASE stage \in {"intake", "classify", "build_context", "finalize"} -> {}
    [] stage = "route" -> {"classification"}
    [] stage \in {"research", "observe"} -> {"route"}
    [] stage = "obligations" -> {"classification", "route", "context"}
    [] stage = "done_contract" -> {"classification", "obligations"}
    [] stage = "plan" -> {"classification", "context", "obligations", "done"}
    [] stage = "policy" -> {"classification", "route", "plan"}
    [] stage = "approval" -> {"policy"}
    [] stage = "workspace_prepare" -> {"done"}
    [] stage = "execute" -> {"plan", "context"}
    [] stage = "review" -> {"plan", "execution", "done"}
    [] stage = "qa_plan" -> {"plan", "done"}
    [] stage = "qa_execute" -> {"qaPlan", "workspace"}
    [] stage = "qa_review" -> {"plan", "execution", "context", "qaReport"}
    [] stage = "acceptance" -> {"contract"}
    [] stage = "publish" -> {"plan", "execution", "done", "acceptance"}
    [] stage = "post_publish_verify" -> {"plan", "publish"}
    [] stage = "repair" -> {"plan", "execution"}

Ready(st, stage) == \A f \in Required(stage) : st[f] # None

StatusFields ==
  [created |-> {},
   intake_completed |-> {"intake"},
   classified |-> {"classification"},
   routed |-> {"classification", "route"},
   researched |-> {"research"},
   observed |-> {"observation"},
   context_built |-> {"context"},
   obligations_synthesized |-> {"obligations"},
   done_contract_built |-> {"done"},
   planned |-> {"plan", "contract", "packets"},
   policy_checked |-> {"plan", "policy"},
   approval_resolved |-> {"policy", "approval"},
   workspace_prepared |-> {"workspace"},
   executed |-> {"plan", "execution"},
   reviewed |-> {"execution", "review"},
   qa_planned |-> {"qaPlan"},
   qa_executed |-> {"workspace", "qaReport"},
   qa_reviewed |-> {"qaReview"},
   repaired |-> {"execution"},
   published |-> {"publish"},
   post_publish_verified |-> {"publish", "publishReview"},
   acceptance_evaluated |-> {"acceptance"},
   reported |-> {"report"}]

StatusRequires(status) == StatusFields[status]

Valid(st) == \A f \in StatusRequires(st.status) : st[f] # None

Maybe(set) == set \cup {None}
Made == "made"      \* a field whose content no property tells apart

ObligationKinds == {"code_changed", "tests_passed", "publish", "evidence"}
Acceptances ==
  [unmet : SUBSET ObligationKinds,
   status : {"accepted", "needs_environment", "rejected",
             "needs_human_review"},
   final : {"completed", "needs_environment", "partially_completed", "failed",
            "needs_human_review", "agent_failed", "control_plane_violation"}]
ReviewKinds == {"pass", "agent_retry", "policy_violation", "fail_code"}
QaKinds == {"pass", "fail_code", "fail_env", "fail_requirements"}
Progressions == [stage : {"qa_plan", "execute", "finalize", "verify"},
                 terminal : BOOLEAN, blocked : BOOLEAN,
                 hint : {"none", "failed", "needs_environment", "blocked"},
                 next : Nat]
Statuses == DOMAIN StatusFields
Decisions == Stages \cup {"verify"}
ReportStatuses ==
  {"none", "failed", "needs_environment", "blocked", "completed",
   "partially_completed", "needs_human_review", "agent_failed",
   "control_plane_violation", "research_failed", "observation_failed",
   "execution_failed", "publish_failed", "verified_not_published",
   "implemented_only", "planned_only"}

WorkflowStates ==
  [status : Statuses, intake : Maybe({Made}), classification : Maybe({Made}),
   route : Maybe([fresh : BOOLEAN, observe : BOOLEAN]),
   research : Maybe(GatheredResults), observation : Maybe(GatheredResults),
   context : Maybe({Made}), obligations : Maybe(L!TriggerKinds \cup {"none"}),
   done : Maybe({Made}), plan : Maybe(PlanRecords),
   contract : Maybe(SUBSET ObligationKinds), packets : Maybe(Seq(Packets)),
   active : Nat, progression : Maybe(Progressions),
   policy : Maybe(PolicyResults), approval : Maybe(BOOLEAN),
   workspace : Maybe({Made}), execution : Maybe(Executions),
   review : Maybe(ReviewKinds), qaPlan : Maybe({Made}),
   qaReport : Maybe(QaResults), qaReview : Maybe(QaKinds),
   verification : Maybe(Verifications), acceptance : Maybe(Acceptances),
   publish : Maybe(PublishResults), publishReview : Maybe({Made}),
   report : Maybe(ReportStatuses), strategy : Strategies,
   decision : Maybe(Decisions),
   repairs : Nat, retries : Nat, loops : Seq(L!LoopDecisions)]

(* An absent field is told apart from every value it may hold.               *)
ASSUME NoneAssumption ==
  /\ None \notin BOOLEAN
  /\ None \notin {Made, "none"} \cup L!TriggerKinds \cup GatheredResults
                 \cup PolicyResults \cup ReviewKinds \cup QaKinds \cup QaResults
                 \cup Decisions \cup ReportStatuses
  /\ None \notin Routes /\ None \notin PlanRecords
  /\ None \notin Executions /\ None \notin Verifications
  /\ None \notin PublishResults /\ None \notin Acceptances
  /\ \A kinds \in SUBSET ObligationKinds : kinds # None
  /\ None \notin Seq(Packets)

InitialState ==
  [status |-> "created", intake |-> None, classification |-> None,
   route |-> None, research |-> None, observation |-> None, context |-> None,
   obligations |-> None, done |-> None, plan |-> None, contract |-> None,
   packets |-> None, active |-> NoPacket, progression |-> None,
   policy |-> None, approval |-> None, workspace |-> None, execution |-> None,
   review |-> None, qaPlan |-> None, qaReport |-> None, qaReview |-> None,
   verification |-> None, acceptance |-> None, publish |-> None,
   publishReview |-> None, report |-> None, strategy |-> "default",
   decision |-> None, repairs |-> 0, retries |-> 0, loops |-> <<>>]

(* Faulty: a re-entry into planning loses the context planning reads.        *)
ClearedFieldsWithContext(target) ==
  {"policy", "approval", "publish", "publishReview", "context"}
    \cup (IF target \in L!ReentryStages
          THEN {"plan", "contract", "packets", "progression"} ELSE {})

(* _clear_for_reentry: what a re-entry into a stage forgets.                 *)
ClearedFields(target) ==
  {"policy", "approval", "publish", "publishReview"}
    \cup (IF target \in {"research", "observe", "build_context", "obligations"}
          THEN {"obligations"} ELSE {})
    \cup (IF target \in L!ReentryStages
          THEN {"plan", "contract", "packets", "progression"} ELSE {})
    \cup (IF target \in {"research", "observe", "build_context"}
          THEN {"context"} ELSE {})

ClearForReentry(st, target) ==
  [f \in DOMAIN st |->
     IF f \in ClearedFields(target) THEN None
     ELSE IF f = "active" /\ target \in L!ReentryStages THEN NoPacket
     ELSE st[f]]

-----------------------------------------------------------------------------
(* What an execution result says.                                            *)
DerivedStatus(x) ==
  CASE x.status # "succeeded" -> x.status
    [] x.status = "succeeded" /\ ~x.ok -> "blocked"
    [] x.status = "succeeded" /\ x.ok /\ x.blocker # "none" ->
         IF x.mutated THEN "partial" ELSE "blocked"
    [] OTHER -> "succeeded"

ExecutionSucceeded(x) ==
  /\ x.ok
  /\ x.failure = "none"
  /\ DerivedStatus(x) = "succeeded"
  /\ x.blocker = "none"

RepairableFailure(x) ==
  \/ x.failure # "none"
  \/ ~x.ok
  \/ x.status \in {"failed", "blocked"}
  \/ x.checks = "failed"
  \/ x.blocker = "code"

PacketStatus(x) ==
  IF x.ok /\ x.status \in {"succeeded", "partial"} /\ x.blocker = "none"
    THEN "completed"
  ELSE IF x.status = "blocked" \/ x.blocker = "env" THEN "blocked"
  ELSE "failed"

(* After execute - not after repair - an implementation packet that changed  *)
(* files counts as completed unless a check failed or it reported a blocker. *)
ExecutedPacketStatus(x, packet) ==
  IF /\ packet.type = "implementation"
     /\ x.checks # "failed"
     /\ x.mutated
     /\ x.blocker = "none"
  THEN "completed" ELSE PacketStatus(x)

(* _check_status over the execution, verification and publish evidence.      *)
Reported(x, v, p) ==
  {x.checks}
    \cup (IF v = None THEN {}
          ELSE {v.checks, IF v.gap = "evidence" THEN "missing" ELSE "none"})
    \cup (IF p = None THEN {} ELSE {p.checks})
ChecksRan(x, v, p) == Reported(x, v, p) \cap {"passed", "failed"} # {}
ChecksPassed(x, v, p) ==
  "passed" \in Reported(x, v, p) /\ "failed" \notin Reported(x, v, p)

EnvironmentBlocked(x, v) == x.blocker = "env" \/ (v # None /\ v.gap = "setup")

PublishOk(p) ==
  p.ok /\ p.checks # "failed" /\ ~p.blockers

(* lifecycle_facts.  Verification counts as satisfied when it is not         *)
(* mandatory, when the reported checks passed, or when acceptance misses     *)
(* nothing but publication.  The stages report no violations of their own.   *)
FactsOf(plan, x, v, p, gate, repairs) ==
  [stageFailed |-> x.failure # "none", git |-> x.git,
   envBlocked |-> EnvironmentBlocked(x, v),
   verificationRequired |-> plan.mutates,
   verificationSatisfied |-> \/ ~plan.mutates
                             \/ ChecksPassed(x, v, p)
                             \/ gate = "only_publish_missing",
   executionSucceeded |-> ExecutionSucceeded(x),
   publishRequired |-> plan.publish,
   publish |-> IF p = None THEN NoPublish
               ELSE [done |-> PublishOk(p), stageFailed |-> p.failed,
                     forbidden |-> p.forbidden,
                     failedChecks |-> p.checks = "failed",
                     hasBlockers |-> p.blockers],
   acceptance |-> gate, repairs |-> repairs, maxRepairs |-> MaxRepairAttempts,
   reentryRequired |-> FALSE, reentryTarget |-> "continue",
   reentryExhausted |-> FALSE, violations |-> {}]

-----------------------------------------------------------------------------
(* build_acceptance_contract and evaluate_acceptance.                        *)
Contract(plan) ==
  LET named == (IF plan.mutates THEN {"code_changed"} ELSE {})
                 \cup (IF plan.tests THEN {"tests_passed"} ELSE {})
                 \cup (IF plan.publish THEN {"publish"} ELSE {})
  IN  IF named = {} THEN {"evidence"} ELSE named

ObligationStatus(obligation, x, v, p) ==
  LET verdict(ok) == IF ok THEN "passed" ELSE "failed"
  IN  CASE obligation = "code_changed" -> verdict(x.mutated)
        [] obligation = "tests_passed" ->
             IF EnvironmentBlocked(x, v) THEN "blocked"
             ELSE IF ~ChecksRan(x, v, p) THEN "not_run"
             ELSE verdict(ChecksPassed(x, v, p))
        [] obligation = "publish" ->
             verdict(IF v # None /\ v.published # "silent"
                     THEN v.published = "claimed"
                     ELSE p # None /\ p.ok)
        [] obligation = "evidence" ->
             verdict(\/ v # None /\ (v.passed \/ v.checks = "passed")
                     \/ x.ok)

EvaluateAcceptance(contract, x, v, p) ==
  LET result(o) == ObligationStatus(o, x, v, p)
      unmet == {o \in contract : result(o) # "passed"}
      statuses == {result(o) : o \in unmet}
      decision(status, final) ==
        [unmet |-> unmet, status |-> status, final |-> final]
  IN  IF unmet = {} THEN decision("accepted", "completed")
      ELSE IF "blocked" \in statuses
        THEN decision("needs_environment", "needs_environment")
      ELSE IF "failed" \in statuses
        THEN decision("rejected",
                      IF x.mutated THEN "partially_completed" ELSE "failed")
      ELSE decision("needs_human_review", "needs_human_review")

Accepted(acceptance) == acceptance.unmet = {}
OnlyPublishMissing(acceptance) == acceptance.unmet = {"publish"}

Gate(acceptance) ==
  IF Accepted(acceptance) THEN "accepted"
  ELSE IF OnlyPublishMissing(acceptance) THEN "only_publish_missing"
  ELSE "rejected"

(* acceptance_from_lifecycle_violation; the refusal is an unmet evidence     *)
(* obligation.                                                               *)
RefusedAcceptance(violations) ==
  [unmet |-> {"evidence"}, status |-> "needs_human_review",
   final |-> RefusalStatus(violations)]

-----------------------------------------------------------------------------
(* _qa_review_from_verification.  Items that the QA report says are blocked  *)
(* excuse a verification that did not pass, and acceptance, which looks for  *)
(* environment blockers in the execution and the verification, does not see  *)
(* them.                                                                     *)
QaStatus(x, v, report) ==
  IF v.passed THEN "pass"
  ELSE IF RepairableFailure(x) \/ v.codeLike THEN "fail_code"
  ELSE IF v.gap = "setup" \/ report = "blocked" THEN "fail_env"
  ELSE "fail_requirements"

(* normalized_completion_status, of a reply that names no status itself.     *)
CompletionStatus(v) ==
  IF v.passed /\ v.gap # "setup" THEN "completed"
  ELSE IF v.passed /\ v.published = "denied" THEN "verified_not_published"
  ELSE IF ~v.passed /\ v.checks # "none" THEN "partially_completed"
  ELSE IF v.gap = "evidence" THEN "blocked"
  ELSE IF v.passed THEN "completed"
  ELSE "partially_completed"

(* StrategyGovernor on its rules alone, the mode without advice (that is in  *)
(* StrategyAdvice): a failed execution or verification narrows the strategy *)
(* to repair_only.  (So would an acceptance with status blocked, which       *)
(* evaluate_acceptance never answers: a blocked obligation always carries an *)
(* environment blocker.)  A strategy checkpoint also appends a controller    *)
(* decision naming its own stage.                                            *)
Govern(st) ==
  LET executionFailed ==
        st.execution # None
          /\ \/ st.execution.failure # "none"
             \/ st.execution.status \in {"failed", "blocked"}
             \/ ~st.execution.ok
      verificationFailed ==
        st.verification # None
          /\ \/ ~st.verification.passed
             \/ st.verification.checks = "failed"
             \/ st.verification.gap = "evidence"
  IN  IF executionFailed \/ verificationFailed THEN "repair_only"
      ELSE "default"

StrategyCheckpoint(st, stage) ==
  [st EXCEPT !.strategy = Govern(st), !.decision = stage]

(* detect_trigger: the impact the obligations discovered comes before what   *)
(* the text of the verification suggests.                                    *)
TriggerOf(st, v) ==
  IF st.obligations \notin {None, "none"} THEN st.obligations
  ELSE IF v = None THEN "none" ELSE v.trigger

-----------------------------------------------------------------------------
(* Running a stage.                                                          *)
At(stage) == exit = "running" /\ node = stage /\ Ready(s, stage)

(* The update is merged, validated and checkpointed; then the router picks   *)
(* the next stage.  A state that breaks its status' promise is not written.  *)
Commit(st, next) ==
  IF Valid(st) THEN s' = st /\ node' = next /\ UNCHANGED exit
  ELSE exit' = "checkpoint_error" /\ UNCHANGED <<s, node>>

NoCalls == UNCHANGED <<repairCalls, publishes, crashes>>

(* A stage that only adds a field and goes on.                               *)
Fill(stage, st, next) == At(stage) /\ Commit(st, next) /\ NoCalls
                           /\ UNCHANGED vouched

Intake ==
  Fill("intake", [s EXCEPT !.intake = Made, !.status = "intake_completed"],
       "classify")

Classify ==
  Fill("classify", [s EXCEPT !.classification = Made, !.status = "classified"],
       "route")

NextAfterRoute(route) ==
  IF route.observe THEN "observe"
  ELSE IF route.fresh THEN "research" ELSE "build_context"

Route ==
  \E route \in Routes :
    Fill("route",
         [s EXCEPT !.route = route, !.status = "routed",
                   !.decision = NextAfterRoute(route)],
         NextAfterRoute(route))

NextAfterResearch(route) ==
  IF route.observe THEN "observe" ELSE "build_context"

ResearchNext(result, st) ==
  IF result # "ok" THEN "finalize"
  ELSE IF st.observation = "ok" THEN "build_context"
  ELSE NextAfterResearch(st.route)

Research ==
  \E result \in Gathered :
    Fill("research",
         [s EXCEPT !.research = result, !.status = "researched",
                   !.decision = NextAfterResearch(s.route)],
         ResearchNext(result, s))

(* With a required freshness decision, research comes after observation.     *)
ObserveNext(result, st) ==
  IF result # "ok" THEN "finalize"
  ELSE IF st.research = None /\ st.route.fresh THEN "research"
  ELSE "build_context"

Observe ==
  \E result \in Gathered :
    Fill("observe",
         [s EXCEPT !.observation = result, !.status = "observed"],
         ObserveNext(result, s))

BuildContext ==
  Fill("build_context", [s EXCEPT !.context = Made, !.status = "context_built"],
       "obligations")

Obligations ==
  \E impact \in Impacts :
    Fill("obligations",
         [s EXCEPT !.obligations = impact,
                   !.status = "obligations_synthesized"],
         "done_contract")

DoneContract ==
  Fill("done_contract",
       [s EXCEPT !.done = Made, !.status = "done_contract_built"], "plan")

(* DecompositionPlanner.build_plan.                                          *)
FreshPackets(chain) ==
  [i \in DOMAIN chain |-> [type |-> chain[i], status |-> "pending"]]

Plan ==
  \E plan \in Plans, chain \in PacketChains :
    LET governed == StrategyCheckpoint(s, "plan")
        packets == FreshPackets(IF governed.strategy = "repair_only"
                                THEN <<"repair">> ELSE chain)
    IN  Fill("plan",
             [governed EXCEPT
                !.plan = plan, !.contract = Contract(plan),
                !.packets = packets,
                !.active = Select(packets, governed.strategy).id,
                !.status = "planned"],
             "policy")

(* evaluate_policy: missing evidence blocks before the policy engine is      *)
(* asked.  Every family but documentation_only needs a usable observation.   *)
EvidenceMissing(plan, st) ==
  \/ plan.world /\ st.observation # "ok"
  \/ st.route.fresh /\ st.research # "ok"

(* Faulty: a plan that needs approval goes on without asking.                *)
NextAfterPolicyUnasked(verdict) ==
  IF verdict = "blocked" THEN "finalize" ELSE "workspace_prepare"

NextAfterPolicy(verdict) ==
  CASE verdict = "blocked" -> "finalize"
    [] verdict = "approval" -> "approval"
    [] verdict = "allowed" -> "workspace_prepare"

Policy ==
  \E answer \in PolicyVerdicts :
    LET verdict == IF EvidenceMissing(s.plan, s) THEN "blocked" ELSE answer
    IN  Fill("policy",
             [s EXCEPT !.policy = verdict, !.status = "policy_checked",
                       !.decision = NextAfterPolicy(verdict)],
             NextAfterPolicy(verdict))

NextAfterApproval(approved) ==
  IF approved THEN "workspace_prepare" ELSE "finalize"

Approval ==
  \E approved \in Approvals :
    Fill("approval",
         [s EXCEPT !.approval = approved, !.status = "approval_resolved",
                   !.decision = NextAfterApproval(approved)],
         NextAfterApproval(approved))

WorkspacePrepare ==
  Fill("workspace_prepare",
       [s EXCEPT !.workspace = Made, !.status = "workspace_prepared",
                 !.decision = "execute"],
       "execute")

(* The selected packet runs even when the selector did not find it ready.    *)
Execute ==
  /\ At("execute")
  /\ \E x \in Outcomes :
       LET packets == IF s.packets = None THEN FreshPackets(<<"verification">>)
                      ELSE s.packets
           active == Select(packets, s.strategy).id
           status == IF active = NoPacket THEN "pending"
                     ELSE ExecutedPacketStatus(x, packets[active])
       IN  Commit([s EXCEPT !.execution = x, !.workspace = Made,
                            !.packets = SetStatus(packets, active, status),
                            !.active = active, !.status = "executed",
                            !.decision = "review"],
                  "review")
  /\ vouched' = {}
  /\ NoCalls

-----------------------------------------------------------------------------
(* AgentRetryPolicy.decide.                                                  *)
RetryAllowed(st, x) == x.failure = "retryable" /\ st.retries < RetryBudget

(* Faulty: the retry is decided and not counted.                             *)
RetriesUncounted(st, kind) == st.retries

(* agent_retry_count, which the checkpoint keeps.                            *)
RetriesAfter(st, kind) ==
  IF kind = "agent_retry" THEN st.retries + 1 ELSE st.retries

(* Faulty: the refusal of the lifecycle machine is not looked at.            *)
ReviewKindUnguarded(st, x, lifecycle) ==
  IF RetryAllowed(st, x) THEN "agent_retry"
  ELSE IF RepairableFailure(x) THEN "fail_code"
  ELSE "pass"

ReviewKind(st, x, lifecycle) ==
  IF RetryAllowed(st, x) THEN "agent_retry"
  ELSE IF ~lifecycle.allowed THEN "policy_violation"
  ELSE IF RepairableFailure(x) THEN "fail_code"
  ELSE "pass"

NextAfterReview(kind, progression) ==
  CASE kind = "pass" -> IF progression.stage \in {"execute", "qa_plan", "finalize"}
                        THEN progression.stage ELSE "qa_plan"
    [] kind = "agent_retry" -> "execute"
    [] kind = "fail_code" -> "repair"
    [] kind = "policy_violation" -> "finalize"

(* The decision review records: the progression's stage as it stands.        *)
ReviewDecision(kind, progression) ==
  IF kind = "pass" THEN progression.stage ELSE NextAfterReview(kind, progression)

Review ==
  /\ At("review")
  /\ \E engine \in PolicyEngines, missing \in DeliverablesMissing :
       LET x == s.execution
           lifecycle ==
             Transition(engine, "execution",
                        FactsOf(s.plan, x, None, None, "absent", 0))
           kind == ReviewKind(s, x, lifecycle)
           progression == IF kind = "pass" THEN Progression(s.packets, s.strategy)
                          ELSE s.progression
           reviewed ==
             [s EXCEPT
                !.review = kind,
                !.retries = RetriesAfter(s, kind),
                !.packets = IF kind = "agent_retry"
                            THEN SetStatus(@, s.active, "pending") ELSE @,
                !.active = IF kind = "pass" THEN progression.next ELSE @,
                !.progression = progression,
                !.acceptance = IF kind = "policy_violation" /\ s.contract # None
                               THEN RefusedAcceptance(lifecycle.violations)
                               ELSE @,
                !.status = "reviewed",
                !.decision = ReviewDecision(kind, progression)]
           governed == \/ kind # "pass"
                       \/ missing
                       \/ progression.blocked
       IN  /\ Commit(IF governed THEN StrategyCheckpoint(reviewed, "review")
                     ELSE reviewed,
                     NextAfterReview(kind, progression))
           /\ vouched' = IF kind = "pass" THEN vouched \cup {"reviewed"}
                         ELSE vouched \ {"reviewed"}
  /\ NoCalls

QaPlan ==
  Fill("qa_plan", [s EXCEPT !.qaPlan = Made, !.status = "qa_planned"],
       "qa_execute")

QaExecute ==
  /\ At("qa_execute")
  /\ \E report \in QaReports :
       Commit([s EXCEPT !.qaReport = report, !.status = "qa_executed"],
              "qa_review")
  /\ vouched' = vouched \cup {"tested"}
  /\ NoCalls

(* Faulty: re-entry without a look at the budget.                            *)
QaLoopUnbudgeted(st, v, kind, up) ==
  LET trigger == TriggerOf(st, v)
  IN  L!LoopDecision("verify", trigger,
        IF trigger = "none" \/ kind = "fail_code" THEN "continue"
        ELSE L!TargetForTrigger(trigger))

(* A repairable failure goes to repair and records a decision that re-enters *)
(* nothing; otherwise the budget is asked.                                   *)
QaLoopDecision(st, v, kind, up) ==
  IF kind = "fail_code" THEN L!ContinueDecision("qa_review")
  ELSE L!Evaluate(st.loops, "verify", TriggerOf(st, v), up)

(* Faulty: unmet requirements go to acceptance like a missing environment.   *)
NextAfterQaLenient(kind, loop) ==
  IF kind = "fail_code" THEN "repair"
  ELSE IF loop.target # "continue" THEN loop.target ELSE "acceptance"

NextAfterQa(kind, loop) ==
  IF kind = "fail_code" THEN "repair"
  ELSE IF loop.target # "continue" THEN loop.target
  ELSE IF kind \in {"pass", "fail_env"} THEN "acceptance"
  ELSE "finalize"

(* What the verification of a revision whose tests ran says of it.           *)
VerifiedBy(checks, kind) ==
  (checks \ {"verified", "excused"})
    \cup (IF "tested" \notin checks THEN {}
          ELSE IF kind = "pass" THEN {"verified"}
          ELSE IF kind = "fail_env" THEN {"excused"} ELSE {})

QaReview ==
  /\ At("qa_review")
  /\ \E v \in Verdicts, engine \in PolicyEngines :
       LET kind == QaStatus(s.execution, v, s.qaReport)
           loop == QaLoopDecision(s, v, kind, engine # "unavailable")
           next == NextAfterQa(kind, loop)
           recorded ==
             [s EXCEPT !.verification = v, !.qaReview = kind,
                       !.loops = Append(@, loop), !.status = "qa_reviewed",
                       !.decision = next]
           cleared == IF loop.target = "continue" THEN recorded
                      ELSE ClearForReentry(recorded, loop.target)
           governed == kind # "pass" \/ v.gap = "evidence" \/ v.checks = "failed"
       IN  /\ Commit(IF governed THEN StrategyCheckpoint(cleared, "qa_review")
                     ELSE cleared,
                     next)
           /\ vouched' = VerifiedBy(vouched, kind)
  /\ NoCalls

NextAfterAcceptance(lifecycle, loop) ==
  IF loop.target # "continue" THEN loop.target ELSE lifecycle.next

Acceptance ==
  /\ At("acceptance")
  /\ \E engine \in PolicyEngines :
       LET x == s.execution
           v == s.verification
           p == s.publish
           acceptance == EvaluateAcceptance(s.contract, x, v, p)
           lifecycle ==
             Transition(engine, "acceptance",
                        FactsOf(s.plan, x, v, p, Gate(acceptance), 0))
           loop == L!Evaluate(s.loops, "acceptance", TriggerOf(s, v),
                              engine # "unavailable")
           next == NextAfterAcceptance(lifecycle, loop)
           recorded ==
             [s EXCEPT !.acceptance = acceptance, !.loops = Append(@, loop),
                       !.status = "acceptance_evaluated", !.decision = next]
           cleared == IF loop.target = "continue" THEN recorded
                      ELSE ClearForReentry(recorded, loop.target)
       IN  /\ Commit(IF loop.target # "continue" \/ ~Accepted(acceptance)
                     THEN StrategyCheckpoint(cleared, "acceptance")
                     ELSE cleared,
                     next)
           /\ vouched' = IF Gate(acceptance) # "rejected"
                         THEN vouched \cup {"accepted"}
                         ELSE vouched \ {"accepted"}
  /\ NoCalls

-----------------------------------------------------------------------------
PublishAllowed(acceptance) ==
  Accepted(acceptance) \/ OnlyPublishMissing(acceptance)

Publish ==
  /\ At("publish")
  /\ IF PublishAllowed(s.acceptance)
     THEN /\ \E p \in PublishOutcomes :
               Commit([s EXCEPT !.publish = p, !.status = "published"],
                      "post_publish_verify")
          /\ publishes' = publishes + 1
     ELSE exit' = "publish_refused" /\ UNCHANGED <<s, node, publishes>>
  /\ UNCHANGED <<crashes, repairCalls, vouched>>

(* Faulty: the lifecycle's word for the stage is taken for a stage.          *)
NextAfterPublishVerbatim(next) == next

(* Faulty: failed checks are published again instead of repaired.            *)
NextAfterPublishAgain(next) == IF next = "repair" THEN "publish" ELSE "finalize"

(* Only repair is a target of its own; "verify" has become the end.          *)
NextAfterPublish(next) == IF next = "repair" THEN "repair" ELSE "finalize"

PostPublishVerify ==
  /\ At("post_publish_verify")
  /\ \E engine \in PolicyEngines :
       LET p == s.publish
           lifecycle ==
             Transition(engine, "publish",
                        FactsOf(s.plan, s.execution, None, p, "absent",
                                s.repairs))
           refresh == /\ lifecycle.next = "finalize"
                      /\ lifecycle.allowed
                      /\ s.contract # None
       IN  Commit([s EXCEPT
                     !.publishReview = Made,
                     !.acceptance = IF refresh
                                    THEN EvaluateAcceptance(
                                           s.contract, s.execution,
                                           s.verification, p)
                                    ELSE @,
                     !.status = "post_publish_verified",
                     !.decision = lifecycle.next],
                  NextAfterPublish(lifecycle.next))
  /\ NoCalls
  /\ UNCHANGED vouched

(* Faulty: one attempt more than the limit.                                  *)
AttemptRefusedLate(st) == st.repairs > MaxRepairAttempts

(* The adapter refuses an attempt past the limit by raising.                 *)
AttemptRefused(st) == st.repairs >= MaxRepairAttempts

Repair ==
  /\ At("repair")
  /\ IF AttemptRefused(s)
     THEN exit' = "repair_limit" /\ UNCHANGED <<s, node, repairCalls, vouched>>
     ELSE /\ \E x \in Outcomes :
               LET governed == StrategyCheckpoint(s, "repair")
               IN  Commit([governed EXCEPT
                             !.execution = x, !.repairs = @ + 1,
                             !.packets = SetStatus(@, s.active, PacketStatus(x)),
                             !.publish = None, !.publishReview = None,
                             !.verification = None, !.acceptance = None,
                             !.status = "repaired", !.decision = "review"],
                          "review")
          /\ repairCalls' = repairCalls + 1
          /\ vouched' = {}
  /\ UNCHANGED <<crashes, publishes>>

-----------------------------------------------------------------------------
(* FinalReportBuilder.build: the first fact that explains the outcome.       *)
UnfinishedStatus(packets, x) ==
  IF WithStatus(packets, "failed") \cup WithStatus(packets, "blocked") # {}
  THEN IF \/ x # None /\ x.blocker = "env"
          \/ \E i \in WithStatus(packets, "blocked") :
               packets[i].type \in {"setup", "integration", "verification"}
       THEN "needs_environment" ELSE "blocked"
  ELSE "partially_completed"

ReportStatus(st) ==
  IF st.approval = FALSE \/ st.policy = "blocked" THEN "blocked"
  ELSE IF st.research = "failed" THEN "research_failed"
  ELSE IF st.observation = "failed" THEN "observation_failed"
  ELSE IF st.acceptance # None THEN st.acceptance.final
  ELSE IF st.progression # None /\ st.progression.terminal
    THEN st.progression.hint
  ELSE IF st.packets # None /\ ~PlanCompleted(st.packets)
    THEN UnfinishedStatus(st.packets, st.execution)
  ELSE IF st.execution # None /\ ~st.execution.ok
    THEN IF st.execution.failure # "none" THEN "agent_failed"
         ELSE "execution_failed"
  ELSE IF st.publish # None /\ ~st.publish.ok THEN "publish_failed"
  ELSE IF st.verification # None
    THEN IF st.plan # None /\ st.plan.mutates THEN "needs_human_review"
         ELSE CompletionStatus(st.verification)
  ELSE IF st.execution # None THEN "implemented_only"
  ELSE "planned_only"

Finalize ==
  /\ At("finalize")
  /\ s' = [s EXCEPT !.report = ReportStatus(s), !.status = "reported"]
  /\ exit' = "report"
  /\ NoCalls
  /\ UNCHANGED <<node, vouched>>

(* A stage that is reached without the fields it needs raises.               *)
NotReady ==
  /\ exit = "running"
  /\ ~Ready(s, node)
  /\ exit' = "not_ready"
  /\ UNCHANGED <<s, node, crashes, repairCalls, publishes, vouched>>

-----------------------------------------------------------------------------
(* The process dies while a stage runs.  Its update is lost; a call out it   *)
(* had made is not.                                                          *)
CrashBeforeCall ==
  /\ exit = "running"
  /\ crashes < MaxCrashes
  /\ exit' = "crashed"
  /\ UNCHANGED <<s, node, crashes, repairCalls, publishes, vouched>>

CrashAfterCall ==
  /\ exit = "running"
  /\ crashes < MaxCrashes
  /\ node \in {"execute", "repair", "publish"}
  /\ Ready(s, node)
  /\ node = "publish" => PublishAllowed(s.acceptance)
  /\ node = "repair" => ~AttemptRefused(s)
  /\ exit' = "crashed"
  /\ repairCalls' = IF node = "repair" THEN repairCalls + 1 ELSE repairCalls
  /\ publishes' = IF node = "publish" THEN publishes + 1 ELSE publishes
  /\ vouched' = IF node = "publish" THEN vouched ELSE {}
  /\ UNCHANGED <<s, node, crashes>>

(* _derive_resume_stage: the last controller decision, and only without one  *)
(* the status.                                                               *)
StageAfterStatus(status) ==
  CASE status = "created" -> "intake"
    [] status = "intake_completed" -> "classify"
    [] status = "classified" -> "route"

ResumeStage(st) ==
  IF st.decision # None THEN st.decision ELSE StageAfterStatus(st.status)

(* The dispatch node starts an unknown stage name at the beginning.          *)
Dispatch(stage) == IF stage \in Stages THEN stage ELSE "intake"

Resume ==
  /\ exit \notin {"running", "report"}
  /\ crashes < MaxCrashes
  /\ crashes' = crashes + 1
  /\ exit' = "running"
  /\ node' = Dispatch(ResumeStage(s))
  /\ UNCHANGED <<s, repairCalls, publishes, vouched>>

-----------------------------------------------------------------------------
(* The run starts at intake with nothing but the task.                       *)
Init ==
  /\ s = InitialState
  /\ node = "intake"
  /\ exit = "running"
  /\ crashes = 0
  /\ repairCalls = 0
  /\ publishes = 0
  /\ vouched = {}

Stage ==
  \/ Intake \/ Classify \/ Route \/ Research \/ Observe \/ BuildContext
  \/ Obligations \/ DoneContract \/ Plan \/ Policy \/ Approval
  \/ WorkspacePrepare \/ Execute \/ Review \/ QaPlan \/ QaExecute \/ QaReview
  \/ Acceptance \/ Publish \/ PostPublishVerify \/ Repair \/ Finalize
  \/ NotReady

Next == Stage \/ CrashBeforeCall \/ CrashAfterCall \/ Resume

Spec == Init /\ [][Next]_vars

(* The graph driver runs the next stage until the workflow ends.             *)
FairSpec == Spec /\ WF_vars(Stage)

-----------------------------------------------------------------------------
TypeOK ==
  /\ s \in WorkflowStates
  /\ node \in Stages
  /\ exit \in {"running", "report", "crashed", "not_ready",
               "checkpoint_error", "publish_refused", "repair_limit"}
  /\ {crashes, repairCalls, publishes} \subseteq Nat
  /\ vouched \subseteq {"reviewed", "tested", "verified", "excused", "accepted"}

(* Only a revision that was reviewed, tested, verified and accepted since    *)
(* the workspace last changed is published.  One exception is in the code: a *)
(* verification that did not pass is excused by an item of the QA report     *)
(* that was blocked, and by nothing else.                                    *)
PublishIsVouched ==
  [][publishes' > publishes =>
       /\ {"reviewed", "tested", "accepted"} \subseteq vouched
       /\ \/ "verified" \in vouched
          \/ "excused" \in vouched /\ s.qaReport = "blocked"]_vars

(* One publication per revision: after a failed publish, something must have *)
(* been repaired before the next.  A crash may repeat the call it cut off.   *)
PublishesBounded == publishes <= repairCalls + 1 + crashes

(* The agent is asked for no more repairs than the limit; a crash may repeat *)
(* the attempt it cut off.                                                   *)
RepairsBounded == repairCalls <= MaxRepairAttempts + crashes

(* No gate that raises ever does without a crash: the readiness gate finds    *)
(* every field the next stage needs, whatever was cleared and refilled on    *)
(* the way; no merged state lacks what its status promises; and the publish  *)
(* node, which repeats the question of the acceptance gate, never finds it   *)
(* answered otherwise than the stage that sent the run there.                *)
GatesNeverRaise ==
  exit \notin {"not_ready", "checkpoint_error", "publish_refused"}

(* A task that changes the repository is reported completed only on an       *)
(* execution that changed it, failed in nothing and left git alone, whose    *)
(* revision was reviewed, tested and accepted, and verified unless a missing *)
(* environment excused it.  Where the plan asks for tests, they are reported *)
(* passed in an environment that lacks nothing; where it asks for            *)
(* publication, the publisher or the verification says it happened.  (A      *)
(* partial execution, and an excused verification, do not stand against      *)
(* completion where the plan asks for no tests.)                             *)
CompletedIsEarned ==
  (s.report = "completed" /\ s.plan # None /\ s.plan.mutates) =>
    /\ s.acceptance # None
    /\ Accepted(s.acceptance)
    /\ s.execution.mutated
    /\ s.execution.git = {}
    /\ ~RepairableFailure(s.execution)
    /\ s.plan.tests => /\ ChecksPassed(s.execution, s.verification, None)
                       /\ ~EnvironmentBlocked(s.execution, s.verification)
    /\ s.plan.publish => \/ s.verification.published = "claimed"
                         \/ s.publish # None /\ s.publish.ok
    /\ {"reviewed", "tested", "accepted"} \subseteq vouched
    /\ {"verified", "excused"} \cap vouched # {}

(* The agent executes only a plan that the current policy decision allows -  *)
(* with approval where it asks for it - on the evidence that the route and   *)
(* the family of the plan demand.                                            *)
ExecutePermitted ==
  [][(s'.status = "executed" /\ s.status # "executed") =>
       /\ \/ s.policy = "allowed"
          \/ s.policy = "approval" /\ s.approval = TRUE
       /\ s.route.fresh => s.research = "ok"
       /\ s.plan.world => s.observation = "ok"]_vars

(* A producer that returned no usable result is retried or reported, never   *)
(* handed to repair, which would edit a workspace nobody observed.           *)
ProducerFailureNotRepaired ==
  [][repairCalls' > repairCalls => s.execution.failure = "none"]_vars

(* The history of re-entry decisions evolves as the budget module says.      *)
FollowsLoopBudget == L!History

(* Nothing is published that the plan does not ask to publish, nothing       *)
(* without a successful execution or without the tests the plan asks for,    *)
(* and nothing while the evidence of the execution or of the verification    *)
(* names a missing environment.  (What only the QA report says is blocked is *)
(* not looked at: PublishIsVouched.)                                         *)
PublishAsPlanned ==
  [][publishes' > publishes =>
       /\ s.plan.publish
       /\ ExecutionSucceeded(s.execution)
       /\ ~EnvironmentBlocked(s.execution, s.verification)
       /\ s.plan.tests => ChecksPassed(s.execution, s.verification, None)]_vars

(* The review passed an execution whose packet failed, and the packet is     *)
(* selected again.  Nothing counts these rounds.                             *)
FailedPacketAgain ==
  /\ node = "execute"
  /\ s.review = "pass"
  /\ s.active # NoPacket
  /\ s.packets[s.active].status = "failed"

(* A run, and every run resumed after a crash or an exception, ends - unless *)
(* the agent goes on leaving a packet failed that its review passes, the one *)
(* loop without a budget.  The budgets of the other loops are in the         *)
(* checkpoint and outlive a crash.                                           *)
Termination == []<>(exit # "running" \/ FailedPacketAgain)
=============================================================================
