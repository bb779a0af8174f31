---------------------------- MODULE WorkflowProofs ----------------------------
(* The workflow, for every budget and every set of answers: the calls out    *)
(* are counted whatever crashes; the state keeps its type; and until a run   *)
(* is resumed from a crash, every gate holds that a stage relies on.         *)
EXTENDS Workflow, WellFoundedInduction, TLAPS

(* An attempt that a crash cut off was asked for and not counted, so calls   *)
(* may be one ahead of the attempts counted and the crashes resumed from.    *)
(* That happens only below the limit, and until the run is resumed.          *)
CallsCounted ==
  \/ repairCalls <= s.repairs + crashes
  \/ /\ exit = "crashed"
     /\ s.repairs < MaxRepairAttempts
     /\ repairCalls <= s.repairs + crashes + 1

RepairInv ==
  /\ "repairs" \in DOMAIN s
  /\ {"status", "execution"} \subseteq DOMAIN s
  /\ s.repairs \in Nat
  /\ crashes \in Nat
  /\ repairCalls \in Nat
  /\ s.repairs <= MaxRepairAttempts
  /\ CallsCounted

(* Every other stage leaves the attempts and the calls alone.                *)
SameAttempts(st) == DOMAIN st = DOMAIN s /\ st.repairs = s.repairs

LeftAlone ==
  /\ exit = "running"
  /\ DOMAIN s' = DOMAIN s
  /\ s'.repairs = s.repairs
  /\ UNCHANGED <<repairCalls, crashes>>

LEMMA LeftAloneKeeps == RepairInv /\ LeftAlone => RepairInv'
BY DEF RepairInv, CallsCounted, LeftAlone

LEMMA CheckpointKeeps ==
  ASSUME RepairInv, NEW st, SameAttempts(st), NEW stage
  PROVE  SameAttempts(StrategyCheckpoint(st, stage))
BY DEF SameAttempts, StrategyCheckpoint, RepairInv

LEMMA ClearKeeps ==
  ASSUME RepairInv, NEW st, SameAttempts(st), NEW target
  PROVE  SameAttempts(ClearForReentry(st, target))
<1>1. "repairs" \notin ClearedFields(target)
  BY DEF ClearedFields
<1>. QED  BY <1>1 DEF SameAttempts, ClearForReentry, RepairInv

LEMMA CommitKeeps ==
  ASSUME NEW st, SameAttempts(st), NEW next, Commit(st, next)
  PROVE  DOMAIN s' = DOMAIN s /\ s'.repairs = s.repairs
BY DEF Commit, SameAttempts

(* A repair that the adapter does not refuse is counted.                     *)
LEMMA RepairCounts == RepairInv /\ Repair => RepairInv'
<1>. SUFFICES ASSUME RepairInv, Repair PROVE RepairInv'
  OBVIOUS
<1>0. MaxRepairAttempts \in Nat
  BY WorkflowAssumption
<1>1. exit = "running" /\ UNCHANGED crashes
  BY DEF Repair, At
<1>2. CASE AttemptRefused(s)
  BY <1>0, <1>1, <1>2 DEF Repair, RepairInv, CallsCounted
<1>3. CASE ~AttemptRefused(s)
  <2>1. PICK x \in Outcomes :
          LET governed == StrategyCheckpoint(s, "repair")
          IN  Commit([governed EXCEPT
                        !.execution = x, !.repairs = @ + 1,
                        !.packets = SetStatus(@, s.active, PacketStatus(x)),
                        !.publish = None, !.publishReview = None,
                        !.verification = None, !.acceptance = None,
                        !.status = "repaired", !.decision = "review"],
                     "review")
    BY <1>3 DEF Repair
  <2>2. repairCalls' = repairCalls + 1
    BY <1>3 DEF Repair
  <2>. DEFINE st == [StrategyCheckpoint(s, "repair") EXCEPT
                       !.execution = x, !.repairs = @ + 1,
                       !.packets = SetStatus(@, s.active, PacketStatus(x)),
                       !.publish = None, !.publishReview = None,
                       !.verification = None, !.acceptance = None,
                       !.status = "repaired", !.decision = "review"]
  <2>3. DOMAIN st = DOMAIN s /\ st.repairs = s.repairs + 1
    BY DEF RepairInv, StrategyCheckpoint
  <2>4. Valid(st)
    <3>1. st.status = "repaired" /\ st.execution = x /\ x # None
      BY WorkflowAssumption, NoneAssumption DEF RepairInv, StrategyCheckpoint
    <3>2. StatusRequires("repaired") = {"execution"}
      BY DEF StatusRequires, StatusFields
    <3>. QED  BY <3>1, <3>2 DEF Valid
  <2>5. s' = st /\ UNCHANGED exit
    BY <2>1, <2>4 DEF Commit
  <2>. HIDE DEF st
  <2>. QED
    BY <1>0, <1>1, <1>3, <2>2, <2>3, <2>5 DEF RepairInv, CallsCounted,
       AttemptRefused
<1>. QED  BY <1>2, <1>3

-----------------------------------------------------------------------------
(* The stages that only fill in a field.                                     *)
LEMMA FillingStages ==
  ASSUME RepairInv,
         \/ Intake \/ Classify \/ Route \/ Research \/ Observe \/ BuildContext
         \/ Obligations \/ DoneContract \/ Policy \/ Approval
         \/ WorkspacePrepare \/ QaPlan
  PROVE  LeftAlone
<1>. USE DEF LeftAlone, RepairInv, Fill, At, Commit, NoCalls
<1>1. CASE Intake
  BY <1>1 DEF Intake
<1>2. CASE Classify
  BY <1>2 DEF Classify
<1>3. CASE Route
  BY <1>3 DEF Route
<1>4. CASE Research
  BY <1>4 DEF Research
<1>5. CASE Observe
  BY <1>5 DEF Observe
<1>6. CASE BuildContext
  BY <1>6 DEF BuildContext
<1>7. CASE Obligations
  BY <1>7 DEF Obligations
<1>8. CASE DoneContract
  BY <1>8 DEF DoneContract
<1>9. CASE Policy
  BY <1>9 DEF Policy
<1>10. CASE Approval
  BY <1>10 DEF Approval
<1>11. CASE WorkspacePrepare
  BY <1>11 DEF WorkspacePrepare
<1>12. CASE QaPlan
  BY <1>12 DEF QaPlan
<1>. QED
  BY <1>1, <1>2, <1>3, <1>4, <1>5, <1>6, <1>7, <1>8, <1>9, <1>10, <1>11, <1>12

(* The stages that compute more of the state, and may pass a strategy        *)
(* checkpoint or clear the state for a re-entry.                             *)
LEMMA PlanLeavesAlone == RepairInv /\ Plan => LeftAlone
<1>. SUFFICES ASSUME RepairInv, Plan PROVE LeftAlone
  OBVIOUS
<1>. USE DEF LeftAlone, RepairInv, Fill, At, Commit, NoCalls, StrategyCheckpoint
<1>. QED  BY DEF Plan

LEMMA ExecuteLeavesAlone == RepairInv /\ Execute => LeftAlone
BY DEF LeftAlone, RepairInv, At, Commit, NoCalls, Execute

LEMMA ReviewLeavesAlone == RepairInv /\ Review => LeftAlone
<1>. SUFFICES ASSUME RepairInv, Review PROVE LeftAlone
  OBVIOUS
<1>1. exit = "running" /\ UNCHANGED <<repairCalls, crashes>>
  BY DEF Review, At, NoCalls
<1>2. PICK engine \in PolicyEngines, missing \in DeliverablesMissing :
        Review!2!(engine, missing)
  BY DEF Review
<1>. QED  BY <1>1, <1>2
       DEF LeftAlone, RepairInv, Commit, StrategyCheckpoint

LEMMA QaReviewLeavesAlone == RepairInv /\ QaReview => LeftAlone
<1>. SUFFICES ASSUME RepairInv, QaReview PROVE LeftAlone
  OBVIOUS
<1>1. exit = "running" /\ UNCHANGED <<repairCalls, crashes>>
  BY DEF QaReview, At, NoCalls
<1>2. PICK v \in Verdicts, engine \in PolicyEngines : QaReview!2!(v, engine)
  BY DEF QaReview
<1>. DEFINE kind == QaStatus(s.execution, v, s.qaReport)
            loop == QaLoopDecision(s, v, kind, engine # "unavailable")
            next == NextAfterQa(kind, loop)
            recorded ==
              [s EXCEPT !.verification = v, !.qaReview = kind,
                        !.loops = Append(@, loop), !.status = "qa_reviewed",
                        !.decision = next]
            cleared == IF loop.target = "continue" THEN recorded
                       ELSE ClearForReentry(recorded, loop.target)
            governed == kind # "pass" \/ v.gap = "evidence" \/ v.checks = "failed"
            st == IF governed THEN StrategyCheckpoint(cleared, "qa_review")
                  ELSE cleared
<1>3. Commit(st, next)
  BY <1>2
<1>4. SameAttempts(recorded)
  BY DEF SameAttempts, RepairInv
<1>5. SameAttempts(cleared)
  BY <1>4, ClearKeeps
<1>6. SameAttempts(st)
  BY <1>5, CheckpointKeeps
<1>. HIDE DEF st, next
<1>. QED  BY <1>1, <1>3, <1>6, CommitKeeps DEF LeftAlone

LEMMA AcceptanceLeavesAlone == RepairInv /\ Acceptance => LeftAlone
<1>. SUFFICES ASSUME RepairInv, Acceptance PROVE LeftAlone
  OBVIOUS
<1>1. exit = "running" /\ UNCHANGED <<repairCalls, crashes>>
  BY DEF Acceptance, At, NoCalls
<1>2. PICK engine \in PolicyEngines : Acceptance!2!(engine)
  BY DEF Acceptance
<1>. DEFINE acceptance ==
              EvaluateAcceptance(s.contract, s.execution, s.verification,
                                 s.publish)
            lifecycle ==
              Transition(engine, "acceptance",
                         FactsOf(s.plan, s.execution, s.verification, s.publish,
                                 Gate(acceptance), 0))
            loop == L!Evaluate(s.loops, "acceptance",
                               TriggerOf(s, s.verification),
                               engine # "unavailable")
            next == NextAfterAcceptance(lifecycle, loop)
            recorded ==
              [s EXCEPT !.acceptance = acceptance, !.loops = Append(@, loop),
                        !.status = "acceptance_evaluated", !.decision = next]
            cleared == IF loop.target = "continue" THEN recorded
                       ELSE ClearForReentry(recorded, loop.target)
            st == IF loop.target # "continue" \/ ~Accepted(acceptance)
                  THEN StrategyCheckpoint(cleared, "acceptance") ELSE cleared
<1>3. Commit(st, next)
  BY <1>2
<1>4. SameAttempts(recorded)
  BY DEF SameAttempts, RepairInv
<1>5. SameAttempts(cleared)
  BY <1>4, ClearKeeps
<1>6. SameAttempts(st)
  BY <1>5, CheckpointKeeps
<1>. HIDE DEF st, next
<1>. QED  BY <1>1, <1>3, <1>6, CommitKeeps DEF LeftAlone

LEMMA PublishLeavesAlone == RepairInv /\ Publish => LeftAlone
BY DEF LeftAlone, RepairInv, At, Commit, Publish

LEMMA PostPublishLeavesAlone == RepairInv /\ PostPublishVerify => LeftAlone
BY DEF LeftAlone, RepairInv, At, Commit, NoCalls, PostPublishVerify

LEMMA OthersLeaveAlone ==
  ASSUME RepairInv, QaExecute \/ Finalize \/ NotReady
  PROVE  LeftAlone
BY DEF LeftAlone, RepairInv, At, Commit, NoCalls, QaExecute, Finalize, NotReady

-----------------------------------------------------------------------------
(* A crash may lose the count of one attempt; resuming accounts for it.      *)
LEMMA CrashesCounted ==
  ASSUME RepairInv, CrashBeforeCall \/ CrashAfterCall \/ Resume
  PROVE  RepairInv'
<1>. MaxRepairAttempts \in Nat
  BY WorkflowAssumption
<1>1. CASE CrashBeforeCall
  BY <1>1 DEF CrashBeforeCall, RepairInv, CallsCounted
<1>2. CASE CrashAfterCall
  BY <1>2 DEF CrashAfterCall, RepairInv, CallsCounted, AttemptRefused
<1>3. CASE Resume
  BY <1>3 DEF Resume, RepairInv, CallsCounted
<1>. QED  BY <1>1, <1>2, <1>3

LEMMA RepairInvHolds == Spec => []RepairInv
<1>1. Init => RepairInv
  BY WorkflowAssumption DEF Init, RepairInv, CallsCounted, InitialState
<1>2. RepairInv /\ [Next]_vars => RepairInv'
  <2>. SUFFICES ASSUME RepairInv, [Next]_vars PROVE RepairInv'
    OBVIOUS
  <2>1. CASE UNCHANGED vars
    BY <2>1 DEF vars, RepairInv, CallsCounted
  <2>2. CASE Stage
    BY <2>2, LeftAloneKeeps, FillingStages, PlanLeavesAlone, ExecuteLeavesAlone,
       ReviewLeavesAlone, QaReviewLeavesAlone, AcceptanceLeavesAlone,
       PublishLeavesAlone, PostPublishLeavesAlone, OthersLeaveAlone,
       RepairCounts
       DEF Stage
  <2>3. CASE CrashBeforeCall \/ CrashAfterCall \/ Resume
    BY <2>3, CrashesCounted
  <2>. QED  BY <2>1, <2>2, <2>3 DEF Next
<1>. QED  BY <1>1, <1>2, PTL DEF Spec

(* The agent is never asked for more repairs than the limit, but for one     *)
(* repeated call per crash.                                                  *)
THEOREM RepairsAlwaysBounded == Spec => []RepairsBounded
<1>1. RepairInv => RepairsBounded
  BY WorkflowAssumption DEF RepairInv, CallsCounted, RepairsBounded
<1>. QED  BY <1>1, RepairInvHolds, PTL

-----------------------------------------------------------------------------
(* Publications.  A run that has published goes to the post-publish review,  *)
(* and from there to the end or to a repair; only the repair leads back to   *)
(* the stages that may publish again, and it counts as a call before they    *)
(* are reached.  A run that stopped gets back there only through a resume.   *)
AfterPublication == {"post_publish_verify", "repair", "finalize"}

PublishInv ==
  /\ {publishes, repairCalls, crashes} \subseteq Nat
  /\ publishes <= repairCalls + 1 + crashes
  /\ (exit = "running" /\ node \notin AfterPublication)
       => publishes <= repairCalls + crashes

(* A stage that may still publish keeps the count, wherever it leads.        *)
NoPublication ==
  /\ exit = "running"
  /\ node \notin AfterPublication
  /\ UNCHANGED <<publishes, repairCalls, crashes>>

LEMMA NoPublicationKeeps == PublishInv /\ NoPublication => PublishInv'
BY DEF PublishInv, NoPublication

LEMMA StagesWithoutPublication ==
  ASSUME \/ Intake \/ Classify \/ Route \/ Research \/ Observe
         \/ BuildContext \/ Obligations \/ DoneContract \/ Plan \/ Policy
         \/ Approval \/ WorkspacePrepare \/ Execute \/ Review \/ QaPlan
         \/ QaExecute \/ QaReview \/ Acceptance
  PROVE  NoPublication
<1>. USE DEF NoPublication, AfterPublication, Fill, At, NoCalls
<1>1. CASE Intake \/ Classify \/ BuildContext \/ DoneContract
             \/ WorkspacePrepare \/ QaPlan
  BY <1>1 DEF Intake, Classify, BuildContext, DoneContract, WorkspacePrepare,
     QaPlan
<1>2. CASE Route \/ Research \/ Observe \/ Obligations \/ Policy \/ Approval
  BY <1>2 DEF Route, Research, Observe, Obligations, Policy, Approval
<1>3. CASE Plan
  BY <1>3 DEF Plan
<1>4. CASE Execute \/ QaExecute
  BY <1>4 DEF Execute, QaExecute
<1>5. CASE Review
  BY <1>5 DEF Review
<1>6. CASE QaReview
  BY <1>6 DEF QaReview
<1>7. CASE Acceptance
  BY <1>7 DEF Acceptance
<1>. QED  BY <1>1, <1>2, <1>3, <1>4, <1>5, <1>6, <1>7

LEMMA PublicationsCounted ==
  ASSUME PublishInv, Publish \/ PostPublishVerify \/ Repair \/ Finalize
                       \/ NotReady
  PROVE  PublishInv'
<1>1. CASE Publish
  <2>1. /\ exit = "running"
        /\ node = "publish" /\ UNCHANGED <<crashes, repairCalls>>
    BY <1>1 DEF Publish, At
  <2>2. publishes <= repairCalls + crashes
    BY <2>1 DEF PublishInv, AfterPublication
  <2>3. CASE PublishAllowed(s.acceptance)
    <3>1. publishes' = publishes + 1
      BY <1>1, <2>3 DEF Publish
    <3>2. exit' # "running" \/ node' \in AfterPublication
      BY <1>1, <2>3 DEF Publish, Commit, AfterPublication
    <3>. QED  BY <2>1, <2>2, <3>1, <3>2 DEF PublishInv
  <2>4. CASE ~PublishAllowed(s.acceptance)
    BY <1>1, <2>1, <2>4 DEF Publish, PublishInv
  <2>. QED  BY <2>3, <2>4
<1>2. CASE PostPublishVerify
  <2>1. \A next : NextAfterPublish(next) \in AfterPublication
    BY DEF NextAfterPublish, AfterPublication
  <2>2. UNCHANGED <<publishes, repairCalls, crashes>>
    BY <1>2 DEF PostPublishVerify, NoCalls
  <2>3. exit' # "running" \/ node' \in AfterPublication
    <3>. PICK engine \in PolicyEngines : PostPublishVerify!2!(engine)
      BY <1>2 DEF PostPublishVerify
    <3>. QED  BY <2>1 DEF Commit
  <2>. QED  BY <2>2, <2>3 DEF PublishInv
<1>3. CASE Repair
  <2>1. UNCHANGED <<publishes, crashes>>
    BY <1>3 DEF Repair
  <2>2. \/ exit' = "repair_limit" /\ UNCHANGED repairCalls
        \/ repairCalls' = repairCalls + 1
    BY <1>3 DEF Repair
  <2>. QED  BY <2>1, <2>2 DEF PublishInv
<1>4. CASE Finalize
  BY <1>4 DEF Finalize, NoCalls, PublishInv
<1>5. CASE NotReady
  BY <1>5 DEF NotReady, PublishInv
<1>. QED  BY <1>1, <1>2, <1>3, <1>4, <1>5

LEMMA PublishInvHolds == Spec => []PublishInv
<1>1. Init => PublishInv
  BY DEF Init, PublishInv
<1>2. PublishInv /\ [Next]_vars => PublishInv'
  <2>. SUFFICES ASSUME PublishInv, [Next]_vars PROVE PublishInv'
    OBVIOUS
  <2>1. CASE UNCHANGED vars
    BY <2>1 DEF vars, PublishInv
  <2>2. CASE Stage
    BY <2>2, StagesWithoutPublication, NoPublicationKeeps, PublicationsCounted
       DEF Stage
  <2>3. CASE CrashBeforeCall
    BY <2>3 DEF CrashBeforeCall, PublishInv
  <2>4. CASE CrashAfterCall
    BY <2>4 DEF CrashAfterCall, PublishInv, AfterPublication
  <2>5. CASE Resume
    BY <2>5 DEF Resume, PublishInv
  <2>. QED  BY <2>1, <2>2, <2>3, <2>4, <2>5 DEF Next
<1>. QED  BY <1>1, <1>2, PTL DEF Spec

(* A revision is published at most once: between two publications lies a     *)
(* repair the agent was asked for, or a crash.                               *)
THEOREM PublishesAlwaysBounded == Spec => []PublishesBounded
<1>1. PublishInv => PublishesBounded
  BY DEF PublishInv, PublishesBounded
<1>. QED  BY <1>1, PublishInvHolds, PTL

-----------------------------------------------------------------------------
(* The type of the state.                                                    *)
(* The fields of the state and what they hold.  Where a field holds an       *)
(* answer of the outside, it is one that may be given: the triggers of the   *)
(* impact and of the verdict are then those the budget of re-entry knows.    *)
FieldTypes ==
  [status |-> Statuses, intake |-> Maybe({Made}),
   classification |-> Maybe({Made}), route |-> Maybe(Routes),
   research |-> Maybe(Gathered), observation |-> Maybe(Gathered),
   context |-> Maybe({Made}), obligations |-> Maybe(Impacts),
   done |-> Maybe({Made}), plan |-> Maybe(Plans),
   contract |-> Maybe(SUBSET ObligationKinds),
   packets |-> Maybe(Seq(Packets)), active |-> Nat,
   progression |-> Maybe(Progressions), policy |-> Maybe(PolicyResults),
   approval |-> Maybe(Approvals), workspace |-> Maybe({Made}),
   execution |-> Maybe(Outcomes), review |-> Maybe(ReviewKinds),
   qaPlan |-> Maybe({Made}), qaReport |-> Maybe(QaReports),
   qaReview |-> Maybe(QaKinds), verification |-> Maybe(Verdicts),
   acceptance |-> Maybe(Acceptances), publish |-> Maybe(PublishOutcomes),
   publishReview |-> Maybe({Made}), report |-> Maybe(ReportStatuses),
   strategy |-> Strategies, decision |-> Maybe(Decisions), repairs |-> Nat,
   retries |-> Nat, loops |-> Seq(L!LoopDecisions)]

(* A state of the right type, whose plan comes with its packets and with its *)
(* contract.                                                                 *)
Fielded(st) ==
  /\ st = [f \in DOMAIN st |-> st[f]]
  /\ DOMAIN st = DOMAIN FieldTypes
  /\ \A f \in DOMAIN FieldTypes : st[f] \in FieldTypes[f]

Packed(st) ==
  st.plan # None => /\ st.packets \in Seq(Packets)
                    /\ st.contract \in SUBSET ObligationKinds

Typed(st) == Fielded(st) /\ Packed(st)

LEMMA FieldNames ==
  DOMAIN FieldTypes =
    {"status", "intake", "classification", "route", "research", "observation",
     "context", "obligations", "done", "plan", "contract", "packets", "active",
     "progression", "policy", "approval", "workspace", "execution", "review",
     "qaPlan", "qaReport", "qaReview", "verification", "acceptance", "publish",
     "publishReview", "report", "strategy", "decision", "repairs", "retries",
     "loops"}
BY DEF FieldTypes

LEMMA FirstFields ==
  /\ FieldTypes.status = Statuses /\ FieldTypes.intake = Maybe({Made})
  /\ FieldTypes.classification = Maybe({Made})
  /\ FieldTypes.route = Maybe(Routes)
  /\ FieldTypes.research = Maybe(Gathered)
  /\ FieldTypes.observation = Maybe(Gathered)
  /\ FieldTypes.context = Maybe({Made})
  /\ FieldTypes.obligations = Maybe(Impacts)
  /\ FieldTypes.done = Maybe({Made})
  /\ FieldTypes.plan = Maybe(Plans)
BY DEF FieldTypes

LEMMA PlanFields ==
  /\ FieldTypes.contract = Maybe(SUBSET ObligationKinds)
  /\ FieldTypes.packets = Maybe(Seq(Packets)) /\ FieldTypes.active = Nat
  /\ FieldTypes.progression = Maybe(Progressions)
  /\ FieldTypes.policy = Maybe(PolicyResults)
  /\ FieldTypes.approval = Maybe(Approvals)
  /\ FieldTypes.workspace = Maybe({Made})
  /\ FieldTypes.execution = Maybe(Outcomes)
  /\ FieldTypes.review = Maybe(ReviewKinds)
  /\ FieldTypes.qaPlan = Maybe({Made})
BY DEF FieldTypes

LEMMA LastFields ==
  /\ FieldTypes.qaReport = Maybe(QaReports)
  /\ FieldTypes.qaReview = Maybe(QaKinds)
  /\ FieldTypes.verification = Maybe(Verdicts)
  /\ FieldTypes.acceptance = Maybe(Acceptances)
  /\ FieldTypes.publish = Maybe(PublishOutcomes)
  /\ FieldTypes.publishReview = Maybe({Made})
  /\ FieldTypes.report = Maybe(ReportStatuses)
  /\ FieldTypes.strategy = Strategies
  /\ FieldTypes.decision = Maybe(Decisions) /\ FieldTypes.repairs = Nat
  /\ FieldTypes.retries = Nat /\ FieldTypes.loops = Seq(L!LoopDecisions)
BY DEF FieldTypes

LEMMA MaybeWider ==
  ASSUME NEW A, NEW B, A \subseteq B
  PROVE  Maybe(A) \subseteq Maybe(B)
BY DEF Maybe

LEMMA TypedStates == ASSUME NEW st, Typed(st) PROVE st \in WorkflowStates
<1>1. st = [f \in DOMAIN FieldTypes |-> st[f]]
  BY DEF Typed, Fielded
<1>2. \A f \in DOMAIN FieldTypes : st[f] \in FieldTypes[f]
  BY DEF Typed, Fielded
<1>3. /\ Maybe(Routes) \subseteq Maybe([fresh : BOOLEAN, observe : BOOLEAN])
      /\ Maybe(Gathered) \subseteq Maybe(GatheredResults)
      /\ Maybe(Impacts) \subseteq Maybe(L!TriggerKinds \cup {"none"})
      /\ Maybe(Plans) \subseteq Maybe(PlanRecords)
      /\ Maybe(Approvals) \subseteq Maybe(BOOLEAN)
      /\ Maybe(Outcomes) \subseteq Maybe(Executions)
      /\ Maybe(Verdicts) \subseteq Maybe(Verifications)
      /\ Maybe(PublishOutcomes) \subseteq Maybe(PublishResults)
      /\ Maybe(QaReports) \subseteq Maybe(QaResults)
  BY MaybeWider, WorkflowAssumption
<1>4. /\ st.status \in Statuses /\ st.intake \in Maybe({Made})
      /\ st.classification \in Maybe({Made})
      /\ st.route \in Maybe([fresh : BOOLEAN, observe : BOOLEAN])
      /\ st.research \in Maybe(GatheredResults)
      /\ st.observation \in Maybe(GatheredResults)
      /\ st.context \in Maybe({Made})
      /\ st.obligations \in Maybe(L!TriggerKinds \cup {"none"})
      /\ st.done \in Maybe({Made}) /\ st.plan \in Maybe(PlanRecords)
  <2>1. /\ st.status \in Statuses /\ st.intake \in Maybe({Made})
        /\ st.classification \in Maybe({Made}) /\ st.route \in Maybe(Routes)
        /\ st.research \in Maybe(Gathered) /\ st.observation \in Maybe(Gathered)
        /\ st.context \in Maybe({Made}) /\ st.obligations \in Maybe(Impacts)
        /\ st.done \in Maybe({Made}) /\ st.plan \in Maybe(Plans)
    BY <1>2, FieldNames, FirstFields
  <2>. QED  BY <1>3, <2>1
<1>5. /\ st.contract \in Maybe(SUBSET ObligationKinds)
      /\ st.packets \in Maybe(Seq(Packets)) /\ st.active \in Nat
      /\ st.progression \in Maybe(Progressions)
      /\ st.policy \in Maybe(PolicyResults) /\ st.approval \in Maybe(BOOLEAN)
      /\ st.workspace \in Maybe({Made}) /\ st.execution \in Maybe(Executions)
      /\ st.review \in Maybe(ReviewKinds) /\ st.qaPlan \in Maybe({Made})
  BY <1>2, <1>3, FieldNames, PlanFields
<1>6. /\ st.qaReport \in Maybe(QaResults) /\ st.qaReview \in Maybe(QaKinds)
      /\ st.verification \in Maybe(Verifications)
      /\ st.acceptance \in Maybe(Acceptances)
      /\ st.publish \in Maybe(PublishResults)
      /\ st.publishReview \in Maybe({Made})
      /\ st.report \in Maybe(ReportStatuses)
      /\ st.strategy \in Strategies /\ st.decision \in Maybe(Decisions)
      /\ st.repairs \in Nat /\ st.retries \in Nat
      /\ st.loops \in Seq(L!LoopDecisions)
  BY <1>2, <1>3, FieldNames, LastFields
<1>. QED  BY <1>1, <1>4, <1>5, <1>6, FieldNames DEF WorkflowStates

Exits == {"running", "report", "crashed", "not_ready", "checkpoint_error",
          "publish_refused", "repair_limit"}
Checks == {"reviewed", "tested", "verified", "excused", "accepted"}

TypeInv ==
  /\ Typed(s)
  /\ node \in Stages
  /\ exit \in Exits
  /\ {crashes, repairCalls, publishes} \subseteq Nat
  /\ vouched \subseteq Checks

LEMMA TypeInvTypes == TypeInv => TypeOK
BY TypedStates DEF TypeInv, TypeOK, Exits, Checks

(* A commit writes a state of the right type, or nothing.                    *)
LEMMA CommitTyped ==
  ASSUME Typed(s), node \in Stages, exit \in Exits,
         NEW st, Typed(st), NEW next \in Stages, Commit(st, next)
  PROVE  Typed(s') /\ node' \in Stages /\ exit' \in Exits
BY DEF Commit, Exits

(* A field is set to a value of its type.                                    *)
LEMMA Put ==
  ASSUME NEW st, Fielded(st), NEW f, NEW v \in FieldTypes[f]
  PROVE  Fielded([st EXCEPT ![f] = v])
BY DEF Fielded

LEMMA PackedAsBefore ==
  ASSUME NEW st, Packed(st), NEW now,
         now.plan = st.plan, now.packets = st.packets, now.contract = st.contract
  PROVE  Packed(now)
BY DEF Packed

LEMMA FillTyped ==
  ASSUME TypeInv, NEW stage, NEW st, NEW next \in Stages,
         Fielded(st), Packed(st), Fill(stage, st, next)
  PROVE  TypeInv'
<1>1. Typed(s') /\ node' \in Stages /\ exit' \in Exits
  BY CommitTyped DEF Fill, TypeInv, Typed
<1>. QED  BY <1>1 DEF TypeInv, Fill, NoCalls, Typed

LEMMA StatusNames ==
  Statuses =
    {"created", "intake_completed", "classified", "routed", "researched",
     "observed", "context_built", "obligations_synthesized",
     "done_contract_built", "planned", "policy_checked", "approval_resolved",
     "workspace_prepared", "executed", "reviewed", "qa_planned", "qa_executed",
     "qa_reviewed", "repaired", "published", "post_publish_verified",
     "acceptance_evaluated", "reported"}
BY DEF Statuses, StatusFields

LEMMA DecisionsTyped == \A stage \in Decisions : stage \in FieldTypes.decision
BY LastFields DEF Maybe

(* The stages that fill in a field and leave the plan alone.                 *)
LEMMA FillingTyped ==
  ASSUME TypeInv,
         \/ Intake \/ Classify \/ Route \/ Research \/ Observe \/ BuildContext
         \/ Obligations \/ DoneContract \/ Policy \/ Approval
         \/ WorkspacePrepare \/ QaPlan
  PROVE  TypeInv'
<1>0. Fielded(s) /\ Packed(s)
  BY DEF TypeInv, Typed
<1>00. /\ Made \in FieldTypes.intake /\ Made \in FieldTypes.classification
      /\ Made \in FieldTypes.context /\ Made \in FieldTypes.done
      /\ Made \in FieldTypes.workspace /\ Made \in FieldTypes.qaPlan
  BY FirstFields, PlanFields DEF Maybe
<1>1. CASE Intake
  <2>. DEFINE st == [s EXCEPT !.intake = Made, !.status = "intake_completed"]
  <2>0. "intake_completed" \in FieldTypes.status
    BY FirstFields, StatusNames
  <2>1. Fielded(st)
    BY <1>0, <1>00, <2>0, Put
  <2>2. Packed(st)
    BY <1>0, FieldNames, PackedAsBefore DEF Fielded
  <2>3. Fill("intake", st, "classify") /\ "classify" \in Stages
    BY <1>1 DEF Intake, Stages
  <2>. HIDE DEF st
  <2>. QED  BY <2>1, <2>2, <2>3, FillTyped
<1>2. CASE Classify
  <2>. DEFINE st == [s EXCEPT !.classification = Made, !.status = "classified"]
  <2>0. "classified" \in FieldTypes.status
    BY FirstFields, StatusNames
  <2>1. Fielded(st)
    BY <1>0, <1>00, <2>0, Put
  <2>2. Packed(st)
    BY <1>0, FieldNames, PackedAsBefore DEF Fielded
  <2>3. Fill("classify", st, "route") /\ "route" \in Stages
    BY <1>2 DEF Classify, Stages
  <2>. HIDE DEF st
  <2>. QED  BY <2>1, <2>2, <2>3, FillTyped
<1>3. CASE Route
  <2>. PICK route \in Routes :
         Fill("route",
              [s EXCEPT !.route = route, !.status = "routed",
                        !.decision = NextAfterRoute(route)],
              NextAfterRoute(route))
    BY <1>3 DEF Route
  <2>. DEFINE next == NextAfterRoute(route)
              st == [s EXCEPT !.route = route, !.status = "routed",
                              !.decision = NextAfterRoute(route)]
  <2>1. next \in Stages /\ NextAfterRoute(route) \in FieldTypes.decision
    BY DecisionsTyped DEF NextAfterRoute, Stages, Decisions
  <2>2. route \in FieldTypes.route /\ "routed" \in FieldTypes.status
    BY FirstFields, FirstFields, StatusNames DEF Maybe
  <2>3. Fill("route", st, next)
    OBVIOUS
  <2>4. Fielded(st)
    BY <1>0, <2>1, <2>2, Put
  <2>5. Packed(st)
    BY <1>0, FieldNames, PackedAsBefore DEF Fielded
  <2>. HIDE DEF st, next
  <2>. QED  BY <2>1, <2>3, <2>4, <2>5, FillTyped
<1>4. CASE Research
  <2>. PICK result \in Gathered :
         Fill("research",
              [s EXCEPT !.research = result, !.status = "researched",
                        !.decision = NextAfterResearch(s.route)],
              ResearchNext(result, s))
    BY <1>4 DEF Research
  <2>. DEFINE next == ResearchNext(result, s)
              st == [s EXCEPT !.research = result, !.status = "researched",
                              !.decision = NextAfterResearch(s.route)]
  <2>1. next \in Stages /\ NextAfterResearch(s.route) \in FieldTypes.decision
    BY DecisionsTyped DEF ResearchNext, NextAfterResearch, Stages, Decisions
  <2>2. result \in FieldTypes.research /\ "researched" \in FieldTypes.status
    BY FirstFields, FirstFields, StatusNames DEF Maybe
  <2>3. Fill("research", st, next)
    OBVIOUS
  <2>4. Fielded(st)
    BY <1>0, <2>1, <2>2, Put
  <2>5. Packed(st)
    BY <1>0, FieldNames, PackedAsBefore DEF Fielded
  <2>. HIDE DEF st, next
  <2>. QED  BY <2>1, <2>3, <2>4, <2>5, FillTyped
<1>5. CASE Observe
  <2>. PICK result \in Gathered :
         Fill("observe",
              [s EXCEPT !.observation = result, !.status = "observed"],
              ObserveNext(result, s))
    BY <1>5 DEF Observe
  <2>. DEFINE next == ObserveNext(result, s)
              st == [s EXCEPT !.observation = result, !.status = "observed"]
  <2>1. next \in Stages
    BY DecisionsTyped DEF ObserveNext, Stages, Decisions
  <2>2. result \in FieldTypes.observation /\ "observed" \in FieldTypes.status
    BY FirstFields, FirstFields, StatusNames DEF Maybe
  <2>3. Fill("observe", st, next)
    OBVIOUS
  <2>4. Fielded(st)
    BY <1>0, <2>1, <2>2, Put
  <2>5. Packed(st)
    BY <1>0, FieldNames, PackedAsBefore DEF Fielded
  <2>. HIDE DEF st, next
  <2>. QED  BY <2>1, <2>3, <2>4, <2>5, FillTyped
<1>6. CASE BuildContext
  <2>. DEFINE st == [s EXCEPT !.context = Made, !.status = "context_built"]
  <2>0. "context_built" \in FieldTypes.status
    BY FirstFields, StatusNames
  <2>1. Fielded(st)
    BY <1>0, <1>00, <2>0, Put
  <2>2. Packed(st)
    BY <1>0, FieldNames, PackedAsBefore DEF Fielded
  <2>3. Fill("build_context", st, "obligations") /\ "obligations" \in Stages
    BY <1>6 DEF BuildContext, Stages
  <2>. HIDE DEF st
  <2>. QED  BY <2>1, <2>2, <2>3, FillTyped
<1>7. CASE Obligations
  <2>. PICK impact \in Impacts :
         Fill("obligations",
              [s EXCEPT !.obligations = impact,
                        !.status = "obligations_synthesized"],
              "done_contract")
    BY <1>7 DEF Obligations
  <2>. DEFINE next == "done_contract"
              st == [s EXCEPT !.obligations = impact,
                              !.status = "obligations_synthesized"]
  <2>1. next \in Stages
    BY DecisionsTyped DEF Obligations, Stages, Decisions
  <2>2. /\ impact \in FieldTypes.obligations
        /\ "obligations_synthesized" \in FieldTypes.status
    BY FirstFields, FirstFields, StatusNames DEF Maybe
  <2>3. Fill("obligations", st, next)
    OBVIOUS
  <2>4. Fielded(st)
    BY <1>0, <2>1, <2>2, Put
  <2>5. Packed(st)
    BY <1>0, FieldNames, PackedAsBefore DEF Fielded
  <2>. HIDE DEF st, next
  <2>. QED  BY <2>1, <2>3, <2>4, <2>5, FillTyped
<1>8. CASE DoneContract
  <2>. DEFINE st == [s EXCEPT !.done = Made, !.status = "done_contract_built"]
  <2>0. "done_contract_built" \in FieldTypes.status
    BY FirstFields, StatusNames
  <2>1. Fielded(st)
    BY <1>0, <1>00, <2>0, Put
  <2>2. Packed(st)
    BY <1>0, FieldNames, PackedAsBefore DEF Fielded
  <2>3. Fill("done_contract", st, "plan") /\ "plan" \in Stages
    BY <1>8 DEF DoneContract, Stages
  <2>. HIDE DEF st
  <2>. QED  BY <2>1, <2>2, <2>3, FillTyped
<1>10. CASE Approval
  <2>. PICK approved \in Approvals :
         Fill("approval",
              [s EXCEPT !.approval = approved, !.status = "approval_resolved",
                        !.decision = NextAfterApproval(approved)],
              NextAfterApproval(approved))
    BY <1>10 DEF Approval
  <2>. DEFINE next == NextAfterApproval(approved)
              st == [s EXCEPT !.approval = approved,
                              !.status = "approval_resolved",
                              !.decision = NextAfterApproval(approved)]
  <2>1. next \in Stages /\ NextAfterApproval(approved) \in FieldTypes.decision
    BY DecisionsTyped DEF NextAfterApproval, Stages, Decisions
  <2>2. /\ approved \in FieldTypes.approval
        /\ "approval_resolved" \in FieldTypes.status
    BY PlanFields, FirstFields, StatusNames DEF Maybe
  <2>3. Fill("approval", st, next)
    OBVIOUS
  <2>4. Fielded(st)
    BY <1>0, <2>1, <2>2, Put
  <2>5. Packed(st)
    BY <1>0, FieldNames, PackedAsBefore DEF Fielded
  <2>. HIDE DEF st, next
  <2>. QED  BY <2>1, <2>3, <2>4, <2>5, FillTyped
<1>9. CASE Policy
  <2>. PICK answer \in PolicyVerdicts :
         LET verdict == IF EvidenceMissing(s.plan, s) THEN "blocked" ELSE answer
         IN  Fill("policy",
                  [s EXCEPT !.policy = verdict, !.status = "policy_checked",
                            !.decision = NextAfterPolicy(verdict)],
                  NextAfterPolicy(verdict))
    BY <1>9 DEF Policy
  <2>. DEFINE verdict == IF EvidenceMissing(s.plan, s) THEN "blocked" ELSE answer
              next == NextAfterPolicy(verdict)
              st == [s EXCEPT !.policy = verdict, !.status = "policy_checked",
                              !.decision = next]
  <2>1. verdict \in PolicyResults
    BY WorkflowAssumption DEF PolicyResults
  <2>2. Fill("policy", st, next)
    OBVIOUS
  <2>. HIDE DEF verdict
  <2>3. next \in Stages /\ next \in FieldTypes.decision
    BY <2>1, DecisionsTyped DEF NextAfterPolicy, Stages, Decisions,
       PolicyResults
  <2>. HIDE DEF next
  <2>4. verdict \in FieldTypes.policy /\ "policy_checked" \in FieldTypes.status
    BY <2>1, PlanFields, FirstFields, StatusNames DEF Maybe
  <2>5. Fielded(st)
    BY <1>0, <2>3, <2>4, Put
  <2>6. Packed(st)
    BY <1>0, FieldNames, PackedAsBefore DEF Fielded
  <2>. HIDE DEF st
  <2>. QED  BY <2>2, <2>3, <2>5, <2>6, FillTyped
<1>11. CASE WorkspacePrepare
  <2>. DEFINE st == [s EXCEPT !.workspace = Made,
                              !.status = "workspace_prepared",
                              !.decision = "execute"]
  <2>0. /\ "workspace_prepared" \in FieldTypes.status
        /\ "execute" \in FieldTypes.decision
    BY FirstFields, StatusNames, DecisionsTyped DEF Decisions, Stages
  <2>1. Fielded(st)
    BY <1>0, <1>00, <2>0, Put
  <2>2. Packed(st)
    BY <1>0, FieldNames, PackedAsBefore DEF Fielded
  <2>3. Fill("workspace_prepare", st, "execute") /\ "execute" \in Stages
    BY <1>11 DEF WorkspacePrepare, Stages
  <2>. HIDE DEF st
  <2>. QED  BY <2>1, <2>2, <2>3, FillTyped
<1>12. CASE QaPlan
  <2>. DEFINE st == [s EXCEPT !.qaPlan = Made, !.status = "qa_planned"]
  <2>0. "qa_planned" \in FieldTypes.status
    BY FirstFields, StatusNames
  <2>1. Fielded(st)
    BY <1>0, <1>00, <2>0, Put
  <2>2. Packed(st)
    BY <1>0, FieldNames, PackedAsBefore DEF Fielded
  <2>3. Fill("qa_plan", st, "qa_execute") /\ "qa_execute" \in Stages
    BY <1>12 DEF QaPlan, Stages
  <2>. HIDE DEF st
  <2>. QED  BY <2>1, <2>2, <2>3, FillTyped
<1>. QED
  BY <1>1, <1>2, <1>3, <1>4, <1>5, <1>6, <1>7, <1>8, <1>9, <1>10, <1>11, <1>12

-----------------------------------------------------------------------------
(* The packets.  The first of some positions is one of them, because numbers *)
(* are well-founded.                                                         *)
LEMMA FirstIn ==
  ASSUME NEW positions, positions \subseteq Nat
  PROVE  First(positions) \in positions \cup {NoPacket}
<1>1. CASE positions = {}
  BY <1>1 DEF First
<1>2. CASE positions # {}
  <2>1. PICK x \in positions :
          \A y \in positions : ~ (<<y, x>> \in OpToRel(<, Nat))
    BY <1>2, WFMin, NatLessThanWellFounded
  <2>2. \A y \in positions : x <= y
    <3>. SUFFICES ASSUME NEW y \in positions PROVE x <= y
      OBVIOUS
    <3>1. x \in Nat /\ y \in Nat
      OBVIOUS
    <3>2. ~ (<<y, x>> \in {ss \in Nat \X Nat : ss[1] < ss[2]})
      BY <2>1 DEF OpToRel
    <3>. QED  BY <3>1, <3>2
  <2>3. First(positions) \in positions
    BY <1>2, <2>2 DEF First
  <2>. QED  BY <2>3
<1>. QED  BY <1>1, <1>2

LEMMA SelectTyped ==
  ASSUME NEW packets \in Seq(Packets), NEW strategy
  PROVE  Select(packets, strategy).id \in Nat
<1>1. \A positions \in SUBSET Nat : First(positions) \in Nat
  <2>. SUFFICES ASSUME NEW positions \in SUBSET Nat
                PROVE  First(positions) \in Nat
    OBVIOUS
  <2>1. First(positions) \in positions \cup {NoPacket}
    BY FirstIn
  <2>2. positions \cup {NoPacket} \subseteq Nat
    BY DEF NoPacket
  <2>. QED  BY <2>1, <2>2
<1>2. /\ PendingRepairs(packets) \in SUBSET Nat
      /\ WithStatus(packets, "failed") \in SUBSET Nat
      /\ WithStatus(packets, "pending") \in SUBSET Nat
  BY DEF PendingRepairs, WithStatus
<1>. QED  BY <1>1, <1>2 DEF Select

LEMMA FreshTyped ==
  ASSUME NEW chain \in Seq(PacketTypes)
  PROVE  FreshPackets(chain) \in Seq(Packets)
<1>1. \A i \in DOMAIN chain :
        [type |-> chain[i], status |-> "pending"] \in Packets
  BY DEF Packets, PacketStatuses
<1>. QED  BY <1>1 DEF FreshPackets

LEMMA SetStatusTyped ==
  ASSUME NEW packets \in Seq(Packets), NEW i, NEW status \in PacketStatuses
  PROVE  SetStatus(packets, i, status) \in Seq(Packets)
<1>1. CASE i = NoPacket
  BY <1>1 DEF SetStatus
<1>3. CASE i # NoPacket /\ i \notin DOMAIN packets
  <2>1. packets = [j \in DOMAIN packets |-> packets[j]]
    OBVIOUS
  <2>2. SetStatus(packets, i, status) = packets
    BY <1>3, <2>1 DEF SetStatus
  <2>. QED  BY <2>2
<1>2. CASE i # NoPacket /\ i \in DOMAIN packets
  <2>1. [packets[i] EXCEPT !.status = status] \in Packets
    <3>1. packets[i] \in Packets
      BY <1>2
    <3>. QED  BY <3>1 DEF Packets
  <2>2. SetStatus(packets, i, status)
          = [packets EXCEPT ![i] = [packets[i] EXCEPT !.status = status]]
    BY <1>2 DEF SetStatus
  <2>. QED  BY <1>2, <2>1, <2>2
<1>. QED  BY <1>1, <1>2, <1>3

LEMMA ProgressionTyped ==
  ASSUME NEW packets \in Seq(Packets), NEW strategy
  PROVE  Progression(packets, strategy) \in Progressions
<1>1. Select(packets, strategy).id \in Nat /\ NoPacket \in Nat
  BY SelectTyped DEF NoPacket
<1>. HIDE DEF NoPacket
<1>. QED  BY <1>1 DEF Progression, Progress, Progressions

LEMMA ContractTyped == \A plan : Contract(plan) \in SUBSET ObligationKinds
BY DEF Contract, ObligationKinds

LEMMA AcceptanceTyped ==
  ASSUME NEW contract \in SUBSET ObligationKinds, NEW x, NEW v, NEW p
  PROVE  EvaluateAcceptance(contract, x, v, p) \in Acceptances
BY DEF EvaluateAcceptance, Acceptances

LEMMA RefusalTyped ==
  \A violations : RefusedAcceptance(violations) \in Acceptances
BY DEF RefusedAcceptance, RefusalStatus, Acceptances, ObligationKinds

-----------------------------------------------------------------------------
(* A strategy checkpoint and a clearing leave a state of the right type.     *)
LEMMA CheckpointTyped ==
  ASSUME NEW st, Fielded(st), Packed(st), NEW stage \in Stages
  PROVE  /\ Fielded(StrategyCheckpoint(st, stage))
         /\ Packed(StrategyCheckpoint(st, stage))
<1>1. Govern(st) \in FieldTypes.strategy /\ stage \in FieldTypes.decision
  BY LastFields, DecisionsTyped DEF Govern, Strategies, Decisions
<1>2. Fielded(StrategyCheckpoint(st, stage))
  BY <1>1, Put DEF StrategyCheckpoint
<1>3. Packed(StrategyCheckpoint(st, stage))
  BY FieldNames, PackedAsBefore DEF StrategyCheckpoint, Fielded
<1>. QED  BY <1>2, <1>3

LEMMA ClearTyped ==
  ASSUME NEW st, Fielded(st), Packed(st), NEW target
  PROVE  Fielded(ClearForReentry(st, target)) /\ Packed(ClearForReentry(st,
         target))
<1>1. \A f \in ClearedFields(target) : None \in FieldTypes[f]
  BY FirstFields, PlanFields, LastFields DEF ClearedFields, Maybe
<1>2. NoPacket \in FieldTypes.active
  BY PlanFields DEF NoPacket
<1>3. Fielded(ClearForReentry(st, target))
  BY <1>1, <1>2 DEF Fielded, ClearForReentry
<1>4. Packed(ClearForReentry(st, target))
  <2>1. CASE target \in L!ReentryStages
    <3>1. "plan" \in ClearedFields(target)
      BY <2>1 DEF ClearedFields
    <3>. QED  BY <3>1, FieldNames DEF Fielded, ClearForReentry, Packed
  <2>2. CASE target \notin L!ReentryStages
    <3>1. {"plan", "packets", "contract"} \cap ClearedFields(target) = {}
      BY <2>2 DEF ClearedFields, L!ReentryStages
    <3>. QED  BY <3>1, FieldNames DEF Fielded, ClearForReentry, Packed
  <2>. QED  BY <2>1, <2>2
<1>. QED  BY <1>3, <1>4

-----------------------------------------------------------------------------
(* The stages that compute more of the state.                                *)
LEMMA PlanTyped == ASSUME TypeInv, Plan PROVE TypeInv'
<1>. PICK plan \in Plans, chain \in PacketChains : Plan!(plan, chain)
  BY DEF Plan
<1>. DEFINE governed == StrategyCheckpoint(s, "plan")
            packets == FreshPackets(IF governed.strategy = "repair_only"
                                    THEN <<"repair">> ELSE chain)
            active == Select(packets, governed.strategy).id
            st == [governed EXCEPT !.plan = plan, !.contract = Contract(plan),
                                   !.packets = packets, !.active = active,
                                   !.status = "planned"]
<1>1. Fill("plan", st, "policy")
  OBVIOUS
<1>2. packets \in Seq(Packets)
  <2>1. <<"repair">> \in Seq(PacketTypes) /\ chain \in Seq(PacketTypes)
    BY WorkflowAssumption DEF PacketTypes
  <2>. QED  BY <2>1, FreshTyped
<1>. HIDE DEF packets
<1>3. active \in Nat
  BY <1>2, SelectTyped
<1>4. Fielded(governed)
  BY CheckpointTyped DEF TypeInv, Typed, Stages
<1>. HIDE DEF governed, active
<1>5. /\ plan \in FieldTypes.plan /\ Contract(plan) \in FieldTypes.contract
      /\ packets \in FieldTypes.packets /\ active \in FieldTypes.active
      /\ "planned" \in FieldTypes.status
  BY <1>2, <1>3, FirstFields, PlanFields, StatusNames, ContractTyped DEF Maybe
<1>6. Fielded(st)
  BY <1>4, <1>5, Put
<1>7. Packed(st)
  BY <1>2, <1>4, ContractTyped, FieldNames DEF Fielded, Packed
<1>8. "policy" \in Stages
  BY DEF Stages
<1>. HIDE DEF st
<1>. QED  BY <1>1, <1>6, <1>7, <1>8, FillTyped

(* What the stages that are no filling keep besides the state.               *)
LEMMA StageTyped ==
  ASSUME TypeInv, NEW st, Fielded(st), Packed(st), NEW next \in Stages,
         Commit(st, next), NoCalls, vouched' \subseteq Checks
  PROVE  TypeInv'
<1>1. Typed(s') /\ node' \in Stages /\ exit' \in Exits
  BY CommitTyped DEF TypeInv, Typed
<1>. QED  BY <1>1 DEF TypeInv, NoCalls, Typed

LEMMA ExecuteTyped == ASSUME TypeInv, Execute PROVE TypeInv'
<1>. PICK x \in Outcomes : Execute!2!(x)
  BY DEF Execute
<1>. DEFINE packets == IF s.packets = None THEN FreshPackets(<<"verification">>)
                       ELSE s.packets
            active == Select(packets, s.strategy).id
            status == IF active = NoPacket THEN "pending"
                      ELSE ExecutedPacketStatus(x, packets[active])
            now == SetStatus(packets, active, status)
            st == [s EXCEPT !.execution = x, !.workspace = Made,
                            !.packets = now,
                            !.active = active, !.status = "executed",
                            !.decision = "review"]
<1>0. Fielded(s) /\ Packed(s)
  BY DEF TypeInv, Typed
<1>1. Commit(st, "review") /\ NoCalls /\ vouched' = {}
  BY DEF Execute
<1>2. packets \in Seq(Packets)
  <2>1. <<"verification">> \in Seq(PacketTypes)
    BY DEF PacketTypes
  <2>2. s.packets \in Maybe(Seq(Packets))
    BY <1>0, PlanFields, FieldNames DEF Fielded
  <2>. QED  BY <2>1, <2>2, FreshTyped DEF Maybe
<1>. HIDE DEF packets
<1>3. active \in Nat
  BY <1>2, SelectTyped
<1>. HIDE DEF active
<1>4. status \in PacketStatuses
  BY DEF ExecutedPacketStatus, PacketStatus, PacketStatuses
<1>. HIDE DEF status
<1>5. now \in Seq(Packets)
  BY <1>2, <1>4, SetStatusTyped
<1>. HIDE DEF now
<1>6. /\ x \in FieldTypes.execution /\ Made \in FieldTypes.workspace
      /\ now \in FieldTypes.packets /\ active \in FieldTypes.active
      /\ "executed" \in FieldTypes.status /\ "review" \in FieldTypes.decision
  BY <1>3, <1>5, FirstFields, PlanFields, StatusNames, DecisionsTyped
     DEF Maybe, Decisions, Stages
<1>7. Fielded(st)
  BY <1>0, <1>6, Put
<1>8. Packed(st)
  BY <1>0, <1>5, FieldNames DEF Fielded, Packed
<1>9. "review" \in Stages
  BY DEF Stages
<1>. HIDE DEF st
<1>. QED  BY <1>1, <1>7, <1>8, <1>9, StageTyped

LEMMA QaExecuteTyped == ASSUME TypeInv, QaExecute PROVE TypeInv'
<1>. PICK report \in QaReports :
       Commit([s EXCEPT !.qaReport = report, !.status = "qa_executed"],
              "qa_review")
  BY DEF QaExecute
<1>. DEFINE st == [s EXCEPT !.qaReport = report, !.status = "qa_executed"]
<1>0. Fielded(s) /\ Packed(s)
  BY DEF TypeInv, Typed
<1>1. /\ Commit(st, "qa_review") /\ NoCalls
      /\ vouched' = vouched \cup {"tested"}
  BY DEF QaExecute
<1>2. report \in FieldTypes.qaReport /\ "qa_executed" \in FieldTypes.status
  BY FirstFields, LastFields, StatusNames DEF Maybe
<1>3. Fielded(st)
  BY <1>0, <1>2, Put
<1>4. Packed(st)
  BY <1>0, FieldNames, PackedAsBefore DEF Fielded
<1>5. "qa_review" \in Stages /\ vouched' \subseteq Checks
  BY <1>1 DEF Stages, Checks, TypeInv
<1>. HIDE DEF st
<1>. QED  BY <1>1, <1>3, <1>4, <1>5, StageTyped

LEMMA ReviewTyped == ASSUME TypeInv, Review PROVE TypeInv'
<1>. PICK engine \in PolicyEngines, missing \in DeliverablesMissing :
       Review!2!(engine, missing)
  BY DEF Review
<1>. DEFINE x == s.execution
            lifecycle ==
              Transition(engine, "execution",
                         FactsOf(s.plan, x, None, None, "absent", 0))
            kind == ReviewKind(s, x, lifecycle)
            progression ==
              IF kind = "pass" THEN Progression(s.packets, s.strategy)
              ELSE s.progression
            retries == RetriesAfter(s, kind)
            packets == IF kind = "agent_retry"
                       THEN SetStatus(s.packets, s.active, "pending")
                       ELSE s.packets
            active == IF kind = "pass" THEN progression.next ELSE s.active
            acceptance == IF kind = "policy_violation" /\ s.contract # None
                          THEN RefusedAcceptance(lifecycle.violations)
                          ELSE s.acceptance
            decision == ReviewDecision(kind, progression)
            reviewed ==
              [s EXCEPT !.review = kind, !.retries = retries,
                        !.packets = packets, !.active = active,
                        !.progression = progression,
                        !.acceptance = acceptance, !.status = "reviewed",
                        !.decision = decision]
            governed == kind # "pass" \/ missing \/ progression.blocked
            st == IF governed THEN StrategyCheckpoint(reviewed, "review")
                  ELSE reviewed
            next == NextAfterReview(kind, progression)
<1>0. Fielded(s) /\ Packed(s) /\ s.plan # None
  BY DEF TypeInv, Typed, Review, At, Ready, Required
<1>1. Commit(st, next) /\ NoCalls
  BY DEF Review
<1>2. vouched' \subseteq vouched \cup {"reviewed"}
  OBVIOUS
<1>3. kind \in ReviewKinds
  BY DEF ReviewKind, ReviewKinds
<1>. HIDE DEF lifecycle, kind
<1>4. /\ kind = "pass" => progression \in Progressions
      /\ progression \in FieldTypes.progression
  BY <1>0, ProgressionTyped, PlanFields, FieldNames DEF Maybe, Packed, Fielded
<1>. HIDE DEF progression
<1>5. next \in Stages /\ decision \in Decisions
  BY <1>3, <1>4
     DEF NextAfterReview, ReviewDecision, ReviewKinds, Progressions, Stages,
         Decisions
<1>6. s.retries \in Nat /\ s.active \in Nat /\ s.packets \in Seq(Packets)
      /\ s.acceptance \in FieldTypes.acceptance
  BY <1>0, PlanFields, LastFields, FieldNames DEF Fielded, Packed
<1>7. retries \in Nat
  BY <1>6 DEF RetriesAfter
<1>8. packets \in Seq(Packets)
  BY <1>6, SetStatusTyped DEF PacketStatuses
<1>9. active \in Nat
  BY <1>4, <1>6 DEF Progressions
<1>10. acceptance \in FieldTypes.acceptance
  BY <1>6, RefusalTyped, LastFields DEF Maybe
<1>. HIDE DEF next, decision, retries, packets, active, acceptance
<1>11. /\ kind \in FieldTypes.review /\ retries \in FieldTypes.retries
       /\ packets \in FieldTypes.packets /\ active \in FieldTypes.active
       /\ "reviewed" \in FieldTypes.status /\ decision \in FieldTypes.decision
  BY <1>3, <1>5, <1>7, <1>8, <1>9, FirstFields, PlanFields, LastFields,
     StatusNames, DecisionsTyped DEF Maybe
<1>12. Fielded(reviewed)
  BY <1>0, <1>4, <1>10, <1>11, Put
<1>13. Packed(reviewed)
  BY <1>0, <1>8, FieldNames DEF Fielded, Packed
<1>. HIDE DEF reviewed, governed
<1>14. Fielded(st) /\ Packed(st)
  BY <1>12, <1>13, CheckpointTyped DEF Stages
<1>15. vouched' \subseteq Checks
  BY <1>2 DEF TypeInv, Checks
<1>. HIDE DEF st
<1>. QED  BY <1>1, <1>5, <1>14, <1>15, StageTyped

(* The decision on a re-entry has the type of the history, and its target is *)
(* a stage unless the run goes on.                                           *)
LEMMA LoopTyped ==
  ASSUME NEW prior, NEW source \in {"verify", "acceptance"},
         NEW trigger \in TriggerSpace, NEW up
  PROVE  L!Evaluate(prior, source, trigger, up) \in L!LoopDecisions
<1>1. L!TargetForTrigger(trigger) \in L!Targets
  BY DEF L!TargetForTrigger, L!Targets, L!ReentryStages
<1>. HIDE DEF L!TargetForTrigger, L!Exhausted
<1>. QED  BY <1>1
          DEF L!Evaluate, L!LoopDecision, L!LoopDecisions, L!Targets

LEMMA ContinueTyped == L!ContinueDecision("qa_review") \in L!LoopDecisions
BY DEF L!ContinueDecision, L!LoopDecision, L!LoopDecisions, L!Targets

LEMMA TriggerTyped ==
  ASSUME NEW st, Fielded(st), NEW v \in Maybe(Verdicts)
  PROVE  TriggerOf(st, v) \in TriggerSpace
<1>1. st.obligations \in Maybe(Impacts)
  BY FirstFields, FieldNames DEF Fielded
<1>. QED  BY <1>1 DEF TriggerOf, TriggerSpace, Maybe

LEMMA QaReviewTyped == ASSUME TypeInv, QaReview PROVE TypeInv'
<1>. PICK v \in Verdicts, engine \in PolicyEngines : QaReview!2!(v, engine)
  BY DEF QaReview
<1>. DEFINE kind == QaStatus(s.execution, v, s.qaReport)
            loop == QaLoopDecision(s, v, kind, engine # "unavailable")
            next == NextAfterQa(kind, loop)
            loops == Append(s.loops, loop)
            recorded ==
              [s EXCEPT !.verification = v, !.qaReview = kind, !.loops = loops,
                        !.status = "qa_reviewed", !.decision = next]
            cleared == IF loop.target = "continue" THEN recorded
                       ELSE ClearForReentry(recorded, loop.target)
            governed == kind # "pass" \/ v.gap = "evidence" \/ v.checks = "failed"
            st == IF governed THEN StrategyCheckpoint(cleared, "qa_review")
                  ELSE cleared
<1>0. Fielded(s) /\ Packed(s)
  BY DEF TypeInv, Typed
<1>1. Commit(st, next) /\ NoCalls
  BY DEF QaReview
<1>2. vouched' \subseteq vouched \cup {"verified", "excused"}
  BY DEF VerifiedBy
<1>3. kind \in QaKinds
  BY DEF QaStatus, QaKinds
<1>. HIDE DEF kind
<1>4. loop \in L!LoopDecisions
  BY <1>0, LoopTyped, ContinueTyped, TriggerTyped DEF QaLoopDecision, Maybe
<1>. HIDE DEF loop
<1>5. next \in Stages
  BY <1>3, <1>4
     DEF NextAfterQa, QaKinds, L!LoopDecisions, L!Targets, L!ReentryStages,
         Stages
<1>6. loops \in Seq(L!LoopDecisions)
  <2>1. s.loops \in Seq(L!LoopDecisions)
    BY <1>0, LastFields, FieldNames DEF Fielded
  <2>. HIDE DEF L!LoopDecisions
  <2>. QED  BY <1>4, <2>1
<1>. HIDE DEF next, loops
<1>7. /\ v \in FieldTypes.verification /\ kind \in FieldTypes.qaReview
      /\ loops \in FieldTypes.loops /\ "qa_reviewed" \in FieldTypes.status
      /\ next \in FieldTypes.decision
  BY <1>3, <1>5, <1>6, FirstFields, LastFields, StatusNames, DecisionsTyped
     DEF Maybe, Decisions
<1>8. Fielded(recorded)
  BY <1>0, <1>7, Put
<1>9. Packed(recorded)
  BY <1>0, FieldNames, PackedAsBefore DEF Fielded
<1>. HIDE DEF recorded, governed
<1>10. Fielded(cleared) /\ Packed(cleared)
  BY <1>8, <1>9, ClearTyped
<1>. HIDE DEF cleared
<1>11. Fielded(st) /\ Packed(st)
  BY <1>10, CheckpointTyped DEF Stages
<1>12. vouched' \subseteq Checks
  BY <1>2 DEF TypeInv, Checks
<1>. HIDE DEF st
<1>. QED  BY <1>1, <1>5, <1>11, <1>12, StageTyped

LEMMA AcceptanceStageTyped == ASSUME TypeInv, Acceptance PROVE TypeInv'
<1>. PICK engine \in PolicyEngines : Acceptance!2!(engine)
  BY DEF Acceptance
<1>. DEFINE acceptance ==
              EvaluateAcceptance(s.contract, s.execution, s.verification,
                                 s.publish)
            lifecycle ==
              Transition(engine, "acceptance",
                         FactsOf(s.plan, s.execution, s.verification, s.publish,
                                 Gate(acceptance), 0))
            loop == L!Evaluate(s.loops, "acceptance",
                               TriggerOf(s, s.verification),
                               engine # "unavailable")
            next == NextAfterAcceptance(lifecycle, loop)
            loops == Append(s.loops, loop)
            recorded ==
              [s EXCEPT !.acceptance = acceptance, !.loops = loops,
                        !.status = "acceptance_evaluated", !.decision = next]
            cleared == IF loop.target = "continue" THEN recorded
                       ELSE ClearForReentry(recorded, loop.target)
            governed == loop.target # "continue" \/ ~Accepted(acceptance)
            st == IF governed THEN StrategyCheckpoint(cleared, "acceptance")
                  ELSE cleared
<1>0. Fielded(s) /\ Packed(s)
  BY DEF TypeInv, Typed
<1>1. Commit(st, next) /\ NoCalls
  BY DEF Acceptance
<1>2. vouched' \subseteq vouched \cup {"accepted"}
  OBVIOUS
<1>3. acceptance \in Acceptances
  <2>1. s.contract \in Maybe(SUBSET ObligationKinds) /\ s.contract # None
    BY <1>0, PlanFields, FieldNames DEF Fielded, Acceptance, At, Ready, Required
  <2>. QED  BY <2>1, AcceptanceTyped DEF Maybe
<1>4. loop \in L!LoopDecisions
  <2>1. s.verification \in Maybe(Verdicts)
    BY <1>0, LastFields, FieldNames DEF Fielded
  <2>. QED  BY <1>0, <2>1, LoopTyped, TriggerTyped
<1>5. lifecycle.next \in Stages
  BY DEF Transition, AfterAcceptance, Decision, Stages
<1>. HIDE DEF acceptance, lifecycle, loop
<1>6. next \in Stages
  BY <1>4, <1>5
     DEF NextAfterAcceptance, L!LoopDecisions, L!Targets, L!ReentryStages,
         Stages
<1>7. loops \in Seq(L!LoopDecisions)
  <2>1. s.loops \in Seq(L!LoopDecisions)
    BY <1>0, LastFields, FieldNames DEF Fielded
  <2>. HIDE DEF L!LoopDecisions
  <2>. QED  BY <1>4, <2>1
<1>. HIDE DEF next, loops
<1>8. /\ acceptance \in FieldTypes.acceptance /\ loops \in FieldTypes.loops
      /\ "acceptance_evaluated" \in FieldTypes.status
      /\ next \in FieldTypes.decision
  BY <1>3, <1>6, <1>7, FirstFields, LastFields, StatusNames, DecisionsTyped
     DEF Maybe, Decisions
<1>9. Fielded(recorded)
  BY <1>0, <1>8, Put
<1>10. Packed(recorded)
  BY <1>0, FieldNames, PackedAsBefore DEF Fielded
<1>. HIDE DEF recorded, governed
<1>11. Fielded(cleared) /\ Packed(cleared)
  BY <1>9, <1>10, ClearTyped
<1>. HIDE DEF cleared
<1>12. Fielded(st) /\ Packed(st)
  BY <1>11, CheckpointTyped DEF Stages
<1>13. vouched' \subseteq Checks
  BY <1>2 DEF TypeInv, Checks
<1>. HIDE DEF st
<1>. QED  BY <1>1, <1>6, <1>12, <1>13, StageTyped

LEMMA PublishTyped == ASSUME TypeInv, Publish PROVE TypeInv'
<1>1. CASE PublishAllowed(s.acceptance)
  <2>. PICK p \in PublishOutcomes :
         Commit([s EXCEPT !.publish = p, !.status = "published"],
                "post_publish_verify")
    BY <1>1 DEF Publish
  <2>. DEFINE st == [s EXCEPT !.publish = p, !.status = "published"]
  <2>1. Commit(st, "post_publish_verify")
    OBVIOUS
  <2>2. p \in FieldTypes.publish /\ "published" \in FieldTypes.status
    BY FirstFields, LastFields, StatusNames DEF Maybe
  <2>3. Fielded(s) /\ Packed(s)
    BY DEF TypeInv, Typed
  <2>4. Fielded(st)
    BY <2>2, <2>3, Put
  <2>5. Packed(st)
    BY <2>3, FieldNames, PackedAsBefore DEF Fielded
  <2>. HIDE DEF st
  <2>6. Typed(s') /\ node' \in Stages /\ exit' \in Exits
    BY <2>1, <2>4, <2>5, CommitTyped DEF TypeInv, Typed, Stages
  <2>7. /\ publishes' = publishes + 1
        /\ UNCHANGED <<crashes, repairCalls, vouched>>
    BY <1>1 DEF Publish
  <2>. QED  BY <2>6, <2>7 DEF TypeInv, Typed
<1>2. CASE ~PublishAllowed(s.acceptance)
  BY <1>2 DEF Publish, TypeInv, Typed, Exits
<1>. QED  BY <1>1, <1>2

LEMMA PostPublishTyped == ASSUME TypeInv, PostPublishVerify PROVE TypeInv'
<1>. PICK engine \in PolicyEngines : PostPublishVerify!2!(engine)
  BY DEF PostPublishVerify
<1>. DEFINE p == s.publish
            lifecycle ==
              Transition(engine, "publish",
                         FactsOf(s.plan, s.execution, None, p, "absent",
                                 s.repairs))
            refresh == /\ lifecycle.next = "finalize"
                       /\ lifecycle.allowed
                       /\ s.contract # None
            acceptance == IF refresh
                          THEN EvaluateAcceptance(s.contract, s.execution,
                                                  s.verification, p)
                          ELSE s.acceptance
            next == NextAfterPublish(lifecycle.next)
            decision == lifecycle.next
            st == [s EXCEPT !.publishReview = Made, !.acceptance = acceptance,
                            !.status = "post_publish_verified",
                            !.decision = decision]
<1>0. Fielded(s) /\ Packed(s)
  BY DEF TypeInv, Typed
<1>1. Commit(st, next) /\ NoCalls /\ vouched' = vouched
  BY DEF PostPublishVerify
<1>2. acceptance \in FieldTypes.acceptance
  <2>1. /\ s.contract \in Maybe(SUBSET ObligationKinds)
        /\ s.acceptance \in FieldTypes.acceptance
    BY <1>0, PlanFields, LastFields, FieldNames DEF Fielded
  <2>2. refresh => s.contract \in SUBSET ObligationKinds
    BY <2>1 DEF Maybe
  <2>3. refresh => acceptance \in Acceptances
    BY <2>2, AcceptanceTyped
  <2>. QED  BY <2>1, <2>3, LastFields DEF Maybe
<1>3. decision \in Decisions
  BY DEF Transition, AfterPublish, Decision, Decisions, Stages
<1>4. next \in Stages
  BY DEF NextAfterPublish, Stages
<1>. HIDE DEF lifecycle, acceptance, next, decision
<1>5. /\ Made \in FieldTypes.publishReview
      /\ "post_publish_verified" \in FieldTypes.status
      /\ decision \in FieldTypes.decision
  BY <1>3, FirstFields, LastFields, StatusNames, DecisionsTyped DEF Maybe
<1>6. Fielded(st)
  BY <1>0, <1>2, <1>5, Put
<1>7. Packed(st)
  BY <1>0, FieldNames, PackedAsBefore DEF Fielded
<1>8. vouched' \subseteq Checks
  BY <1>1 DEF TypeInv
<1>. HIDE DEF st
<1>. QED  BY <1>1, <1>4, <1>6, <1>7, <1>8, StageTyped

LEMMA RepairTyped == ASSUME TypeInv, Repair PROVE TypeInv'
<1>1. CASE AttemptRefused(s)
  BY <1>1 DEF Repair, TypeInv, Typed, Exits
<1>2. CASE ~AttemptRefused(s)
  <2>. DEFINE governed == StrategyCheckpoint(s, "repair")
  <2>. PICK x \in Outcomes :
         Commit([governed EXCEPT
                   !.execution = x, !.repairs = @ + 1,
                   !.packets = SetStatus(@, s.active, PacketStatus(x)),
                   !.publish = None, !.publishReview = None,
                   !.verification = None, !.acceptance = None,
                   !.status = "repaired", !.decision = "review"],
                "review")
    BY <1>2 DEF Repair
  <2>. DEFINE repairs == governed.repairs + 1
              packets == SetStatus(governed.packets, s.active, PacketStatus(x))
              st == [governed EXCEPT
                       !.execution = x, !.repairs = repairs, !.packets = packets,
                       !.publish = None, !.publishReview = None,
                       !.verification = None, !.acceptance = None,
                       !.status = "repaired", !.decision = "review"]
  <2>1. Commit(st, "review")
    OBVIOUS
  <2>2. Fielded(s) /\ Packed(s) /\ s.plan # None
    BY DEF TypeInv, Typed, Repair, At, Ready, Required
  <2>3. Fielded(governed) /\ Packed(governed) /\ governed.plan # None
    <3>1. governed.plan = s.plan
      BY <2>2, FieldNames DEF StrategyCheckpoint, Fielded
    <3>. QED  BY <2>2, <3>1, CheckpointTyped DEF Stages
  <2>. HIDE DEF governed
  <2>4. packets \in Seq(Packets)
    BY <2>3, SetStatusTyped DEF Packed, PacketStatus, PacketStatuses
  <2>5. repairs \in Nat
    BY <2>3, LastFields, FieldNames DEF Fielded
  <2>. HIDE DEF packets, repairs
  <2>6. /\ x \in FieldTypes.execution /\ repairs \in FieldTypes.repairs
        /\ packets \in FieldTypes.packets /\ None \in FieldTypes.publish
        /\ None \in FieldTypes.publishReview /\ None \in FieldTypes.verification
        /\ None \in FieldTypes.acceptance /\ "repaired" \in FieldTypes.status
        /\ "review" \in FieldTypes.decision
    BY <2>4, <2>5, FirstFields, PlanFields, LastFields, StatusNames,
       DecisionsTyped DEF Maybe, Decisions, Stages
  <2>7. Fielded(st)
    BY <2>3, <2>6, Put
  <2>8. Packed(st)
    BY <2>3, <2>4, FieldNames DEF Fielded, Packed
  <2>. HIDE DEF st
  <2>9. Typed(s') /\ node' \in Stages /\ exit' \in Exits
    BY <2>1, <2>7, <2>8, CommitTyped DEF TypeInv, Typed, Stages
  <2>10. /\ repairCalls' = repairCalls + 1 /\ vouched' = {}
         /\ UNCHANGED <<crashes, publishes>>
    BY <1>2 DEF Repair
  <2>. QED  BY <2>9, <2>10 DEF TypeInv, Typed
<1>. QED  BY <1>1, <1>2

LEMMA ReportTyped ==
  ASSUME NEW st, Fielded(st) PROVE ReportStatus(st) \in ReportStatuses
<1>1. /\ st.acceptance \in Maybe(Acceptances)
      /\ st.progression \in Maybe(Progressions)
  BY PlanFields, LastFields, FieldNames DEF Fielded
<1>2. st.acceptance # None => st.acceptance.final \in ReportStatuses
  BY <1>1 DEF Maybe, Acceptances, ReportStatuses
<1>3. st.progression # None => st.progression.hint \in ReportStatuses
  BY <1>1 DEF Maybe, Progressions, ReportStatuses
<1>4. CompletionStatus(st.verification) \in ReportStatuses
  BY DEF CompletionStatus, ReportStatuses
<1>5. UnfinishedStatus(st.packets, st.execution) \in ReportStatuses
  BY DEF UnfinishedStatus, ReportStatuses
<1>. QED  BY <1>2, <1>3, <1>4, <1>5 DEF ReportStatus, ReportStatuses

LEMMA FinalizeTyped == ASSUME TypeInv, Finalize PROVE TypeInv'
<1>. DEFINE report == ReportStatus(s)
            st == [s EXCEPT !.report = report, !.status = "reported"]
<1>0. Fielded(s) /\ Packed(s)
  BY DEF TypeInv, Typed
<1>1. report \in FieldTypes.report /\ "reported" \in FieldTypes.status
  BY <1>0, ReportTyped, FirstFields, LastFields, StatusNames DEF Maybe
<1>2. s' = st
  BY DEF Finalize
<1>. HIDE DEF report
<1>3. Fielded(st)
  BY <1>0, <1>1, Put
<1>4. Packed(st)
  BY <1>0, FieldNames, PackedAsBefore DEF Fielded
<1>5. Fielded(s') /\ Packed(s')
  BY <1>2, <1>3, <1>4
<1>6. exit' = "report" /\ NoCalls /\ UNCHANGED <<node, vouched>>
  BY DEF Finalize
<1>. QED  BY <1>5, <1>6 DEF TypeInv, Typed, NoCalls, Exits

LEMMA CrashesTyped ==
  ASSUME TypeInv, NotReady \/ CrashBeforeCall \/ CrashAfterCall \/ Resume
  PROVE  TypeInv'
<1>. USE DEF TypeInv, Exits
<1>1. CASE NotReady
  BY <1>1 DEF NotReady
<1>2. CASE CrashBeforeCall
  BY <1>2 DEF CrashBeforeCall
<1>3. CASE CrashAfterCall
  BY <1>3 DEF CrashAfterCall
<1>4. CASE Resume
  BY <1>4 DEF Resume, Dispatch, Stages
<1>. QED  BY <1>1, <1>2, <1>3, <1>4

LEMMA InitialTyped == Typed(InitialState)
<1>1. /\ DOMAIN InitialState = DOMAIN FieldTypes
      /\ InitialState = [f \in DOMAIN InitialState |-> InitialState[f]]
  BY FieldNames DEF InitialState
<1>2. \A f \in DOMAIN FieldTypes \ {"status", "active", "strategy", "repairs",
                                    "retries", "loops"} :
        InitialState[f] = None /\ None \in FieldTypes[f]
  BY FieldNames, FirstFields, PlanFields, LastFields DEF InitialState, Maybe
<1>3. /\ InitialState.status \in FieldTypes.status
      /\ InitialState.active \in FieldTypes.active
      /\ InitialState.strategy \in FieldTypes.strategy
      /\ InitialState.repairs \in FieldTypes.repairs
      /\ InitialState.retries \in FieldTypes.retries
      /\ InitialState.loops \in FieldTypes.loops
  BY FirstFields, PlanFields, LastFields, StatusNames
     DEF InitialState, Strategies, NoPacket
<1>4. InitialState.plan = None
  BY DEF InitialState
<1>. QED  BY <1>1, <1>2, <1>3, <1>4 DEF Typed, Fielded, Packed

LEMMA TypeInvKept == TypeInv /\ [Next]_vars => TypeInv'
<1>. SUFFICES ASSUME TypeInv, [Next]_vars PROVE TypeInv'
  OBVIOUS
<1>1. CASE UNCHANGED vars
  BY <1>1 DEF vars, TypeInv, Typed
<1>2. CASE Next
  BY <1>2, FillingTyped, PlanTyped, ExecuteTyped, ReviewTyped, QaExecuteTyped,
     QaReviewTyped, AcceptanceStageTyped, PublishTyped, PostPublishTyped,
     RepairTyped, FinalizeTyped, CrashesTyped
     DEF Next, Stage
<1>. QED  BY <1>1, <1>2

LEMMA TypeInvHolds == Spec => []TypeInv
<1>1. Init => TypeInv
  BY InitialTyped DEF Init, TypeInv, Stages, Exits, Checks
<1>. QED  BY <1>1, TypeInvKept, PTL DEF Spec

(* The state keeps its type, whatever is answered, cut off and resumed.      *)
THEOREM TypesKept == Spec => []TypeOK
BY TypeInvHolds, TypeInvTypes, PTL

-----------------------------------------------------------------------------
(* The first life of a run: until it is resumed from a crash, its gates.     *)
(*                                                                           *)
(* Known(stage) is what the stages before have filled in when a stage is     *)
(* reached.  It is more than the stage requires: what the stages behind it   *)
(* require must be there as well.                                            *)
Known(stage) ==
  LET routed == {"classification", "route"}
      built == routed \cup {"context", "obligations", "done"}
      planned == built \cup {"plan", "contract", "packets"}
      executed == planned \cup {"policy", "workspace", "execution"}
      tested == executed \cup {"qaPlan", "qaReport"}
  IN  IF stage \in {"intake", "classify", "finalize"} THEN {}
      ELSE IF stage = "route" THEN {"classification"}
      ELSE IF stage \in {"research", "observe", "build_context"} THEN routed
      ELSE IF stage = "obligations" THEN routed \cup {"context"}
      ELSE IF stage = "done_contract" THEN built \ {"done"}
      ELSE IF stage = "plan" THEN built
      ELSE IF stage = "policy" THEN planned
      ELSE IF stage \in {"approval", "workspace_prepare"}
        THEN planned \cup {"policy"}
      ELSE IF stage = "execute" THEN planned \cup {"policy", "workspace"}
      ELSE IF stage \in {"review", "repair", "qa_plan"} THEN executed
      ELSE IF stage = "qa_execute" THEN executed \cup {"qaPlan"}
      ELSE IF stage = "qa_review" THEN tested
      ELSE IF stage = "acceptance" THEN tested \cup {"verification"}
      ELSE IF stage = "publish"
        THEN tested \cup {"verification", "acceptance"}
      ELSE tested \cup {"verification", "acceptance", "publish"}

Tested == {"qa_review", "acceptance", "publish", "post_publish_verify"}
Reviewed == {"qa_plan", "qa_execute"} \cup Tested
Working == {"workspace_prepare", "execute", "review", "repair"} \cup Reviewed

(* The policy has let the plan through, on the evidence its route demands.   *)
Permitted(st, stage) ==
  /\ stage = "approval" => st.policy = "approval"
  /\ stage \in Working => \/ st.policy = "allowed"
                          \/ st.policy = "approval" /\ st.approval = TRUE
  /\ stage \in Working \cup {"approval"} =>
       /\ st.route.fresh => st.research = "ok"
       /\ st.plan.world => st.observation = "ok"

Unspoilt(st) == st.execution.git = {} /\ ~RepairableFailure(st.execution)

(* The verification of this revision passed, or was excused.                 *)
Answered(checks) == {"verified", "excused"} \cap checks # {}

(* The tests the plan asks for passed in an environment that lacks nothing.  *)
Proved(st) ==
  st.plan.tests => /\ ChecksPassed(st.execution, st.verification, None)
                   /\ ~EnvironmentBlocked(st.execution, st.verification)

(* What was checked of the revision when the run has come to a stage.        *)
Vouched(st, stage, checks) ==
  /\ stage \in Reviewed => Unspoilt(st) /\ "reviewed" \in checks
  /\ stage \in Tested => "tested" \in checks
  /\ stage = "acceptance" =>
       /\ TriggerOf(st, st.verification) = "none"
       /\ \/ "verified" \in checks
          \/ /\ "excused" \in checks
             /\ (st.verification.gap = "setup" \/ st.qaReport = "blocked")
  /\ stage \in {"publish", "post_publish_verify"} =>
       /\ Answered(checks) /\ "accepted" \in checks
       /\ Proved(st)
  /\ stage = "publish" =>
       /\ \/ "verified" \in checks
          \/ "excused" \in checks /\ st.qaReport = "blocked"
       /\ st.plan.publish
       /\ ~EnvironmentBlocked(st.execution, st.verification)
       /\ ExecutionSucceeded(st.execution)
       /\ PublishAllowed(st.acceptance)

(* What the obligations of a plan that changes the repository come to when   *)
(* none of them is unmet.                                                    *)
Met(st) ==
  st.plan.mutates =>
    /\ st.execution.mutated
    /\ Proved(st)
    /\ st.plan.publish => \/ st.verification.published = "claimed"
                          \/ st.publish # None /\ st.publish.ok

(* An acceptance is in the state only behind the gate, and if it says        *)
(* completed, it misses nothing and its revision was checked.                *)
Judged(st, stage, checks) ==
  IF stage \in {"publish", "post_publish_verify", "finalize"}
  THEN (st.acceptance # None /\ st.acceptance.final = "completed") =>
         /\ Accepted(st.acceptance)
         /\ Met(st)
         /\ stage = "finalize" =>
              /\ Unspoilt(st)
              /\ {"reviewed", "tested", "accepted"} \subseteq checks
              /\ Answered(checks)
  ELSE stage # "repair" => st.acceptance = None

(* A plan comes with its own contract, and a publication is in the state     *)
(* only until something is repaired.                                         *)
Planned(st, stage) ==
  /\ "plan" \in Known(stage) => st.contract = Contract(st.plan)
  /\ stage \notin {"post_publish_verify", "repair", "finalize"} =>
       st.publish = None

Gated(st, stage, checks) ==
  /\ \A f \in Known(stage) : st[f] # None
  /\ Permitted(st, stage)
  /\ Planned(st, stage)
  /\ Vouched(st, stage, checks)
  /\ Judged(st, stage, checks)

GateInv ==
  crashes = 0 =>
    /\ exit = "running" => Gated(s, node, vouched)
    /\ IF exit = "report" THEN CompletedIsEarned ELSE s.report = None
    /\ GatesNeverRaise

(* A stage that is reached has what it requires.                             *)
LEMMA RequiredIsKnown ==
  ASSUME NEW stage \in Stages PROVE Required(stage) \subseteq Known(stage)
BY DEF Stages, Required, Known

(* A commit passes on what it may.                                           *)
LEMMA GatedCommit ==
  ASSUME GateInv, crashes = 0, exit = "running", crashes' = crashes,
         NEW st, NEW next, Valid(st), st.report = s.report,
         Gated(st, next, vouched'), Commit(st, next)
  PROVE  GateInv'
<1>1. s' = st /\ node' = next /\ exit' = "running"
  BY DEF Commit
<1>2. s.report = None
  BY DEF GateInv
<1>. QED  BY <1>1, <1>2 DEF GateInv, GatesNeverRaise

SameBut(st, changed) == \A f \in DOMAIN FieldTypes \ changed : st[f] = s[f]

LEMMA FillGated ==
  ASSUME GateInv, crashes = 0, NEW stage, NEW st, NEW next,
         Fill(stage, st, next), st.report = s.report,
         Valid(st), Gated(st, next, vouched)
  PROVE  GateInv'
BY GatedCommit DEF Fill, At, NoCalls

LEMMA FillingGated ==
  ASSUME TypeInv, GateInv, crashes = 0,
         \/ Intake \/ Classify \/ Route \/ Research \/ Observe \/ BuildContext
         \/ Obligations \/ DoneContract \/ Policy \/ Approval
         \/ WorkspacePrepare \/ QaPlan
  PROVE  GateInv'
<1>0. Fielded(s) /\ Made # None
  BY NoneAssumption DEF TypeInv, Typed
<1>1. ASSUME Intake PROVE GateInv'
  <2>. DEFINE st == [s EXCEPT !.intake = Made, !.status = "intake_completed"]
  <2>1. SameBut(st, {"intake", "status"})
    BY <1>0, FieldNames DEF SameBut, Fielded
  <2>2. st.intake = Made /\ st.status = "intake_completed"
    BY <1>0, FieldNames DEF Fielded
  <2>3. Gated(s, "intake", vouched) /\ Fill("intake", st, "classify")
    BY <1>1 DEF Intake, Fill, At, GateInv
  <2>. HIDE DEF st
  <2>5. Valid(st)
    BY <1>0, <2>2 DEF Valid, StatusRequires, StatusFields
  <2>6. Gated(st, "classify", vouched)
    BY <1>0, <2>1, <2>2, <2>3, FieldNames
       DEF SameBut, Gated, Known, Permitted, Planned, Vouched, Judged,
           Working, Reviewed,
           Tested
  <2>. QED  BY <2>1, <2>3, <2>5, <2>6, FillGated, FieldNames DEF SameBut
<1>2. ASSUME Classify PROVE GateInv'
  <2>. DEFINE st == [s EXCEPT !.classification = Made, !.status = "classified"]
  <2>1. SameBut(st, {"classification", "status"})
    BY <1>0, FieldNames DEF SameBut, Fielded
  <2>2. st.classification = Made /\ st.status = "classified"
    BY <1>0, FieldNames DEF Fielded
  <2>3. Gated(s, "classify", vouched) /\ Fill("classify", st, "route")
    BY <1>2 DEF Classify, Fill, At, GateInv
  <2>. HIDE DEF st
  <2>5. Valid(st)
    BY <1>0, <2>2 DEF Valid, StatusRequires, StatusFields
  <2>6. Gated(st, "route", vouched)
    BY <1>0, <2>1, <2>2, <2>3, FieldNames
       DEF SameBut, Gated, Known, Permitted, Planned, Vouched, Judged,
           Working, Reviewed,
           Tested
  <2>. QED  BY <2>1, <2>3, <2>5, <2>6, FillGated, FieldNames DEF SameBut
<1>3. ASSUME Route PROVE GateInv'
  <2>. PICK route \in Routes : Route!(route)
    BY <1>3 DEF Route
  <2>. DEFINE st == [s EXCEPT !.route = route, !.status = "routed",
                              !.decision = NextAfterRoute(route)]
  <2>1. SameBut(st, {"route", "status", "decision"})
    BY <1>0, FieldNames DEF SameBut, Fielded
  <2>2. st.route = route /\ st.status = "routed"
    BY <1>0, FieldNames DEF Fielded
  <2>3. Gated(s, "route", vouched) /\ Fill("route", st, NextAfterRoute(route))
    BY DEF Fill, At, GateInv
  <2>. HIDE DEF st
  <2>4. route # None
    BY NoneAssumption
  <2>5. Valid(st)
    BY <1>0, <2>2, <2>4, <2>1, <2>3, FieldNames
       DEF Valid, StatusRequires, StatusFields, SameBut, Gated, Known
  <2>6. Gated(st, NextAfterRoute(route), vouched)
    BY <1>0, <2>1, <2>2, <2>3, <2>4, FieldNames
       DEF SameBut, Gated, Known, Permitted, Planned, Vouched, Judged,
           Working, Reviewed,
           Tested, NextAfterRoute
  <2>. QED  BY <2>1, <2>3, <2>5, <2>6, FillGated, FieldNames DEF SameBut
<1>4. ASSUME Research PROVE GateInv'
  <2>. PICK result \in Gathered : Research!(result)
    BY <1>4 DEF Research
  <2>. DEFINE st == [s EXCEPT !.research = result, !.status = "researched",
                              !.decision = NextAfterResearch(s.route)]
  <2>1. SameBut(st, {"research", "status", "decision"})
    BY <1>0, FieldNames DEF SameBut, Fielded
  <2>2. st.research = result /\ st.status = "researched"
    BY <1>0, FieldNames DEF Fielded
  <2>3. /\ Gated(s, "research", vouched)
        /\ Fill("research", st, ResearchNext(result, s))
    BY DEF Fill, At, GateInv
  <2>. HIDE DEF st
  <2>4. result # None
    BY WorkflowAssumption, NoneAssumption
  <2>5. Valid(st)
    BY <1>0, <2>2, <2>4 DEF Valid, StatusRequires, StatusFields
  <2>6. Gated(st, ResearchNext(result, s), vouched)
    BY <1>0, <2>1, <2>2, <2>3, <2>4, FieldNames
       DEF SameBut, Gated, Known, Permitted, Planned, Vouched, Judged,
           Working, Reviewed,
           Tested,
           ResearchNext, NextAfterResearch
  <2>. QED  BY <2>1, <2>3, <2>5, <2>6, FillGated, FieldNames DEF SameBut
<1>5. ASSUME Observe PROVE GateInv'
  <2>. PICK result \in Gathered : Observe!(result)
    BY <1>5 DEF Observe
  <2>. DEFINE st == [s EXCEPT !.observation = result, !.status = "observed"]
  <2>1. SameBut(st, {"observation", "status"})
    BY <1>0, FieldNames DEF SameBut, Fielded
  <2>2. st.observation = result /\ st.status = "observed"
    BY <1>0, FieldNames DEF Fielded
  <2>3. /\ Gated(s, "observe", vouched)
        /\ Fill("observe", st, ObserveNext(result, s))
    BY DEF Fill, At, GateInv
  <2>. HIDE DEF st
  <2>4. result # None
    BY WorkflowAssumption, NoneAssumption
  <2>5. Valid(st)
    BY <1>0, <2>2, <2>4 DEF Valid, StatusRequires, StatusFields
  <2>6. Gated(st, ObserveNext(result, s), vouched)
    BY <1>0, <2>1, <2>2, <2>3, <2>4, FieldNames
       DEF SameBut, Gated, Known, Permitted, Planned, Vouched, Judged,
           Working, Reviewed,
           Tested, ObserveNext
  <2>. QED  BY <2>1, <2>3, <2>5, <2>6, FillGated, FieldNames DEF SameBut
<1>6. ASSUME BuildContext PROVE GateInv'
  <2>. DEFINE st == [s EXCEPT !.context = Made, !.status = "context_built"]
  <2>1. SameBut(st, {"context", "status"})
    BY <1>0, FieldNames DEF SameBut, Fielded
  <2>2. st.context = Made /\ st.status = "context_built"
    BY <1>0, FieldNames DEF Fielded
  <2>3. /\ Gated(s, "build_context", vouched)
        /\ Fill("build_context", st, "obligations")
    BY <1>6 DEF BuildContext, Fill, At, GateInv
  <2>. HIDE DEF st
  <2>5. Valid(st)
    BY <1>0, <2>2 DEF Valid, StatusRequires, StatusFields
  <2>6. Gated(st, "obligations", vouched)
    BY <1>0, <2>1, <2>2, <2>3, FieldNames
       DEF SameBut, Gated, Known, Permitted, Planned, Vouched, Judged,
           Working, Reviewed,
           Tested
  <2>. QED  BY <2>1, <2>3, <2>5, <2>6, FillGated, FieldNames DEF SameBut
<1>7. ASSUME Obligations PROVE GateInv'
  <2>. PICK impact \in Impacts : Obligations!(impact)
    BY <1>7 DEF Obligations
  <2>. DEFINE st == [s EXCEPT !.obligations = impact,
                              !.status = "obligations_synthesized"]
  <2>1. SameBut(st, {"obligations", "status"})
    BY <1>0, FieldNames DEF SameBut, Fielded
  <2>2. st.obligations = impact /\ st.status = "obligations_synthesized"
    BY <1>0, FieldNames DEF Fielded
  <2>3. /\ Gated(s, "obligations", vouched)
        /\ Fill("obligations", st, "done_contract")
    BY DEF Fill, At, GateInv
  <2>. HIDE DEF st
  <2>4. impact # None
    BY WorkflowAssumption, NoneAssumption
  <2>5. Valid(st)
    BY <1>0, <2>2, <2>4 DEF Valid, StatusRequires, StatusFields
  <2>6. Gated(st, "done_contract", vouched)
    BY <1>0, <2>1, <2>2, <2>3, <2>4, FieldNames
       DEF SameBut, Gated, Known, Permitted, Planned, Vouched, Judged,
           Working, Reviewed,
           Tested
  <2>. QED  BY <2>1, <2>3, <2>5, <2>6, FillGated, FieldNames DEF SameBut
<1>8. ASSUME DoneContract PROVE GateInv'
  <2>. DEFINE st == [s EXCEPT !.done = Made, !.status = "done_contract_built"]
  <2>1. SameBut(st, {"done", "status"})
    BY <1>0, FieldNames DEF SameBut, Fielded
  <2>2. st.done = Made /\ st.status = "done_contract_built"
    BY <1>0, FieldNames DEF Fielded
  <2>3. Gated(s, "done_contract", vouched) /\ Fill("done_contract", st, "plan")
    BY <1>8 DEF DoneContract, Fill, At, GateInv
  <2>. HIDE DEF st
  <2>5. Valid(st)
    BY <1>0, <2>2 DEF Valid, StatusRequires, StatusFields
  <2>6. Gated(st, "plan", vouched)
    BY <1>0, <2>1, <2>2, <2>3, FieldNames
       DEF SameBut, Gated, Known, Permitted, Planned, Vouched, Judged,
           Working, Reviewed,
           Tested
  <2>. QED  BY <2>1, <2>3, <2>5, <2>6, FillGated, FieldNames DEF SameBut
<1>10. ASSUME Approval PROVE GateInv'
  <2>. PICK approved \in Approvals : Approval!(approved)
    BY <1>10 DEF Approval
  <2>. DEFINE st == [s EXCEPT !.approval = approved,
                              !.status = "approval_resolved",
                              !.decision = NextAfterApproval(approved)]
  <2>1. SameBut(st, {"approval", "status", "decision"})
    BY <1>0, FieldNames DEF SameBut, Fielded
  <2>2. st.approval = approved /\ st.status = "approval_resolved"
    BY <1>0, FieldNames DEF Fielded
  <2>3. /\ Gated(s, "approval", vouched)
        /\ Fill("approval", st, NextAfterApproval(approved))
    BY DEF Fill, At, GateInv
  <2>. HIDE DEF st
  <2>4. approved \in BOOLEAN /\ approved # None
    BY WorkflowAssumption, NoneAssumption
  <2>5. Valid(st)
    BY <1>0, <2>2, <2>4, <2>1, <2>3, FieldNames
       DEF Valid, StatusRequires, StatusFields, SameBut, Gated, Known
  <2>6. Gated(st, NextAfterApproval(approved), vouched)
    BY <1>0, <2>1, <2>2, <2>3, <2>4, FieldNames
       DEF SameBut, Gated, Known, Permitted, Planned, Vouched, Judged,
           Working, Reviewed,
           Tested, NextAfterApproval
  <2>. QED  BY <2>1, <2>3, <2>5, <2>6, FillGated, FieldNames DEF SameBut
<1>11. ASSUME WorkspacePrepare PROVE GateInv'
  <2>. DEFINE st == [s EXCEPT !.workspace = Made,
                              !.status = "workspace_prepared",
                              !.decision = "execute"]
  <2>1. SameBut(st, {"workspace", "status", "decision"})
    BY <1>0, FieldNames DEF SameBut, Fielded
  <2>2. st.workspace = Made /\ st.status = "workspace_prepared"
    BY <1>0, FieldNames DEF Fielded
  <2>3. /\ Gated(s, "workspace_prepare", vouched)
        /\ Fill("workspace_prepare", st, "execute")
    BY <1>11 DEF WorkspacePrepare, Fill, At, GateInv
  <2>. HIDE DEF st
  <2>5. Valid(st)
    BY <1>0, <2>2 DEF Valid, StatusRequires, StatusFields
  <2>6. Gated(st, "execute", vouched)
    BY <1>0, <2>1, <2>2, <2>3, FieldNames
       DEF SameBut, Gated, Known, Permitted, Planned, Vouched, Judged,
           Working, Reviewed,
           Tested
  <2>. QED  BY <2>1, <2>3, <2>5, <2>6, FillGated, FieldNames DEF SameBut
<1>12. ASSUME QaPlan PROVE GateInv'
  <2>. DEFINE st == [s EXCEPT !.qaPlan = Made, !.status = "qa_planned"]
  <2>1. SameBut(st, {"qaPlan", "status"})
    BY <1>0, FieldNames DEF SameBut, Fielded
  <2>2. st.qaPlan = Made /\ st.status = "qa_planned"
    BY <1>0, FieldNames DEF Fielded
  <2>3. Gated(s, "qa_plan", vouched) /\ Fill("qa_plan", st, "qa_execute")
    BY <1>12 DEF QaPlan, Fill, At, GateInv
  <2>. HIDE DEF st
  <2>5. Valid(st)
    BY <1>0, <2>2 DEF Valid, StatusRequires, StatusFields
  <2>6. Gated(st, "qa_execute", vouched)
    <3>1. \A f \in Known("qa_execute") : st[f] # None
      BY <1>0, <2>1, <2>2, <2>3, FieldNames DEF SameBut, Gated, Known
    <3>2. Permitted(st, "qa_execute")
      BY <1>0, <2>1, <2>2, <2>3, FieldNames
         DEF SameBut, Gated, Permitted, Working, Reviewed, Tested
    <3>3. /\ Vouched(st, "qa_execute", vouched)
          /\ Judged(st, "qa_execute", vouched)
      BY <1>0, <2>1, <2>2, <2>3, FieldNames
         DEF SameBut, Gated, Vouched, Judged, Unspoilt, Reviewed, Tested
    <3>4. Planned(st, "qa_execute")
      BY <2>1, <2>3, FieldNames DEF SameBut, Gated, Planned, Known
    <3>. QED  BY <3>1, <3>2, <3>3, <3>4 DEF Gated
  <2>. QED  BY <2>1, <2>3, <2>5, <2>6, FillGated, FieldNames DEF SameBut
<1>9. ASSUME Policy PROVE GateInv'
  <2>. PICK answer \in PolicyVerdicts : Policy!(answer)
    BY <1>9 DEF Policy
  <2>. DEFINE verdict == IF EvidenceMissing(s.plan, s) THEN "blocked" ELSE answer
              st == [s EXCEPT !.policy = verdict, !.status = "policy_checked",
                              !.decision = NextAfterPolicy(verdict)]
  <2>1. SameBut(st, {"policy", "status", "decision"})
    BY <1>0, FieldNames DEF SameBut, Fielded
  <2>2. st.policy = verdict /\ st.status = "policy_checked"
    BY <1>0, FieldNames DEF Fielded
  <2>3. /\ Gated(s, "policy", vouched)
        /\ Fill("policy", st, NextAfterPolicy(verdict))
    BY DEF Fill, At, GateInv
  <2>4. /\ verdict \in {"blocked", "approval", "allowed"} /\ verdict # None
        /\ verdict # "blocked" => ~EvidenceMissing(s.plan, s)
    BY WorkflowAssumption, NoneAssumption DEF PolicyResults
  <2>. HIDE DEF verdict, st
  <2>5. Valid(st)
    BY <1>0, <2>1, <2>2, <2>3, <2>4, FieldNames
       DEF Valid, StatusRequires, StatusFields, Gated, Known, SameBut
  <2>6. Gated(st, NextAfterPolicy(verdict), vouched)
    BY <1>0, <2>1, <2>2, <2>3, <2>4, FieldNames
       DEF SameBut, Gated, Known, Permitted, Planned, Vouched, Judged,
           Working, Reviewed,
           Tested, NextAfterPolicy, EvidenceMissing
  <2>. QED  BY <2>1, <2>3, <2>5, <2>6, FillGated, FieldNames DEF SameBut
<1>. QED
  BY <1>1, <1>2, <1>3, <1>4, <1>5, <1>6, <1>7, <1>8, <1>9, <1>10, <1>11, <1>12

LEMMA PlanGated == ASSUME TypeInv, GateInv, crashes = 0, Plan PROVE GateInv'
<1>. PICK plan \in Plans, chain \in PacketChains : Plan!(plan, chain)
  BY DEF Plan
<1>. DEFINE governed == StrategyCheckpoint(s, "plan")
            packets == FreshPackets(IF governed.strategy = "repair_only"
                                    THEN <<"repair">> ELSE chain)
            active == Select(packets, governed.strategy).id
            st == [governed EXCEPT !.plan = plan, !.contract = Contract(plan),
                                   !.packets = packets, !.active = active,
                                   !.status = "planned"]
<1>0. Fielded(s)
  BY DEF TypeInv, Typed
<1>1. Fill("plan", st, "policy") /\ Gated(s, "plan", vouched)
  BY DEF Fill, At, GateInv
<1>2. packets # None
  <2>1. <<"repair">> \in Seq(PacketTypes) /\ chain \in Seq(PacketTypes)
    BY WorkflowAssumption DEF PacketTypes
  <2>2. packets \in Seq(Packets)
    BY <2>1, FreshTyped
  <2>. QED  BY <2>2, NoneAssumption
<1>3. plan # None /\ Contract(plan) # None
  BY WorkflowAssumption, NoneAssumption, ContractTyped
<1>. HIDE DEF packets, active
<1>4. SameBut(st, {"strategy", "decision", "plan", "contract", "packets",
                   "active", "status"})
  BY <1>0, FieldNames DEF SameBut, Fielded, StrategyCheckpoint
<1>5. /\ st.plan = plan /\ st.contract = Contract(plan) /\ st.packets = packets
      /\ st.status = "planned"
  BY <1>0, FieldNames DEF Fielded, StrategyCheckpoint
<1>. HIDE DEF st
<1>6. Valid(st)
  BY <1>2, <1>3, <1>5 DEF Valid, StatusRequires, StatusFields
<1>7. Gated(st, "policy", vouched)
  BY <1>1, <1>2, <1>3, <1>4, <1>5, FieldNames
     DEF SameBut, Gated, Known, Permitted, Planned, Vouched, Judged,
         Working, Reviewed,
         Tested
<1>. QED  BY <1>1, <1>4, <1>6, <1>7, FillGated, FieldNames DEF SameBut

LEMMA ExecuteGated ==
  ASSUME TypeInv, GateInv, crashes = 0, Execute
  PROVE  GateInv'
<1>. PICK x \in Outcomes : Execute!2!(x)
  BY DEF Execute
<1>. DEFINE packets == IF s.packets = None THEN FreshPackets(<<"verification">>)
                       ELSE s.packets
            active == Select(packets, s.strategy).id
            status == IF active = NoPacket THEN "pending"
                      ELSE ExecutedPacketStatus(x, packets[active])
            now == SetStatus(packets, active, status)
            st == [s EXCEPT !.execution = x, !.workspace = Made,
                            !.packets = now,
                            !.active = active, !.status = "executed",
                            !.decision = "review"]
<1>0. Fielded(s) /\ Packed(s)
  BY DEF TypeInv, Typed
<1>1. /\ Commit(st, "review") /\ exit = "running" /\ crashes' = crashes
      /\ Gated(s, "execute", vouched)
  BY DEF Execute, At, NoCalls, GateInv
<1>2. now # None
  <2>1. s.plan # None /\ s.packets # None
    BY <1>1 DEF Gated, Known
  <2>2. packets \in Seq(Packets)
    BY <1>0, <2>1 DEF Packed
  <2>3. status \in PacketStatuses
    BY DEF ExecutedPacketStatus, PacketStatus, PacketStatuses
  <2>. HIDE DEF packets, active, status
  <2>4. now \in Seq(Packets)
    BY <2>2, <2>3, SetStatusTyped
  <2>. QED  BY <2>4, NoneAssumption
<1>3. x # None /\ Made # None
  BY WorkflowAssumption, NoneAssumption
<1>. HIDE DEF now, active
<1>4. SameBut(st, {"execution", "workspace", "packets", "active", "status",
                   "decision"})
  BY <1>0, FieldNames DEF SameBut, Fielded
<1>5. /\ st.execution = x /\ st.workspace = Made /\ st.packets = now
      /\ st.status = "executed"
  BY <1>0, FieldNames DEF Fielded
<1>. HIDE DEF st
<1>6. Valid(st)
  BY <1>1, <1>3, <1>4, <1>5, FieldNames
     DEF Valid, StatusRequires, StatusFields, SameBut, Gated, Known
<1>7. Gated(st, "review", vouched')
  <2>1. \A f \in Known("review") : st[f] # None
    BY <1>1, <1>2, <1>3, <1>4, <1>5, FieldNames DEF SameBut, Gated, Known
  <2>2. Permitted(st, "review")
    BY <1>1, <1>4, FieldNames
       DEF SameBut, Gated, Permitted, Working, Reviewed, Tested
  <2>3. Vouched(st, "review", vouched') /\ Judged(st, "review", vouched')
    BY <1>1, <1>4, FieldNames
       DEF SameBut, Gated, Vouched, Judged, Reviewed, Tested
  <2>4. Planned(st, "review")
    BY <1>1, <1>4, FieldNames DEF SameBut, Gated, Planned, Known
  <2>. QED  BY <2>1, <2>2, <2>3, <2>4 DEF Gated
<1>. QED  BY <1>1, <1>4, <1>6, <1>7, GatedCommit, FieldNames DEF SameBut

LEMMA QaExecuteGated ==
  ASSUME TypeInv, GateInv, crashes = 0, QaExecute PROVE GateInv'
<1>. PICK report \in QaReports :
       Commit([s EXCEPT !.qaReport = report, !.status = "qa_executed"],
              "qa_review")
  BY DEF QaExecute
<1>. DEFINE st == [s EXCEPT !.qaReport = report, !.status = "qa_executed"]
<1>0. Fielded(s) /\ report # None
  BY WorkflowAssumption, NoneAssumption DEF TypeInv, Typed
<1>1. /\ Commit(st, "qa_review") /\ exit = "running" /\ crashes' = crashes
      /\ Gated(s, "qa_execute", vouched)
      /\ vouched' = vouched \cup {"tested"}
  BY DEF QaExecute, At, NoCalls, GateInv
<1>2. SameBut(st, {"qaReport", "status"})
  BY <1>0, FieldNames DEF SameBut, Fielded
<1>3. st.qaReport = report /\ st.status = "qa_executed"
  BY <1>0, FieldNames DEF Fielded
<1>. HIDE DEF st
<1>4. Valid(st)
  BY <1>0, <1>1, <1>2, <1>3, FieldNames
     DEF Valid, StatusRequires, StatusFields, SameBut, Gated, Known
<1>5. Gated(st, "qa_review", vouched')
  <2>1. \A f \in Known("qa_review") : st[f] # None
    BY <1>0, <1>1, <1>2, <1>3, FieldNames DEF SameBut, Gated, Known
  <2>2. Permitted(st, "qa_review")
    BY <1>1, <1>2, FieldNames
       DEF SameBut, Gated, Permitted, Working, Reviewed, Tested
  <2>3. Vouched(st, "qa_review", vouched') /\ Judged(st, "qa_review", vouched')
    BY <1>1, <1>2, FieldNames
       DEF SameBut, Gated, Vouched, Judged, Unspoilt, Reviewed, Tested
  <2>4. Planned(st, "qa_review")
    BY <1>1, <1>2, FieldNames DEF SameBut, Gated, Planned, Known
  <2>. QED  BY <2>1, <2>2, <2>3, <2>4 DEF Gated
<1>. QED  BY <1>1, <1>2, <1>4, <1>5, GatedCommit, FieldNames DEF SameBut

(* A review passes only what the lifecycle machine lets leave the execution. *)
LEMMA PassedIsUnspoilt ==
  ASSUME NEW engine \in Engines, NEW plan, NEW x, x.git \in SUBSET GitActions,
         Transition(engine, "execution",
                    FactsOf(plan, x, None, None, "absent", 0)).allowed
  PROVE  x.git = {} /\ x.failure = "none"
<1>. DEFINE f == FactsOf(plan, x, None, None, "absent", 0)
<1>1. Evaluate(engine, "can_leave_execute", f).allowed
  BY DEF Transition, AfterExecution, Decision
<1>2. f.git = x.git /\ (f.stageFailed <=> x.failure # "none")
  BY DEF FactsOf
<1>. HIDE DEF f
<1>. QED  BY <1>1, <1>2 DEF Evaluate, RegoAllows, FallbackViolations, Objections, When

LEMMA ReviewGated ==
  ASSUME TypeInv, GateInv, crashes = 0, Review PROVE GateInv'
<1>. PICK engine \in PolicyEngines, missing \in DeliverablesMissing :
       Review!2!(engine, missing)
  BY DEF Review
<1>. DEFINE x == s.execution
            lifecycle ==
              Transition(engine, "execution",
                         FactsOf(s.plan, x, None, None, "absent", 0))
            kind == ReviewKind(s, x, lifecycle)
            progression ==
              IF kind = "pass" THEN Progression(s.packets, s.strategy)
              ELSE s.progression
            reviewed ==
              [s EXCEPT
                 !.review = kind,
                 !.retries = RetriesAfter(s, kind),
                 !.packets = IF kind = "agent_retry"
                             THEN SetStatus(@, s.active, "pending") ELSE @,
                 !.active = IF kind = "pass" THEN progression.next ELSE @,
                 !.progression = progression,
                 !.acceptance = IF kind = "policy_violation" /\ s.contract # None
                                THEN RefusedAcceptance(lifecycle.violations)
                                ELSE @,
                 !.status = "reviewed",
                 !.decision = ReviewDecision(kind, progression)]
            governed == kind # "pass" \/ missing \/ progression.blocked
            st == IF governed THEN StrategyCheckpoint(reviewed, "review")
                  ELSE reviewed
            next == NextAfterReview(kind, progression)
<1>0. Fielded(s) /\ Packed(s)
  BY DEF TypeInv, Typed
<1>1. /\ Commit(st, next) /\ exit = "running" /\ crashes' = crashes
      /\ Gated(s, "review", vouched)
      /\ kind = "pass" => "reviewed" \in vouched'
  BY DEF Review, At, NoCalls, GateInv
<1>2. /\ kind \in ReviewKinds /\ kind # None
      /\ kind = "pass" => lifecycle.allowed /\ ~RepairableFailure(x)
  BY NoneAssumption DEF ReviewKind, ReviewKinds
<1>3. kind = "pass" => x.git = {} /\ ~RepairableFailure(x)
  <2>1. x # None /\ s.execution \in Maybe(Outcomes)
    BY <1>0, <1>1, PlanFields, FieldNames DEF Gated, Known, Fielded
  <2>2. x.git \in SUBSET GitActions
    BY <2>1, WorkflowAssumption DEF Maybe, Executions
  <2>3. engine \in Engines
    BY WorkflowAssumption
  <2>. HIDE DEF x, kind, RepairableFailure
  <2>. QED  BY <1>2, <2>2, <2>3, PassedIsUnspoilt
<1>4. /\ SameBut(st, {"review", "retries", "packets", "active", "progression",
                      "acceptance", "status", "decision", "strategy"})
  BY <1>0, FieldNames DEF SameBut, Fielded, StrategyCheckpoint
<1>5. /\ st.review = kind /\ st.status = "reviewed"
      /\ st.packets = IF kind = "agent_retry"
                      THEN SetStatus(s.packets, s.active, "pending")
                      ELSE s.packets
      /\ st.acceptance = IF kind = "policy_violation" /\ s.contract # None
                         THEN RefusedAcceptance(lifecycle.violations)
                         ELSE s.acceptance
  BY <1>0, FieldNames DEF Fielded, StrategyCheckpoint
<1>6. st.packets # None
  <2>1. s.packets \in Seq(Packets)
    BY <1>0, <1>1 DEF Gated, Known, Packed
  <2>2. st.packets \in Seq(Packets)
    BY <1>5, <2>1, SetStatusTyped DEF PacketStatuses
  <2>. QED  BY <2>2, NoneAssumption
<1>7. \/ kind = "pass" /\ next \in {"execute", "qa_plan", "finalize"}
      \/ kind = "agent_retry" /\ next = "execute"
      \/ kind = "fail_code" /\ next = "repair"
      \/ kind = "policy_violation" /\ next = "finalize"
  BY <1>2 DEF ReviewKinds, NextAfterReview
<1>8. st.acceptance # None =>
        kind = "policy_violation" /\ st.acceptance.final # "completed"
  <2>1. s.acceptance = None
    BY <1>1 DEF Gated, Judged
  <2>2. RefusedAcceptance(lifecycle.violations).final # "completed"
    BY DEF RefusedAcceptance, RefusalStatus
  <2>. HIDE DEF lifecycle, kind, st
  <2>. QED  BY <1>5, <2>1, <2>2
<1>. HIDE DEF lifecycle, kind, next, st
<1>9. Valid(st)
  BY <1>1, <1>2, <1>4, <1>5, FieldNames
     DEF Valid, StatusRequires, StatusFields, SameBut, Gated, Known
<1>10. Gated(st, next, vouched')
  <2>1. \A f \in Known(next) : st[f] # None
    BY <1>1, <1>4, <1>6, <1>7, FieldNames DEF SameBut, Gated, Known
  <2>2. Permitted(st, next)
    BY <1>1, <1>4, <1>7, FieldNames
       DEF SameBut, Gated, Permitted, Working, Reviewed, Tested
  <2>3. Vouched(st, next, vouched')
    BY <1>1, <1>3, <1>4, <1>7, FieldNames
       DEF SameBut, Vouched, Unspoilt, Reviewed, Tested
  <2>4. Judged(st, next, vouched')
    BY <1>7, <1>8 DEF Judged
  <2>5. Planned(st, next)
    BY <1>1, <1>4, <1>7, FieldNames DEF SameBut, Gated, Planned, Known
  <2>. QED  BY <2>1, <2>2, <2>3, <2>4, <2>5 DEF Gated
<1>. QED  BY <1>1, <1>4, <1>9, <1>10, GatedCommit, FieldNames DEF SameBut

(* A re-entry forgets nothing that the stage it enters is known to have.     *)
LEMMA ClearedKnown ==
  ASSUME NEW st, DOMAIN st = DOMAIN FieldTypes,
         NEW target \in L!Targets \ {"continue"},
         NEW f \in Known(target) \cup {"status", "qaReview", "acceptance",
                                       "report"}
  PROVE  ClearForReentry(st, target)[f] = st[f]
<1>1. f \in DOMAIN st /\ f # "active"
  BY FieldNames DEF Known, L!Targets, L!ReentryStages
<1>2. f \notin ClearedFields(target)
  BY DEF Known, ClearedFields, L!Targets, L!ReentryStages
<1>. QED  BY <1>1, <1>2 DEF ClearForReentry

(* The budget is asked only about a trigger, and answers with a stage.       *)
LEMMA GoesOnWithoutTrigger ==
  ASSUME NEW prior, NEW source, NEW trigger, NEW up
  PROVE  L!Evaluate(prior, source, trigger, up).target = "continue"
           <=> trigger = "none"
<1>1. L!TargetForTrigger(trigger) # "continue"
  BY DEF L!TargetForTrigger
<1>. HIDE DEF L!TargetForTrigger, L!Exhausted
<1>. QED  BY <1>1 DEF L!Evaluate, L!LoopDecision

LEMMA QaReviewGated ==
  ASSUME TypeInv, GateInv, crashes = 0, QaReview PROVE GateInv'
<1>. PICK v \in Verdicts, engine \in PolicyEngines : QaReview!2!(v, engine)
  BY DEF QaReview
<1>. DEFINE kind == QaStatus(s.execution, v, s.qaReport)
            loop == QaLoopDecision(s, v, kind, engine # "unavailable")
            next == NextAfterQa(kind, loop)
            recorded ==
              [s EXCEPT !.verification = v, !.qaReview = kind,
                        !.loops = Append(@, loop), !.status = "qa_reviewed",
                        !.decision = next]
            cleared == IF loop.target = "continue" THEN recorded
                       ELSE ClearForReentry(recorded, loop.target)
            governed == kind # "pass" \/ v.gap = "evidence" \/ v.checks = "failed"
            st == IF governed THEN StrategyCheckpoint(cleared, "qa_review")
                  ELSE cleared
<1>0. Fielded(s) /\ Packed(s)
  BY DEF TypeInv, Typed
<1>1. /\ Commit(st, next) /\ exit = "running" /\ crashes' = crashes
      /\ Gated(s, "qa_review", vouched)
      /\ vouched' = VerifiedBy(vouched, kind)
  BY DEF QaReview, At, NoCalls, GateInv
<1>2. /\ kind \in QaKinds /\ kind # None /\ v # None
      /\ kind = "fail_env" => v.gap = "setup" \/ s.qaReport = "blocked"
  BY WorkflowAssumption, NoneAssumption DEF QaStatus, QaKinds
<1>3. loop.target \in L!Targets
  <2>1. loop \in L!LoopDecisions
    BY <1>0, LoopTyped, ContinueTyped, TriggerTyped DEF QaLoopDecision, Maybe
  <2>. QED  BY <2>1 DEF L!LoopDecisions
<1>4. /\ kind = "fail_code" => loop.target = "continue"
      /\ kind # "fail_code" =>
           (loop.target = "continue" <=> TriggerOf(s, v) = "none")
  <2>1. L!ContinueDecision("qa_review").target = "continue"
    BY DEF L!ContinueDecision, L!LoopDecision
  <2>. HIDE DEF kind
  <2>. QED  BY <2>1, GoesOnWithoutTrigger DEF QaLoopDecision
<1>. HIDE DEF kind, loop
<1>5. DOMAIN recorded = DOMAIN FieldTypes /\ DOMAIN cleared = DOMAIN FieldTypes
  BY <1>0 DEF Fielded, ClearForReentry
<1>6. \A f \in DOMAIN FieldTypes \ {"verification", "qaReview", "loops",
                                    "status", "decision"} :
        recorded[f] = s[f]
  BY <1>0, FieldNames DEF Fielded
<1>7. /\ recorded.qaReview = kind /\ recorded.status = "qa_reviewed"
      /\ recorded.verification = v
  BY <1>0, FieldNames DEF Fielded
<1>. HIDE DEF recorded
<1>8. \A f \in DOMAIN FieldTypes \ {"strategy", "decision"} :
        st[f] = cleared[f]
  BY <1>5, FieldNames DEF StrategyCheckpoint
<1>9. /\ st.status = "qa_reviewed" /\ st.qaReview = kind
      /\ st.acceptance = None /\ st.report = s.report
  <2>1. cleared.status = recorded.status /\ cleared.qaReview = recorded.qaReview
        /\ cleared.acceptance = recorded.acceptance
        /\ cleared.report = recorded.report
    BY <1>3, <1>5, ClearedKnown
  <2>2. s.acceptance = None
    BY <1>1 DEF Gated, Judged, Tested
  <2>. HIDE DEF st, cleared
  <2>. QED  BY <1>6, <1>7, <1>8, <2>1, <2>2, FieldNames
<1>. HIDE DEF st, next
<1>10. Valid(st)
  BY <1>2, <1>9 DEF Valid, StatusRequires, StatusFields
<1>11. CASE loop.target = "continue"
  <2>1. \A f \in DOMAIN FieldTypes \ {"verification", "qaReview", "loops",
                                      "status", "decision", "strategy"} :
          st[f] = s[f]
    BY <1>6, <1>8, <1>11
  <2>2. st.verification = v
    BY <1>7, <1>8, <1>11, FieldNames
  <2>3. \/ kind = "fail_code" /\ next = "repair"
        \/ kind \in {"pass", "fail_env"} /\ next = "acceptance"
        \/ kind = "fail_requirements" /\ next = "finalize"
    BY <1>2, <1>11 DEF next, NextAfterQa, QaKinds
  <2>. HIDE DEF cleared
  <2>4. \A f \in Known(next) : st[f] # None
    BY <1>1, <1>2, <2>1, <2>2, <2>3, FieldNames DEF Gated, Known
  <2>5. Permitted(st, next)
    BY <1>1, <2>1, <2>3, FieldNames
       DEF Gated, Permitted, Working, Reviewed, Tested
  <2>6. Vouched(st, next, vouched')
    <3>1. st.execution = s.execution /\ st.obligations = s.obligations
      BY <2>1, FieldNames
    <3>2. Unspoilt(s) /\ "reviewed" \in vouched /\ "tested" \in vouched
      BY <1>1 DEF Gated, Vouched, Reviewed, Tested
    <3>3. next = "acceptance" => TriggerOf(st, v) = "none"
      BY <1>4, <1>11, <2>3, <3>1 DEF TriggerOf
    <3>4. /\ kind = "pass" => "verified" \in vouched'
          /\ kind = "fail_env" => "excused" \in vouched'
          /\ "reviewed" \in vouched' /\ "tested" \in vouched'
      BY <1>1, <3>2 DEF VerifiedBy
    <3>5. st.qaReport = s.qaReport
      BY <2>1, FieldNames
    <3>. QED
      BY <1>2, <2>2, <2>3, <3>1, <3>2, <3>3, <3>4, <3>5
         DEF Vouched, Unspoilt, Reviewed, Tested
  <2>7. Judged(st, next, vouched')
    BY <1>9 DEF Judged
  <2>9. Planned(st, next)
    BY <1>1, <2>1, <2>3, FieldNames DEF Gated, Planned, Known
  <2>8. Gated(st, next, vouched')
    BY <2>4, <2>5, <2>6, <2>7, <2>9 DEF Gated
  <2>. QED  BY <1>1, <1>9, <1>10, <2>8, GatedCommit
<1>12. CASE loop.target # "continue"
  <2>1. next = loop.target
    BY <1>4, <1>12 DEF next, NextAfterQa
  <2>2. next \in L!ReentryStages \cup {"finalize"}
    BY <1>3, <1>12, <2>1 DEF L!Targets
  <2>3. \A f \in Known(next) : st[f] = s[f]
    <3>1. \A f \in Known(next) : cleared[f] = recorded[f]
      BY <1>3, <1>5, <1>12, <2>1, ClearedKnown
    <3>2. Known(next) \subseteq {"classification", "route", "context",
                                 "obligations", "done"}
      BY <2>2 DEF Known, L!ReentryStages
    <3>. HIDE DEF cleared
    <3>. QED  BY <1>6, <1>8, <3>1, <3>2, FieldNames
  <2>. HIDE DEF cleared
  <2>4. \A f \in Known(next) : st[f] # None
    BY <1>1, <2>2, <2>3 DEF Gated, Known, L!ReentryStages
  <2>5. /\ Permitted(st, next) /\ Vouched(st, next, vouched')
    BY <2>2 DEF Permitted, Vouched, Working, Reviewed, Tested, L!ReentryStages
  <2>6. Judged(st, next, vouched')
    BY <1>9 DEF Judged
  <2>8. Planned(st, next)
    <3>1. cleared.publish = None
      <4>1. "publish" \in DOMAIN recorded
        BY <1>5, FieldNames
      <4>2. "publish" \in ClearedFields(loop.target)
        BY DEF ClearedFields
      <4>. QED  BY <1>12, <4>1, <4>2 DEF cleared, ClearForReentry
    <3>2. "plan" \notin Known(next)
      BY <2>2 DEF Known, L!ReentryStages
    <3>3. st.publish = cleared.publish
      BY <1>8, FieldNames
    <3>. QED  BY <3>1, <3>2, <3>3 DEF Planned
  <2>7. Gated(st, next, vouched')
    BY <2>4, <2>5, <2>6, <2>8 DEF Gated
  <2>. QED  BY <1>1, <1>9, <1>10, <2>7, GatedCommit
<1>. QED  BY <1>11, <1>12

(* The lifecycle machine sends to publish only what the plan wants published *)
(* and the gate and the policy let through.                                  *)
LEMMA PublishWanted ==
  ASSUME NEW engine \in Engines, NEW f,
         Transition(engine, "acceptance", f).next = "publish"
  PROVE  /\ f.publishRequired
         /\ f.acceptance \in {"accepted", "only_publish_missing"}
         /\ f.executionSucceeded
         /\ ~f.envBlocked
<1>1. /\ f.publishRequired
      /\ f.acceptance \in {"accepted", "only_publish_missing"}
      /\ Evaluate(engine, "can_publish", f).allowed
  BY DEF Transition, AfterAcceptance, Decision
<1>. QED  BY <1>1 DEF Evaluate, RegoAllows, RegoCanPublish, FallbackViolations,
                      Objections, When, Engines

LEMMA CompletedIsAccepted ==
  ASSUME NEW contract, NEW x, NEW v, NEW p,
         EvaluateAcceptance(contract, x, v, p).final = "completed"
  PROVE  Accepted(EvaluateAcceptance(contract, x, v, p))
<1>. HIDE DEF ObligationStatus
<1>. QED  BY DEF EvaluateAcceptance, Accepted

(* What an acceptance says of the obligations of a plan's contract.          *)
LEMMA UnmetOf ==
  ASSUME NEW contract, NEW x, NEW v, NEW p
  PROVE  EvaluateAcceptance(contract, x, v, p).unmet
           = {o \in contract : ObligationStatus(o, x, v, p) # "passed"}
<1>. HIDE DEF ObligationStatus
<1>. QED  BY DEF EvaluateAcceptance

LEMMA TestsAreMet ==
  ASSUME NEW plan, NEW x, NEW v, NEW p, plan.tests,
         EvaluateAcceptance(Contract(plan), x, v, p).unmet \subseteq {"publish"}
  PROVE  ObligationStatus("tests_passed", x, v, p) = "passed"
<1>1. "tests_passed" \in Contract(plan)
  BY DEF Contract
<1>. HIDE DEF Contract, ObligationStatus
<1>. QED  BY <1>1, UnmetOf

LEMMA TestsPassed ==
  ASSUME NEW x, NEW v, NEW p,
         ObligationStatus("tests_passed", x, v, p) = "passed"
  PROVE  ChecksPassed(x, v, p) /\ ~EnvironmentBlocked(x, v)
<1>. HIDE DEF ChecksPassed, ChecksRan, EnvironmentBlocked
<1>. QED  BY DEF ObligationStatus

LEMMA NothingUnmet ==
  ASSUME NEW plan, NEW x, NEW v, NEW p, plan.mutates,
         Accepted(EvaluateAcceptance(Contract(plan), x, v, p))
  PROVE  /\ x.mutated
         /\ plan.publish => \/ v.published = "claimed"
                            \/ p # None /\ p.ok
<1>1. /\ "code_changed" \in Contract(plan)
      /\ plan.publish => "publish" \in Contract(plan)
  BY DEF Contract
<1>2. \A o \in Contract(plan) : ObligationStatus(o, x, v, p) = "passed"
  <2>. HIDE DEF Contract, ObligationStatus
  <2>. QED  BY UnmetOf DEF Accepted
<1>3. ObligationStatus("code_changed", x, v, p) = "passed" => x.mutated
  BY DEF ObligationStatus
<1>4. ObligationStatus("publish", x, v, p) = "passed"
        => \/ v # None /\ v.published = "claimed"
           \/ p # None /\ p.ok
  BY DEF ObligationStatus
<1>. HIDE DEF Contract, ObligationStatus
<1>. QED  BY <1>1, <1>2, <1>3, <1>4

LEMMA AcceptanceGated ==
  ASSUME TypeInv, GateInv, crashes = 0, Acceptance PROVE GateInv'
<1>. PICK engine \in PolicyEngines : Acceptance!2!(engine)
  BY DEF Acceptance
<1>. DEFINE v == s.verification
            acceptance ==
              EvaluateAcceptance(s.contract, s.execution, v, s.publish)
            facts == FactsOf(s.plan, s.execution, v, s.publish,
                             Gate(acceptance), 0)
            lifecycle == Transition(engine, "acceptance", facts)
            loop == L!Evaluate(s.loops, "acceptance", TriggerOf(s, v),
                               engine # "unavailable")
            next == NextAfterAcceptance(lifecycle, loop)
            recorded ==
              [s EXCEPT !.acceptance = acceptance, !.loops = Append(@, loop),
                        !.status = "acceptance_evaluated", !.decision = next]
            cleared == IF loop.target = "continue" THEN recorded
                       ELSE ClearForReentry(recorded, loop.target)
            governed == loop.target # "continue" \/ ~Accepted(acceptance)
            st == IF governed THEN StrategyCheckpoint(cleared, "acceptance")
                  ELSE cleared
<1>0. Fielded(s) /\ Packed(s) /\ engine \in Engines
  BY WorkflowAssumption DEF TypeInv, Typed
<1>1. /\ Commit(st, next) /\ exit = "running" /\ crashes' = crashes
      /\ Gated(s, "acceptance", vouched)
      /\ vouched' = IF Gate(acceptance) # "rejected"
                    THEN vouched \cup {"accepted"} ELSE vouched \ {"accepted"}
  BY DEF Acceptance, At, NoCalls, GateInv
<1>2. loop.target = "continue"
  <2>1. TriggerOf(s, v) = "none"
    BY <1>1 DEF Gated, Vouched
  <2>. QED  BY <2>1, GoesOnWithoutTrigger
<1>3. acceptance # None
  <2>1. /\ s.contract \in Maybe(SUBSET ObligationKinds)
        /\ s.contract # None
    BY <1>0, <1>1, PlanFields, FieldNames DEF Fielded, Gated, Known
  <2>. QED  BY <2>1, AcceptanceTyped, NoneAssumption DEF Maybe
<1>4. next = lifecycle.next /\ next \in {"publish", "finalize"}
  BY <1>2 DEF NextAfterAcceptance, Transition, AfterAcceptance, Decision
<1>5. acceptance.final = "completed" => Accepted(acceptance)
  BY CompletedIsAccepted
<1>6. next = "publish" =>
        /\ s.plan.publish
        /\ Gate(acceptance) # "rejected"
        /\ ExecutionSucceeded(s.execution)
        /\ ~EnvironmentBlocked(s.execution, v)
  <2>. HIDE DEF acceptance
  <2>1. /\ facts.publishRequired = s.plan.publish
        /\ facts.acceptance = Gate(acceptance)
        /\ facts.executionSucceeded = ExecutionSucceeded(s.execution)
        /\ facts.envBlocked = EnvironmentBlocked(s.execution, v)
    BY DEF FactsOf
  <2>. HIDE DEF facts, next
  <2>. QED  BY <1>0, <1>4, <2>1, PublishWanted
<1>11. Gate(acceptance) # "rejected" /\ s.plan.tests =>
          /\ ChecksPassed(s.execution, v, None)
          /\ ~EnvironmentBlocked(s.execution, v)
  <2>1. s.contract = Contract(s.plan) /\ s.publish = None
    BY <1>1 DEF Gated, Planned, Known
  <2>2. Gate(acceptance) # "rejected" => acceptance.unmet \subseteq {"publish"}
    BY DEF Gate, Accepted, OnlyPublishMissing
  <2>3. acceptance.unmet \subseteq {"publish"} /\ s.plan.tests =>
          ObligationStatus("tests_passed", s.execution, v, None) = "passed"
    BY <2>1, TestsAreMet
  <2>. HIDE DEF acceptance, v
  <2>. QED  BY <2>2, <2>3, TestsPassed
<1>12. Accepted(acceptance) /\ s.plan.mutates =>
          /\ s.execution.mutated
          /\ s.plan.tests => /\ ChecksPassed(s.execution, v, None)
                             /\ ~EnvironmentBlocked(s.execution, v)
          /\ s.plan.publish => v.published = "claimed"
  <2>1. s.contract = Contract(s.plan) /\ s.publish = None
    BY <1>1 DEF Gated, Planned, Known
  <2>2. Accepted(acceptance) => Gate(acceptance) # "rejected"
    BY DEF Gate
  <2>3. Accepted(acceptance) /\ s.plan.mutates =>
          /\ s.execution.mutated
          /\ s.plan.publish => v.published = "claimed"
    BY <2>1, NothingUnmet
  <2>. HIDE DEF acceptance, v
  <2>. QED  BY <1>11, <2>2, <2>3
<1>. HIDE DEF acceptance, loop, lifecycle, next
<1>7. SameBut(st, {"acceptance", "loops", "status", "decision", "strategy"})
  BY <1>0, <1>2, FieldNames DEF SameBut, Fielded, StrategyCheckpoint
<1>8. st.acceptance = acceptance /\ st.status = "acceptance_evaluated"
  BY <1>0, <1>2, FieldNames DEF Fielded, StrategyCheckpoint
<1>. HIDE DEF st
<1>9. Valid(st)
  BY <1>3, <1>8 DEF Valid, StatusRequires, StatusFields
<1>10. Gated(st, next, vouched')
  <2>1. \A f \in Known(next) : st[f] # None
    BY <1>1, <1>3, <1>4, <1>7, <1>8, FieldNames DEF SameBut, Gated, Known
  <2>2. Permitted(st, next)
    BY <1>1, <1>4, <1>7, FieldNames
       DEF SameBut, Gated, Permitted, Working, Reviewed, Tested
  <2>3. /\ Unspoilt(s) /\ "reviewed" \in vouched /\ "tested" \in vouched
        /\ \/ "verified" \in vouched
           \/ /\ "excused" \in vouched
              /\ (v.gap = "setup" \/ s.qaReport = "blocked")
    BY <1>1 DEF Gated, Vouched, Reviewed, Tested
  <2>4. /\ st.execution = s.execution /\ st.plan = s.plan
        /\ st.verification = v /\ st.publish = s.publish
        /\ st.contract = s.contract /\ st.qaReport = s.qaReport
    BY <1>7, FieldNames DEF SameBut
  <2>5. v # None /\ s.publish = None /\ s.contract = Contract(s.plan)
    BY <1>1 DEF Gated, Planned, Known
  <2>6. Gate(acceptance) # "rejected" => PublishAllowed(acceptance)
    BY DEF Gate, PublishAllowed
  <2>7. Vouched(st, next, vouched')
    <3>1. CASE next = "publish"
      <4>1. "accepted" \in vouched' /\ vouched \subseteq vouched'
        BY <1>1, <1>6, <3>1
      <4>2. \/ "verified" \in vouched'
            \/ "excused" \in vouched' /\ s.qaReport = "blocked"
        BY <1>6, <2>3, <2>5, <3>1, <4>1 DEF EnvironmentBlocked
      <4>3. Proved(s)
        BY <1>6, <1>11, <3>1 DEF Proved
      <4>. HIDE DEF v
      <4>4. Proved(st)
        BY <2>4, <4>3 DEF Proved, v
      <4>. QED
        BY <1>6, <1>8, <2>3, <2>4, <2>6, <3>1, <4>1, <4>2, <4>4
           DEF Vouched, Unspoilt, Reviewed, Tested, Answered
    <3>2. CASE next = "finalize"
      BY <3>2 DEF Vouched, Reviewed, Tested
    <3>. QED  BY <1>4, <3>1, <3>2
  <2>8. Judged(st, next, vouched')
    <3>1. Accepted(acceptance) => Gate(acceptance) # "rejected"
      BY DEF Gate
    <3>2. Accepted(acceptance) => Met(st)
      BY <1>12, <2>4, <2>5 DEF Met, Proved
    <3>3. /\ Accepted(acceptance) => "accepted" \in vouched'
          /\ "reviewed" \in vouched' /\ "tested" \in vouched'
          /\ Answered(vouched')
      BY <1>1, <2>3, <3>1 DEF Answered
    <3>4. Unspoilt(st)
      BY <2>3, <2>4 DEF Unspoilt
    <3>. HIDE DEF v
    <3>. QED
      BY <1>4, <1>5, <1>8, <3>2, <3>3, <3>4 DEF Judged
  <2>9. Planned(st, next)
    BY <1>4, <2>4, <2>5 DEF Planned, Known
  <2>. QED  BY <2>1, <2>2, <2>7, <2>8, <2>9 DEF Gated
<1>. QED  BY <1>1, <1>7, <1>9, <1>10, GatedCommit, FieldNames DEF SameBut

(* The publish node finds the gate as the acceptance stage left it.          *)
LEMMA PublishGated ==
  ASSUME TypeInv, GateInv, crashes = 0, Publish PROVE GateInv'
<1>0. Fielded(s)
  BY DEF TypeInv, Typed
<1>1. /\ Gated(s, "publish", vouched) /\ exit = "running"
      /\ PublishAllowed(s.acceptance)
  BY DEF Publish, At, GateInv, Gated, Vouched
<1>. PICK p \in PublishOutcomes :
       Commit([s EXCEPT !.publish = p, !.status = "published"],
              "post_publish_verify")
  BY <1>1 DEF Publish
<1>. DEFINE st == [s EXCEPT !.publish = p, !.status = "published"]
            next == "post_publish_verify"
<1>2. Commit(st, next) /\ crashes' = crashes /\ vouched' = vouched
  BY DEF Publish
<1>3. p # None
  BY WorkflowAssumption, NoneAssumption
<1>4. SameBut(st, {"publish", "status"})
  BY <1>0, FieldNames DEF SameBut, Fielded
<1>5. st.publish = p /\ st.status = "published"
  BY <1>0, FieldNames DEF Fielded
<1>. HIDE DEF st
<1>6. Valid(st)
  BY <1>3, <1>5 DEF Valid, StatusRequires, StatusFields
<1>7. Gated(st, next, vouched')
  <2>1. \A f \in Known(next) : st[f] # None
    BY <1>1, <1>3, <1>4, <1>5, FieldNames DEF SameBut, Gated, Known
  <2>2. Permitted(st, next)
    BY <1>1, <1>4, FieldNames
       DEF SameBut, Gated, Permitted, Working, Reviewed, Tested
  <2>3. Vouched(st, next, vouched') /\ Judged(st, next, vouched')
    <3>1. /\ st.execution = s.execution /\ st.plan = s.plan
          /\ st.verification = s.verification /\ st.acceptance = s.acceptance
          /\ s.publish = None
      BY <1>1, <1>4, FieldNames DEF SameBut, Gated, Planned
    <3>2. Met(s) => Met(st)
      BY <3>1 DEF Met, Proved
    <3>. HIDE DEF st
    <3>3. Vouched(st, next, vouched')
      BY <1>1, <1>2, <3>1
         DEF Gated, Vouched, Unspoilt, Proved, Reviewed, Tested
    <3>4. Judged(st, next, vouched')
      BY <1>1, <3>1, <3>2 DEF Gated, Judged
    <3>. QED  BY <3>3, <3>4
  <2>4. Planned(st, next)
    BY <1>1, <1>4, FieldNames DEF SameBut, Gated, Planned, Known
  <2>. QED  BY <2>1, <2>2, <2>3, <2>4 DEF Gated
<1>. QED  BY <1>1, <1>2, <1>4, <1>6, <1>7, GatedCommit, FieldNames DEF SameBut

LEMMA PostPublishGated ==
  ASSUME TypeInv, GateInv, crashes = 0, PostPublishVerify PROVE GateInv'
<1>. PICK engine \in PolicyEngines : PostPublishVerify!2!(engine)
  BY DEF PostPublishVerify
<1>. DEFINE p == s.publish
            lifecycle ==
              Transition(engine, "publish",
                         FactsOf(s.plan, s.execution, None, p, "absent",
                                 s.repairs))
            refresh == /\ lifecycle.next = "finalize"
                       /\ lifecycle.allowed
                       /\ s.contract # None
            acceptance == IF refresh
                          THEN EvaluateAcceptance(s.contract, s.execution,
                                                  s.verification, p)
                          ELSE s.acceptance
            next == NextAfterPublish(lifecycle.next)
            decision == lifecycle.next
            st == [s EXCEPT !.publishReview = Made, !.acceptance = acceptance,
                            !.status = "post_publish_verified",
                            !.decision = decision]
<1>0. Fielded(s) /\ Made # None
  BY NoneAssumption DEF TypeInv, Typed
<1>1. /\ Commit(st, next) /\ exit = "running" /\ crashes' = crashes
      /\ vouched' = vouched /\ Gated(s, "post_publish_verify", vouched)
  BY DEF PostPublishVerify, At, NoCalls, GateInv
<1>2. acceptance.final = "completed" => Accepted(acceptance) /\ Met(s)
  <2>1. s.acceptance.final = "completed" => Accepted(s.acceptance) /\ Met(s)
    BY <1>1 DEF Gated, Judged, Known
  <2>2. Proved(s) /\ s.contract = Contract(s.plan) /\ p # None
    BY <1>1 DEF Gated, Vouched, Planned, Known
  <2>3. s.plan.mutates
          /\ Accepted(EvaluateAcceptance(Contract(s.plan), s.execution,
                                         s.verification, p))
        => Met(s)
    <3>. HIDE DEF EvaluateAcceptance, Proved
    <3>. QED  BY <2>2, NothingUnmet DEF Met
  <2>4. ~s.plan.mutates => Met(s)
    BY DEF Met
  <2>. HIDE DEF Met, EvaluateAcceptance
  <2>. QED  BY <2>1, <2>2, <2>3, <2>4, CompletedIsAccepted
<1>3. next \in {"repair", "finalize"}
  BY DEF NextAfterPublish
<1>. HIDE DEF lifecycle, acceptance, next, decision
<1>4. SameBut(st, {"publishReview", "acceptance", "status", "decision"})
  BY <1>0, FieldNames DEF SameBut, Fielded
<1>5. /\ st.publishReview = Made /\ st.acceptance = acceptance
      /\ st.status = "post_publish_verified"
  BY <1>0, FieldNames DEF Fielded
<1>. HIDE DEF st
<1>6. Valid(st)
  BY <1>0, <1>1, <1>4, <1>5, FieldNames
     DEF Valid, StatusRequires, StatusFields, SameBut, Gated, Known
<1>7. Gated(st, next, vouched')
  <2>1. \A f \in Known(next) : st[f] # None
    BY <1>1, <1>3, <1>4, FieldNames DEF SameBut, Gated, Known
  <2>2. Permitted(st, next)
    BY <1>1, <1>3, <1>4, FieldNames
       DEF SameBut, Gated, Permitted, Working, Reviewed, Tested
  <2>3. /\ Unspoilt(s) /\ Answered(vouched)
        /\ {"reviewed", "tested", "accepted"} \subseteq vouched
    BY <1>1 DEF Gated, Vouched, Reviewed, Tested
  <2>4. /\ st.execution = s.execution /\ st.plan = s.plan
        /\ st.verification = s.verification /\ st.publish = s.publish
        /\ st.contract = s.contract
    BY <1>4, FieldNames DEF SameBut
  <2>5. Met(s) => Met(st)
    BY <2>4 DEF Met, Proved
  <2>6. Vouched(st, next, vouched')
    BY <1>3 DEF Vouched, Reviewed, Tested
  <2>7. Judged(st, next, vouched')
    BY <1>1, <1>2, <1>3, <1>5, <2>3, <2>4, <2>5 DEF Judged, Unspoilt
  <2>8. Planned(st, next)
    BY <1>1, <1>3, <2>4 DEF Gated, Planned, Known
  <2>. QED  BY <2>1, <2>2, <2>6, <2>7, <2>8 DEF Gated
<1>. QED  BY <1>1, <1>4, <1>6, <1>7, GatedCommit, FieldNames DEF SameBut

LEMMA RepairGated ==
  ASSUME TypeInv, GateInv, crashes = 0, Repair PROVE GateInv'
<1>1. exit = "running" /\ crashes' = crashes /\ Gated(s, "repair", vouched)
  BY DEF Repair, At, GateInv
<1>2. CASE AttemptRefused(s)
  BY <1>1, <1>2 DEF Repair, GateInv, GatesNeverRaise
<1>3. CASE ~AttemptRefused(s)
  <2>. DEFINE governed == StrategyCheckpoint(s, "repair")
  <2>. PICK x \in Outcomes :
         Commit([governed EXCEPT
                   !.execution = x, !.repairs = @ + 1,
                   !.packets = SetStatus(@, s.active, PacketStatus(x)),
                   !.publish = None, !.publishReview = None,
                   !.verification = None, !.acceptance = None,
                   !.status = "repaired", !.decision = "review"],
                "review")
    BY <1>3 DEF Repair
  <2>. DEFINE packets == SetStatus(governed.packets, s.active, PacketStatus(x))
              st == [governed EXCEPT
                       !.execution = x, !.repairs = @ + 1, !.packets = packets,
                       !.publish = None, !.publishReview = None,
                       !.verification = None, !.acceptance = None,
                       !.status = "repaired", !.decision = "review"]
  <2>0. Fielded(s) /\ Packed(s) /\ x # None
    BY WorkflowAssumption, NoneAssumption DEF TypeInv, Typed
  <2>1. Commit(st, "review")
    OBVIOUS
  <2>2. packets # None
    <3>1. governed.packets = s.packets /\ s.packets \in Seq(Packets)
      BY <1>1, <2>0, FieldNames
         DEF Gated, Known, Packed, StrategyCheckpoint, Fielded
    <3>2. PacketStatus(x) \in PacketStatuses
      BY DEF PacketStatus, PacketStatuses
    <3>. HIDE DEF governed
    <3>3. packets \in Seq(Packets)
      BY <3>1, <3>2, SetStatusTyped
    <3>. QED  BY <3>3, NoneAssumption
  <2>. HIDE DEF packets
  <2>3. SameBut(st, {"execution", "repairs", "packets", "publish",
                     "publishReview", "verification", "acceptance", "status",
                     "decision", "strategy"})
    BY <2>0, FieldNames DEF SameBut, Fielded, StrategyCheckpoint
  <2>4. /\ st.execution = x /\ st.packets = packets /\ st.acceptance = None
        /\ st.publish = None /\ st.status = "repaired"
    BY <2>0, FieldNames DEF Fielded, StrategyCheckpoint
  <2>. HIDE DEF st
  <2>5. Valid(st)
    BY <2>0, <2>4 DEF Valid, StatusRequires, StatusFields
  <2>6. Gated(st, "review", vouched')
    <3>1. \A f \in Known("review") : st[f] # None
      BY <1>1, <2>0, <2>2, <2>3, <2>4, FieldNames DEF SameBut, Gated, Known
    <3>2. Permitted(st, "review")
      BY <1>1, <2>3, FieldNames
         DEF SameBut, Gated, Permitted, Working, Reviewed, Tested
    <3>3. Vouched(st, "review", vouched') /\ Judged(st, "review", vouched')
      BY <2>4 DEF Vouched, Judged, Reviewed, Tested
    <3>4. Planned(st, "review")
      BY <1>1, <2>3, <2>4, FieldNames DEF SameBut, Gated, Planned, Known
    <3>. QED  BY <3>1, <3>2, <3>3, <3>4 DEF Gated
  <2>. QED  BY <1>1, <2>1, <2>3, <2>5, <2>6, GatedCommit, FieldNames DEF SameBut
<1>. QED  BY <1>2, <1>3

(* Only an acceptance can call a mutating task completed.                    *)
LEMMA CompletedByAcceptance ==
  ASSUME NEW st, Fielded(st), st.plan # None, st.plan.mutates,
         ReportStatus(st) = "completed"
  PROVE  st.acceptance # None /\ st.acceptance.final = "completed"
<1>1. st.progression \in Maybe(Progressions)
  BY PlanFields, FieldNames DEF Fielded
<1>2. st.progression # None => st.progression.hint # "completed"
  BY <1>1 DEF Maybe, Progressions
<1>3. UnfinishedStatus(st.packets, st.execution) # "completed"
  BY DEF UnfinishedStatus
<1>. HIDE DEF UnfinishedStatus, CompletionStatus
<1>. QED  BY <1>2, <1>3 DEF ReportStatus

LEMMA FinalizeGated ==
  ASSUME TypeInv, GateInv, crashes = 0, Finalize PROVE GateInv'
<1>0. Fielded(s)
  BY DEF TypeInv, Typed
<1>1. Gated(s, "finalize", vouched)
  BY DEF Finalize, At, GateInv
<1>2. exit' = "report" /\ vouched' = vouched
  BY DEF Finalize
<1>3. /\ s'.report = ReportStatus(s) /\ s'.plan = s.plan
      /\ s'.acceptance = s.acceptance /\ s'.execution = s.execution
      /\ s'.verification = s.verification /\ s'.publish = s.publish
  BY <1>0, FieldNames DEF Finalize, Fielded
<1>4. CompletedIsEarned'
  <2>. SUFFICES ASSUME ReportStatus(s) = "completed", s.plan # None,
                       s.plan.mutates
                PROVE  /\ s.acceptance # None
                       /\ Accepted(s.acceptance)
                       /\ Unspoilt(s) /\ Met(s)
                       /\ {"reviewed", "tested", "accepted"} \subseteq vouched
                       /\ Answered(vouched)
    BY <1>2, <1>3
       DEF CompletedIsEarned, Accepted, Unspoilt, Met, Proved, Answered
  <2>1. s.acceptance # None /\ s.acceptance.final = "completed"
    BY <1>0, CompletedByAcceptance
  <2>. QED  BY <1>1, <2>1 DEF Gated, Judged
<1>. QED  BY <1>2, <1>4 DEF GateInv, GatesNeverRaise

LEMMA StopsGated ==
  ASSUME TypeInv, GateInv, crashes = 0,
         NotReady \/ CrashBeforeCall \/ CrashAfterCall \/ Resume
  PROVE  GateInv'
<1>1. CASE NotReady
  <2>1. Gated(s, node, vouched) /\ ~Ready(s, node) /\ node \in Stages
    BY <1>1 DEF NotReady, GateInv, TypeInv
  <2>. QED  BY <2>1, RequiredIsKnown DEF Gated, Ready
<1>2. CASE CrashBeforeCall \/ CrashAfterCall
  BY <1>2 DEF CrashBeforeCall, CrashAfterCall, GateInv, GatesNeverRaise
<1>3. CASE Resume
  BY <1>3 DEF Resume, GateInv
<1>. QED  BY <1>1, <1>2, <1>3

(* Only a resume counts as a crash.                                          *)
LEMMA StagesCountNoCrash == Stage => UNCHANGED crashes
<1>. SUFFICES ASSUME Stage PROVE UNCHANGED crashes
  OBVIOUS
<1>. USE DEF Fill, NoCalls
<1>1. CASE Intake \/ Classify \/ BuildContext \/ DoneContract
             \/ WorkspacePrepare \/ QaPlan
  BY <1>1 DEF Intake, Classify, BuildContext, DoneContract, WorkspacePrepare,
     QaPlan
<1>2. CASE Route \/ Research \/ Observe \/ Obligations \/ Policy \/ Approval
  BY <1>2 DEF Route, Research, Observe, Obligations, Policy, Approval
<1>3. CASE Plan
  BY <1>3 DEF Plan
<1>4. CASE Execute \/ QaExecute \/ Publish \/ Repair \/ Finalize \/ NotReady
  BY <1>4 DEF Execute, QaExecute, Publish, Repair, Finalize, NotReady
<1>5. CASE Review \/ QaReview \/ Acceptance \/ PostPublishVerify
  BY <1>5 DEF Review, QaReview, Acceptance, PostPublishVerify
<1>. QED  BY <1>1, <1>2, <1>3, <1>4, <1>5 DEF Stage

LEMMA NextCounts ==
  Next => crashes' = crashes \/ (crashes < MaxCrashes /\ crashes' = crashes + 1)
BY StagesCountNoCrash DEF Next, CrashBeforeCall, CrashAfterCall, Resume

LEMMA GateInvKept == TypeInv /\ GateInv /\ [Next]_vars => GateInv'
<1>. SUFFICES ASSUME TypeInv, GateInv, [Next]_vars PROVE GateInv'
  OBVIOUS
<1>1. CASE UNCHANGED vars
  BY <1>1 DEF vars, GateInv, Gated, Permitted, Planned, Vouched, Judged, Unspoilt,
              CompletedIsEarned, GatesNeverRaise
<1>2. CASE Next /\ crashes = 0
  BY <1>2, FillingGated, PlanGated, ExecuteGated, ReviewGated, QaExecuteGated,
     QaReviewGated, AcceptanceGated, PublishGated, PostPublishGated,
     RepairGated, FinalizeGated, StopsGated
     DEF Next, Stage
<1>3. CASE Next /\ crashes # 0
  <2>1. crashes' = crashes \/ crashes' = crashes + 1
    BY <1>3, NextCounts
  <2>. QED  BY <1>3, <2>1 DEF GateInv, TypeInv
<1>. QED  BY <1>1, <1>2, <1>3

(* Only the publish stage publishes, and only execute reports an execution.  *)
LEMMA OnlyPublishPublishes ==
  ASSUME PublishInv, Next, publishes' > publishes
  PROVE  exit = "running" /\ node = "publish"
<1>0. publishes' # publishes
  BY DEF PublishInv
<1>1. CASE Publish
  BY <1>1 DEF Publish, At
<1>2. CASE CrashAfterCall
  BY <1>0, <1>2 DEF CrashAfterCall
<1>3. CASE PostPublishVerify \/ Finalize
  BY <1>0, <1>3 DEF PostPublishVerify, Finalize, NoCalls
<1>4. CASE Repair \/ NotReady \/ CrashBeforeCall \/ Resume
  BY <1>0, <1>4 DEF Repair, NotReady, CrashBeforeCall, Resume
<1>5. CASE NoPublication
  BY <1>0, <1>5 DEF NoPublication
<1>. QED
  BY <1>1, <1>2, <1>3, <1>4, <1>5, StagesWithoutPublication DEF Next, Stage

LEMMA OnlyExecuteExecutes ==
  ASSUME TypeInv, Next, s'.status = "executed", s.status # "executed"
  PROVE  Execute
<1>0. Fielded(s) /\ "status" \in DOMAIN s
  BY FieldNames DEF TypeInv, Typed, Fielded
<1>. USE DEF Fill, Commit
<1>1. CASE Intake \/ Classify \/ BuildContext \/ DoneContract
             \/ WorkspacePrepare \/ QaPlan \/ QaExecute
  BY <1>0, <1>1 DEF Intake, Classify, BuildContext, DoneContract,
     WorkspacePrepare, QaPlan, QaExecute
<1>2. CASE Route \/ Research \/ Observe \/ Obligations \/ Policy \/ Approval
  BY <1>0, <1>2 DEF Route, Research, Observe, Obligations, Policy, Approval
<1>3. CASE Plan
  <2>. PICK plan \in Plans, chain \in PacketChains : Plan!(plan, chain)
    BY <1>3 DEF Plan
  <2>. QED  BY <1>0 DEF StrategyCheckpoint
<1>4. CASE Review
  <2>. PICK engine \in PolicyEngines, missing \in DeliverablesMissing :
         Review!2!(engine, missing)
    BY <1>4 DEF Review
  <2>. DEFINE x == s.execution
              lifecycle ==
                Transition(engine, "execution",
                           FactsOf(s.plan, x, None, None, "absent", 0))
              kind == ReviewKind(s, x, lifecycle)
              progression ==
                IF kind = "pass" THEN Progression(s.packets, s.strategy)
                ELSE s.progression
              reviewed ==
                [s EXCEPT
                   !.review = kind,
                   !.retries = RetriesAfter(s, kind),
                   !.packets = IF kind = "agent_retry"
                               THEN SetStatus(@, s.active, "pending") ELSE @,
                   !.active = IF kind = "pass" THEN progression.next ELSE @,
                   !.progression = progression,
                   !.acceptance =
                     IF kind = "policy_violation" /\ s.contract # None
                     THEN RefusedAcceptance(lifecycle.violations) ELSE @,
                   !.status = "reviewed",
                   !.decision = ReviewDecision(kind, progression)]
              governed == kind # "pass" \/ missing \/ progression.blocked
              st == IF governed THEN StrategyCheckpoint(reviewed, "review")
                    ELSE reviewed
  <2>1. Commit(st, NextAfterReview(kind, progression))
    OBVIOUS
  <2>. HIDE DEF lifecycle, kind, progression, governed, Commit
  <2>2. st.status = "reviewed"
    BY <1>0 DEF StrategyCheckpoint
  <2>. HIDE DEF st
  <2>. QED  BY <2>1, <2>2 DEF Commit
<1>5. CASE QaReview
  <2>. PICK v \in Verdicts, engine \in PolicyEngines : QaReview!2!(v, engine)
    BY <1>5 DEF QaReview
  <2>. DEFINE kind == QaStatus(s.execution, v, s.qaReport)
              loop == QaLoopDecision(s, v, kind, engine # "unavailable")
              next == NextAfterQa(kind, loop)
              recorded ==
                [s EXCEPT !.verification = v, !.qaReview = kind,
                          !.loops = Append(@, loop), !.status = "qa_reviewed",
                          !.decision = next]
              cleared == IF loop.target = "continue" THEN recorded
                         ELSE ClearForReentry(recorded, loop.target)
              governed ==
                kind # "pass" \/ v.gap = "evidence" \/ v.checks = "failed"
              st == IF governed THEN StrategyCheckpoint(cleared, "qa_review")
                    ELSE cleared
  <2>1. Commit(st, next)
    OBVIOUS
  <2>. HIDE DEF kind, loop, next, governed, Commit
  <2>2. st.status = "qa_reviewed"
    BY <1>0 DEF StrategyCheckpoint, ClearForReentry, ClearedFields
  <2>. HIDE DEF st
  <2>. QED  BY <2>1, <2>2 DEF Commit
<1>6. CASE Acceptance
  <2>. PICK engine \in PolicyEngines : Acceptance!2!(engine)
    BY <1>6 DEF Acceptance
  <2>. DEFINE acceptance ==
                EvaluateAcceptance(s.contract, s.execution, s.verification,
                                   s.publish)
              loop == L!Evaluate(s.loops, "acceptance",
                                 TriggerOf(s, s.verification),
                                 engine # "unavailable")
              next == NextAfterAcceptance(
                        Transition(engine, "acceptance",
                                   FactsOf(s.plan, s.execution, s.verification,
                                           s.publish, Gate(acceptance), 0)),
                        loop)
              recorded ==
                [s EXCEPT !.acceptance = acceptance, !.loops = Append(@, loop),
                          !.status = "acceptance_evaluated", !.decision = next]
              cleared == IF loop.target = "continue" THEN recorded
                         ELSE ClearForReentry(recorded, loop.target)
              st == IF loop.target # "continue" \/ ~Accepted(acceptance)
                    THEN StrategyCheckpoint(cleared, "acceptance") ELSE cleared
  <2>1. Commit(st, next)
    OBVIOUS
  <2>. HIDE DEF acceptance, loop, next, Commit
  <2>2. st.status = "acceptance_evaluated"
    BY <1>0 DEF StrategyCheckpoint, ClearForReentry, ClearedFields
  <2>. HIDE DEF st
  <2>. QED  BY <2>1, <2>2 DEF Commit
<1>7. CASE Publish \/ PostPublishVerify \/ Finalize \/ NotReady
  BY <1>0, <1>7 DEF Publish, PostPublishVerify, Finalize, NotReady
<1>8. CASE Repair
  BY <1>0, <1>8 DEF Repair, StrategyCheckpoint
<1>9. CASE CrashBeforeCall \/ CrashAfterCall \/ Resume
  BY <1>9 DEF CrashBeforeCall, CrashAfterCall, Resume
<1>. QED
  BY <1>1, <1>2, <1>3, <1>4, <1>5, <1>6, <1>7, <1>8, <1>9 DEF Next, Stage

-----------------------------------------------------------------------------
(* Theorems about a run that nothing has cut off yet.                        *)
CrashBound == crashes \in 0 .. MaxCrashes

FirstLifeInv == TypeInv /\ GateInv /\ CrashBound

LEMMA FirstLifeInvHolds == Spec => []FirstLifeInv
<1>1. Init => GateInv /\ CrashBound
  BY WorkflowAssumption
     DEF Init, InitialState, GateInv, Gated, Known, Permitted, Planned, Vouched, Judged,
         Working, Reviewed, Tested, GatesNeverRaise, CrashBound
<1>2. CrashBound /\ [Next]_vars => CrashBound'
  BY NextCounts, WorkflowAssumption DEF CrashBound, vars
<1>. QED
  BY <1>1, <1>2, TypeInvHolds, GateInvKept, PTL DEF Spec, FirstLifeInv

(* Until a run is resumed from a crash, no gate of the graph raises: every   *)
(* stage is reached with the fields it needs, no merged state lacks what its *)
(* status promises, and the publish node is never refused.                   *)
THEOREM NoGateRaises == Spec => [](crashes = 0 => GatesNeverRaise)
<1>1. FirstLifeInv => (crashes = 0 => GatesNeverRaise)
  BY DEF FirstLifeInv, GateInv
<1>. QED  BY <1>1, FirstLifeInvHolds, PTL

(* Until then, a task that changes the repository is reported completed only *)
(* on an execution that changed it and failed in nothing, whose revision     *)
(* went through the gate, with every obligation of its contract met.         *)
THEOREM CompletionIsEarned == Spec => [](crashes = 0 => CompletedIsEarned)
<1>1. FirstLifeInv => (crashes = 0 => CompletedIsEarned)
  <2>1. None # "completed"
    BY NoneAssumption DEF ReportStatuses
  <2>. QED  BY <2>1 DEF FirstLifeInv, GateInv, CompletedIsEarned
<1>. QED  BY <1>1, FirstLifeInvHolds, PTL

(* What a run that nothing cuts off publishes was reviewed, tested and       *)
(* accepted since the workspace last changed, and verified unless a blocked  *)
(* item of the QA report excused it.                                         *)
THEOREM PublicationIsVouched ==
  ASSUME MaxCrashes = 0 PROVE Spec => PublishIsVouched
<1>. DEFINE checked == /\ {"reviewed", "tested", "accepted"} \subseteq vouched
                       /\ \/ "verified" \in vouched
                          \/ "excused" \in vouched /\ s.qaReport = "blocked"
<1>1. FirstLifeInv /\ PublishInv /\ [Next]_vars
        => [publishes' > publishes => checked]_vars
  <2>. SUFFICES ASSUME FirstLifeInv, PublishInv, Next, publishes' > publishes
                PROVE  checked
    OBVIOUS
  <2>1. crashes = 0
    BY DEF FirstLifeInv, CrashBound
  <2>2. Gated(s, "publish", vouched)
    BY <2>1, OnlyPublishPublishes DEF FirstLifeInv, GateInv
  <2>. QED  BY <2>2 DEF Gated, Vouched, Reviewed, Tested
<1>. QED  BY <1>1, FirstLifeInvHolds, PublishInvHolds, PTL
          DEF Spec, PublishIsVouched

(* Such a run publishes what the plan asks to publish, after an execution    *)
(* that succeeded, with the tests the plan asks for passed, and with no      *)
(* environment missing by the evidence of execution or verification.         *)
THEOREM PublicationIsPlanned ==
  ASSUME MaxCrashes = 0 PROVE Spec => PublishAsPlanned
<1>. DEFINE wanted ==
              /\ s.plan.publish
              /\ ExecutionSucceeded(s.execution)
              /\ ~EnvironmentBlocked(s.execution, s.verification)
              /\ s.plan.tests => ChecksPassed(s.execution, s.verification, None)
<1>1. FirstLifeInv /\ PublishInv /\ [Next]_vars
        => [publishes' > publishes => wanted]_vars
  <2>. SUFFICES ASSUME FirstLifeInv, PublishInv, Next, publishes' > publishes
                PROVE  wanted
    OBVIOUS
  <2>1. crashes = 0
    BY DEF FirstLifeInv, CrashBound
  <2>2. Gated(s, "publish", vouched)
    BY <2>1, OnlyPublishPublishes DEF FirstLifeInv, GateInv
  <2>. QED  BY <2>2 DEF Gated, Vouched, Proved
<1>. QED  BY <1>1, FirstLifeInvHolds, PublishInvHolds, PTL
          DEF Spec, PublishAsPlanned

(* Such a run lets the agent execute only what the policy has let through,   *)
(* on the evidence that the route and the family of the plan demand.         *)
THEOREM ExecutionIsPermitted ==
  ASSUME MaxCrashes = 0 PROVE Spec => ExecutePermitted
<1>. DEFINE permitted == /\ \/ s.policy = "allowed"
                            \/ s.policy = "approval" /\ s.approval = TRUE
                         /\ s.route.fresh => s.research = "ok"
                         /\ s.plan.world => s.observation = "ok"
            executes == s'.status = "executed" /\ s.status # "executed"
<1>1. ASSUME FirstLifeInv, Next, executes PROVE permitted
  <2>1. Execute
    BY <1>1, OnlyExecuteExecutes DEF FirstLifeInv
  <2>. HIDE DEF permitted, executes
  <2>2. crashes = 0
    BY <1>1 DEF FirstLifeInv, CrashBound
  <2>3. exit = "running" /\ node = "execute"
    BY <2>1 DEF Execute, At
  <2>4. Permitted(s, "execute")
    BY <1>1, <2>2, <2>3 DEF FirstLifeInv, GateInv, Gated
  <2>. QED  BY <2>4 DEF Permitted, Working, permitted
<1>2. FirstLifeInv /\ [Next]_vars => [executes => permitted]_vars
  <2>. HIDE DEF permitted, executes
  <2>. QED  BY <1>1
<1>. QED  BY <1>2, FirstLifeInvHolds, PTL DEF Spec, ExecutePermitted

-----------------------------------------------------------------------------
(* A producer that returned nothing usable.                                  *)
Unusable(st) == st.execution # None /\ st.execution.failure # "none"

(* While the result of the producer is unusable the run is at review, at the *)
(* retry or at the report, and would resume at review.                       *)
ProducerInv ==
  Unusable(s) => /\ node \in {"review", "execute", "finalize"}
                 /\ s.decision = "review"

(* Only execute and repair bring another execution result.                   *)
LEMMA OthersKeepExecution ==
  ASSUME TypeInv, Next, ~Execute, ~Repair, ~Review
  PROVE  s'.execution = s.execution
<1>0. Fielded(s) /\ "execution" \in DOMAIN s
  BY FieldNames DEF TypeInv, Typed, Fielded
<1>. USE DEF Fill, Commit
<1>1. CASE Intake \/ Classify \/ BuildContext \/ DoneContract
             \/ WorkspacePrepare \/ QaPlan \/ QaExecute
  BY <1>0, <1>1 DEF Intake, Classify, BuildContext, DoneContract,
     WorkspacePrepare, QaPlan, QaExecute
<1>2. CASE Route \/ Research \/ Observe \/ Obligations \/ Policy \/ Approval
  BY <1>0, <1>2 DEF Route, Research, Observe, Obligations, Policy, Approval
<1>3. CASE Plan
  <2>. PICK plan \in Plans, chain \in PacketChains : Plan!(plan, chain)
    BY <1>3 DEF Plan
  <2>. QED  BY <1>0 DEF StrategyCheckpoint
<1>4. CASE QaReview
  <2>. PICK v \in Verdicts, engine \in PolicyEngines : QaReview!2!(v, engine)
    BY <1>4 DEF QaReview
  <2>. DEFINE kind == QaStatus(s.execution, v, s.qaReport)
              loop == QaLoopDecision(s, v, kind, engine # "unavailable")
              next == NextAfterQa(kind, loop)
              recorded ==
                [s EXCEPT !.verification = v, !.qaReview = kind,
                          !.loops = Append(@, loop), !.status = "qa_reviewed",
                          !.decision = next]
              cleared == IF loop.target = "continue" THEN recorded
                         ELSE ClearForReentry(recorded, loop.target)
              governed ==
                kind # "pass" \/ v.gap = "evidence" \/ v.checks = "failed"
              st == IF governed THEN StrategyCheckpoint(cleared, "qa_review")
                    ELSE cleared
  <2>1. Commit(st, next)
    OBVIOUS
  <2>. HIDE DEF kind, next, governed, loop, Commit
  <2>2. st.execution = s.execution
    BY <1>0 DEF StrategyCheckpoint, ClearForReentry, ClearedFields
  <2>. HIDE DEF st
  <2>. QED  BY <2>1, <2>2 DEF Commit
<1>5. CASE Acceptance
  <2>. PICK engine \in PolicyEngines : Acceptance!2!(engine)
    BY <1>5 DEF Acceptance
  <2>. DEFINE v == s.verification
              acceptance ==
                EvaluateAcceptance(s.contract, s.execution, v, s.publish)
              loop == L!Evaluate(s.loops, "acceptance", TriggerOf(s, v),
                                 engine # "unavailable")
              next == NextAfterAcceptance(
                        Transition(engine, "acceptance",
                                   FactsOf(s.plan, s.execution, v, s.publish,
                                           Gate(acceptance), 0)),
                        loop)
              recorded ==
                [s EXCEPT !.acceptance = acceptance, !.loops = Append(@, loop),
                          !.status = "acceptance_evaluated", !.decision = next]
              cleared == IF loop.target = "continue" THEN recorded
                         ELSE ClearForReentry(recorded, loop.target)
              st == IF loop.target # "continue" \/ ~Accepted(acceptance)
                    THEN StrategyCheckpoint(cleared, "acceptance") ELSE cleared
  <2>1. Commit(st, next)
    OBVIOUS
  <2>. HIDE DEF acceptance, next, loop, v, Commit
  <2>2. st.execution = s.execution
    BY <1>0 DEF StrategyCheckpoint, ClearForReentry, ClearedFields
  <2>. HIDE DEF st
  <2>. QED  BY <2>1, <2>2 DEF Commit
<1>6. CASE Publish \/ PostPublishVerify \/ Finalize \/ NotReady
  BY <1>0, <1>6 DEF Publish, PostPublishVerify, Finalize, NotReady
<1>7. CASE CrashBeforeCall \/ CrashAfterCall \/ Resume
  BY <1>7 DEF CrashBeforeCall, CrashAfterCall, Resume
<1>. QED
  BY <1>1, <1>2, <1>3, <1>4, <1>5, <1>6, <1>7 DEF Next, Stage

(* No engine lets an unusable result leave execute.                          *)
LEMMA UnusableIsRefused ==
  ASSUME NEW engine, NEW plan, NEW x, x.failure # "none"
  PROVE  ~Transition(engine, "execution",
                     FactsOf(plan, x, None, None, "absent", 0)).allowed
<1>. DEFINE f == FactsOf(plan, x, None, None, "absent", 0)
<1>1. f.stageFailed
  BY DEF FactsOf
<1>. HIDE DEF f
<1>2. ~Evaluate(engine, "can_leave_execute", f).allowed
  BY <1>1 DEF Evaluate, RegoAllows, FallbackViolations, Objections, When
<1>. HIDE DEF Evaluate
<1>. QED  BY <1>2 DEF Transition, AfterExecution, Decision, f

(* The review of an unusable result retries it or reports it.                *)
LEMMA ReviewKeepsProducer ==
  ASSUME TypeInv, ProducerInv, Review PROVE ProducerInv'
<1>0. Fielded(s) /\ {"execution", "decision"} \subseteq DOMAIN s
  BY FieldNames DEF TypeInv, Typed, Fielded
<1>. PICK engine \in PolicyEngines, missing \in DeliverablesMissing :
       Review!2!(engine, missing)
  BY DEF Review
<1>. DEFINE x == s.execution
            lifecycle ==
              Transition(engine, "execution",
                         FactsOf(s.plan, x, None, None, "absent", 0))
            kind == ReviewKind(s, x, lifecycle)
            progression ==
              IF kind = "pass" THEN Progression(s.packets, s.strategy)
              ELSE s.progression
            reviewed ==
              [s EXCEPT
                 !.review = kind,
                 !.retries = RetriesAfter(s, kind),
                 !.packets = IF kind = "agent_retry"
                             THEN SetStatus(@, s.active, "pending") ELSE @,
                 !.active = IF kind = "pass" THEN progression.next ELSE @,
                 !.progression = progression,
                 !.acceptance = IF kind = "policy_violation" /\ s.contract # None
                                THEN RefusedAcceptance(lifecycle.violations)
                                ELSE @,
                 !.status = "reviewed",
                 !.decision = ReviewDecision(kind, progression)]
            governed == kind # "pass" \/ missing \/ progression.blocked
            st == IF governed THEN StrategyCheckpoint(reviewed, "review")
                  ELSE reviewed
<1>1. Commit(st, NextAfterReview(kind, progression))
  OBVIOUS
<1>2. node = "review"
  BY DEF Review, At
<1>3. ASSUME Unusable(s)
      PROVE  kind \in {"agent_retry", "policy_violation"}
  <2>1. ~lifecycle.allowed
    BY <1>3, UnusableIsRefused DEF Unusable
  <2>. HIDE DEF lifecycle
  <2>. QED  BY <2>1 DEF ReviewKind
<1>. HIDE DEF lifecycle, kind, progression
<1>4. st.execution = s.execution
  BY <1>0 DEF StrategyCheckpoint
<1>5. ASSUME Unusable(s)
      PROVE  /\ st.decision = "review"
             /\ NextAfterReview(kind, progression) \in {"execute", "finalize"}
  <2>1. st = StrategyCheckpoint(reviewed, "review")
    BY <1>3, <1>5
  <2>2. st.decision = "review"
    BY <1>0, <2>1 DEF StrategyCheckpoint
  <2>. QED  BY <1>3, <1>5, <2>2 DEF NextAfterReview
<1>. HIDE DEF st
<1>. QED  BY <1>1, <1>2, <1>4, <1>5 DEF Commit, ProducerInv, Unusable

LEMMA ProducerInvKept == TypeInv /\ ProducerInv /\ [Next]_vars => ProducerInv'
<1>. SUFFICES ASSUME TypeInv, ProducerInv, [Next]_vars PROVE ProducerInv'
  OBVIOUS
<1>0. Fielded(s) /\ {"execution", "decision"} \subseteq DOMAIN s
  BY FieldNames DEF TypeInv, Typed, Fielded
<1>1. CASE UNCHANGED vars
  BY <1>1 DEF vars, ProducerInv, Unusable
<1>2. CASE Execute
  BY <1>0, <1>2 DEF Execute, At, Commit, ProducerInv, Unusable
<1>3. CASE Repair
  BY <1>0, <1>3 DEF Repair, At, Commit, ProducerInv, Unusable,
                    StrategyCheckpoint
<1>4. CASE Review
  BY <1>4, ReviewKeepsProducer
<1>5. CASE Finalize
  BY <1>0, <1>5 DEF Finalize, ProducerInv, Unusable
<1>6. CASE NotReady \/ CrashBeforeCall \/ CrashAfterCall
  BY <1>6 DEF NotReady, CrashBeforeCall, CrashAfterCall, ProducerInv, Unusable
<1>7. CASE Resume
  <2>1. "review" \in Stages /\ "review" # None
    BY NoneAssumption DEF Stages, Decisions
  <2>. QED  BY <1>7, <2>1
            DEF Resume, ProducerInv, Unusable, ResumeStage, Dispatch
<1>8. CASE /\ Stage
           /\ ~Execute /\ ~Repair /\ ~Review /\ ~Finalize /\ ~NotReady
  <2>1. node \notin {"review", "execute", "finalize"}
    BY <1>8 DEF Stage, Intake, Classify, Route, Research, Observe,
       BuildContext, Obligations, DoneContract, Plan, Policy, Approval,
       WorkspacePrepare, QaPlan, QaExecute, QaReview, Acceptance, Publish,
       PostPublishVerify, Fill, At
  <2>2. s'.execution = s.execution
    BY <1>8, OthersKeepExecution DEF Next
  <2>. QED  BY <2>1, <2>2 DEF ProducerInv, Unusable
<1>. QED
  BY <1>1, <1>2, <1>3, <1>4, <1>5, <1>6, <1>7, <1>8 DEF Next

(* Only at the repair stage is the agent asked for a repair.                 *)
LEMMA OnlyRepairCalls ==
  ASSUME RepairInv, Next, repairCalls' > repairCalls
  PROVE  node = "repair" /\ Ready(s, "repair")
<1>0. repairCalls' # repairCalls
  BY DEF RepairInv
<1>1. CASE Repair
  BY <1>1 DEF Repair, At
<1>2. CASE CrashAfterCall
  BY <1>0, <1>2 DEF CrashAfterCall
<1>3. CASE CrashBeforeCall \/ Resume
  BY <1>0, <1>3 DEF CrashBeforeCall, Resume
<1>4. CASE Stage /\ ~Repair
  <2>1. LeftAlone
    BY <1>4, FillingStages, PlanLeavesAlone, ExecuteLeavesAlone,
       ReviewLeavesAlone, QaReviewLeavesAlone, AcceptanceLeavesAlone,
       PublishLeavesAlone, PostPublishLeavesAlone, OthersLeaveAlone
       DEF Stage
  <2>. QED  BY <1>0, <2>1 DEF LeftAlone
<1>. QED  BY <1>1, <1>2, <1>3, <1>4 DEF Next

(* What a producer without a usable result leaves behind is never handed to  *)
(* repair, whatever crashes and wherever the run is resumed.                 *)
THEOREM UnusableIsNeverRepaired == Spec => ProducerFailureNotRepaired
<1>1. Init => ProducerInv
  BY DEF Init, InitialState, ProducerInv, Unusable
<1>2. RepairInv /\ ProducerInv /\ [Next]_vars
        => [repairCalls' > repairCalls => s.execution.failure = "none"]_vars
  <2>. SUFFICES ASSUME RepairInv, ProducerInv, Next, repairCalls' > repairCalls
                PROVE  s.execution.failure = "none"
    OBVIOUS
  <2>1. node = "repair" /\ s.execution # None
    BY OnlyRepairCalls DEF Ready, Required
  <2>. QED  BY <2>1 DEF ProducerInv, Unusable
<1>. QED  BY <1>1, <1>2, ProducerInvKept, TypeInvHolds, RepairInvHolds, PTL
          DEF Spec, ProducerFailureNotRepaired

-----------------------------------------------------------------------------
(* The history of the re-entry decisions.                                    *)
LEMMA OthersDecideNothing ==
  ASSUME TypeInv, Next, ~QaReview, ~Acceptance
  PROVE  s'.loops = s.loops
<1>0. Fielded(s) /\ "loops" \in DOMAIN s
  BY FieldNames DEF TypeInv, Typed, Fielded
<1>. USE DEF Fill, Commit
<1>1. CASE Intake \/ Classify \/ BuildContext \/ DoneContract
             \/ WorkspacePrepare \/ QaPlan \/ QaExecute
  BY <1>0, <1>1 DEF Intake, Classify, BuildContext, DoneContract,
     WorkspacePrepare, QaPlan, QaExecute
<1>2. CASE Route \/ Research \/ Observe \/ Obligations \/ Policy \/ Approval
  BY <1>0, <1>2 DEF Route, Research, Observe, Obligations, Policy, Approval
<1>3. CASE Plan
  <2>. PICK plan \in Plans, chain \in PacketChains : Plan!(plan, chain)
    BY <1>3 DEF Plan
  <2>. QED  BY <1>0 DEF StrategyCheckpoint
<1>4. CASE Execute
  BY <1>0, <1>4 DEF Execute
<1>5. CASE Review
  <2>. PICK engine \in PolicyEngines, missing \in DeliverablesMissing :
         Review!2!(engine, missing)
    BY <1>5 DEF Review
  <2>. DEFINE x == s.execution
              lifecycle ==
                Transition(engine, "execution",
                           FactsOf(s.plan, x, None, None, "absent", 0))
              kind == ReviewKind(s, x, lifecycle)
              progression ==
                IF kind = "pass" THEN Progression(s.packets, s.strategy)
                ELSE s.progression
              reviewed ==
                [s EXCEPT
                   !.review = kind,
                   !.retries = RetriesAfter(s, kind),
                   !.packets = IF kind = "agent_retry"
                               THEN SetStatus(@, s.active, "pending") ELSE @,
                   !.active = IF kind = "pass" THEN progression.next ELSE @,
                   !.progression = progression,
                   !.acceptance =
                     IF kind = "policy_violation" /\ s.contract # None
                     THEN RefusedAcceptance(lifecycle.violations) ELSE @,
                   !.status = "reviewed",
                   !.decision = ReviewDecision(kind, progression)]
              governed == kind # "pass" \/ missing \/ progression.blocked
              st == IF governed THEN StrategyCheckpoint(reviewed, "review")
                    ELSE reviewed
  <2>1. Commit(st, NextAfterReview(kind, progression))
    OBVIOUS
  <2>. HIDE DEF lifecycle, kind, progression, governed, Commit
  <2>2. st.loops = s.loops
    BY <1>0 DEF StrategyCheckpoint
  <2>. HIDE DEF st
  <2>. QED  BY <2>1, <2>2 DEF Commit
<1>6. CASE Publish \/ PostPublishVerify \/ Finalize \/ NotReady
  BY <1>0, <1>6 DEF Publish, PostPublishVerify, Finalize, NotReady
<1>7. CASE Repair
  BY <1>0, <1>7 DEF Repair, StrategyCheckpoint
<1>8. CASE CrashBeforeCall \/ CrashAfterCall \/ Resume
  BY <1>8 DEF CrashBeforeCall, CrashAfterCall, Resume
<1>. QED
  BY <1>1, <1>2, <1>3, <1>4, <1>5, <1>6, <1>7, <1>8 DEF Next, Stage

LEMMA QaReviewDecides ==
  ASSUME TypeInv, QaReview PROVE L!Decide \/ s'.loops = s.loops
<1>0. Fielded(s) /\ "loops" \in DOMAIN s
  BY FieldNames DEF TypeInv, Typed, Fielded
<1>. PICK v \in Verdicts, engine \in PolicyEngines : QaReview!2!(v, engine)
  BY DEF QaReview
<1>. DEFINE kind == QaStatus(s.execution, v, s.qaReport)
            up == engine # "unavailable"
            loop == QaLoopDecision(s, v, kind, up)
            next == NextAfterQa(kind, loop)
            recorded ==
              [s EXCEPT !.verification = v, !.qaReview = kind,
                        !.loops = Append(@, loop), !.status = "qa_reviewed",
                        !.decision = next]
            cleared == IF loop.target = "continue" THEN recorded
                       ELSE ClearForReentry(recorded, loop.target)
            governed == kind # "pass" \/ v.gap = "evidence" \/ v.checks = "failed"
            st == IF governed THEN StrategyCheckpoint(cleared, "qa_review")
                  ELSE cleared
<1>1. Commit(st, next)
  OBVIOUS
<1>2. TriggerOf(s, v) \in (TriggerSpace \ {"none"}) \cup {"none"}
  BY <1>0, TriggerTyped DEF Maybe
<1>3. \/ loop = L!ContinueDecision("qa_review")
      \/ loop = L!Evaluate(s.loops, "verify", TriggerOf(s, v), up)
  BY DEF QaLoopDecision
<1>. HIDE DEF kind, next, governed, loop
<1>4. st.loops = Append(s.loops, loop)
  BY <1>0 DEF StrategyCheckpoint, ClearForReentry, ClearedFields
<1>. HIDE DEF st
<1>5. s'.loops = Append(s.loops, loop) \/ s'.loops = s.loops
  BY <1>1, <1>4 DEF Commit
<1>. QED  BY <1>2, <1>3, <1>5 DEF L!Decide, L!Ask, L!PreferRepair

LEMMA AcceptanceDecides ==
  ASSUME TypeInv, Acceptance PROVE L!Decide \/ s'.loops = s.loops
<1>0. Fielded(s) /\ "loops" \in DOMAIN s
  BY FieldNames DEF TypeInv, Typed, Fielded
<1>. PICK engine \in PolicyEngines : Acceptance!2!(engine)
  BY DEF Acceptance
<1>. DEFINE v == s.verification
            up == engine # "unavailable"
            acceptance ==
              EvaluateAcceptance(s.contract, s.execution, v, s.publish)
            loop == L!Evaluate(s.loops, "acceptance", TriggerOf(s, v), up)
            next == NextAfterAcceptance(
                      Transition(engine, "acceptance",
                                 FactsOf(s.plan, s.execution, v, s.publish,
                                         Gate(acceptance), 0)),
                      loop)
            recorded ==
              [s EXCEPT !.acceptance = acceptance, !.loops = Append(@, loop),
                        !.status = "acceptance_evaluated", !.decision = next]
            cleared == IF loop.target = "continue" THEN recorded
                       ELSE ClearForReentry(recorded, loop.target)
            st == IF loop.target # "continue" \/ ~Accepted(acceptance)
                  THEN StrategyCheckpoint(cleared, "acceptance") ELSE cleared
<1>1. Commit(st, next)
  OBVIOUS
<1>2. TriggerOf(s, v) \in (TriggerSpace \ {"none"}) \cup {"none"}
  BY <1>0, TriggerTyped, LastFields, FieldNames DEF Fielded
<1>3. loop = L!Evaluate(s.loops, "acceptance", TriggerOf(s, v), up)
  OBVIOUS
<1>. HIDE DEF acceptance, next, loop, v
<1>4. st.loops = Append(s.loops, loop)
  BY <1>0 DEF StrategyCheckpoint, ClearForReentry, ClearedFields
<1>. HIDE DEF st
<1>5. s'.loops = Append(s.loops, loop) \/ s'.loops = s.loops
  BY <1>1, <1>4 DEF Commit
<1>. QED  BY <1>2, <1>3, <1>5 DEF L!Decide, L!Ask

(* The decisions a run takes on re-entry are those the budget module allows, *)
(* in its order and none else: whatever crashes, the history is neither lost *)
(* nor written by any other stage.                                           *)
THEOREM BudgetFollowed == Spec => FollowsLoopBudget
<1>1. Init => L!Init
  BY DEF Init, InitialState, L!Init
<1>2. TypeInv /\ [Next]_vars => [L!Decide]_(s.loops)
  <2>1. UNCHANGED vars => s'.loops = s.loops
    BY DEF vars
  <2>. QED  BY <2>1, OthersDecideNothing, QaReviewDecides, AcceptanceDecides
<1>. QED  BY <1>1, <1>2, TypeInvHolds, PTL DEF Spec, FollowsLoopBudget, L!History

(* The theorems about the budget, of the history in the state.               *)
LP == INSTANCE PipelineLoopProofs WITH
       decisions <- s.loops,
       Sources <- {"verify", "acceptance", "qa_review"},
       Triggers <- TriggerSpace \ {"none"},
       PolicyUp <- BOOLEAN,
       MaxDecisions <- 100

(* So no workflow re-enters its pipeline more often than the budget allows.  *)
THEOREM RunsKeepTheBudget == Spec => []L!ReentriesBounded
<1>1. LP!LoopAssumption
  <2>1. \A v \in Verdicts : v.trigger \in L!TriggerKinds \cup {"none"}
    BY WorkflowAssumption DEF Verifications
  <2>2. TriggerSpace \ {"none"} \subseteq L!TriggerKinds
    BY <2>1, WorkflowAssumption DEF TriggerSpace
  <2>. QED  BY <2>2, WorkflowAssumption
            DEF LP!LoopAssumption, L!TriggerKinds, LP!TriggerKinds,
                L!ObligationTriggers, L!ObserveTriggers, L!PlanTriggers,
                LP!ObligationTriggers, LP!ObserveTriggers, LP!PlanTriggers
<1>2. LP!History => []LP!ReentriesBounded
  BY <1>1, LP!BudgetAlwaysKept
<1>3. /\ L!Decide <=> LP!Decide
      /\ L!ReentriesBounded <=> LP!ReentriesBounded
  <2>1. \A prior, source, trigger, up :
          L!Evaluate(prior, source, trigger, up)
            = LP!Evaluate(prior, source, trigger, up)
    BY DEF L!Evaluate, LP!Evaluate, L!LoopDecision, LP!LoopDecision,
           L!Exhausted, LP!Exhausted, L!WithTrigger, LP!WithTrigger,
           L!WithSource, LP!WithSource, L!WithTarget, LP!WithTarget,
           L!TargetForTrigger, LP!TargetForTrigger, L!Cardinality, LP!Cardinality,
           L!ObligationTriggers, L!ObserveTriggers, L!PlanTriggers,
           LP!ObligationTriggers, LP!ObserveTriggers, LP!PlanTriggers
  <2>2. L!Decide <=> LP!Decide
    BY <2>1 DEF L!Decide, LP!Decide, L!Ask, LP!Ask, L!PreferRepair,
                LP!PreferRepair, L!ContinueDecision, LP!ContinueDecision,
                L!LoopDecision, LP!LoopDecision
  <2>3. L!ReentriesBounded <=> LP!ReentriesBounded
    BY DEF L!ReentriesBounded, LP!ReentriesBounded, L!Reentries, LP!Reentries,
           L!WithTrigger, LP!WithTrigger, L!WithSource, LP!WithSource,
           L!WithTarget, LP!WithTarget, L!ReentryStages, LP!ReentryStages,
           L!Cardinality, LP!Cardinality
  <2>. QED  BY <2>2, <2>3
<1>4. L!Init <=> LP!Init
  BY DEF L!Init, LP!Init
<1>. QED
  BY BudgetFollowed, <1>2, <1>3, <1>4, PTL
     DEF FollowsLoopBudget, L!History, LP!History
=============================================================================
