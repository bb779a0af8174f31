---------------------------- MODULE StrategyAdvice ----------------------------
(* The strategy checkpoints of a run: the rule-based governor, the advice of *)
(* the LLM, and the validator and arbitrator between them.                   *)
(*                                                                           *)
(* A checkpoint reads the latest execution, verification and acceptance of   *)
(* the run, asks the governor for a baseline and, in a mode with advice,     *)
(* awaits one call of the direct LLM (ContractCall).  The decision becomes   *)
(* the active strategy.  A text a rule searches is abstracted to what the    *)
(* search finds in it; of the evidence that is missing, what the             *)
(* verification names.                                                       *)
EXTENDS ContractCall

CONSTANTS
  None,          \* a result the run does not have
  Modes,         \* the selection modes to look at
  Tasks,         \* the tasks to look at, each the set of its traits
  MaxRepairs     \* bound: repair results of a run

StrategyIds == {"default", "mvp_first", "bdd_incremental",
                "spike_then_harden", "repair_only", "safe_refactor"}

(* "hybrid" and "llm_assisted" behave alike; "unadvised" is either of them   *)
(* without an LLM backend.                                                   *)
SelectionModes == {"rule_based", "hybrid", "unadvised"}
ASSUME ModesAssumption == Modes \subseteq SelectionModes

(* What a task is: the plan's obligations name tests; it mutates much; its   *)
(* text asks for a refactoring.                                              *)
ASSUME TasksAssumption == Tasks \subseteq SUBSET {"tests", "heavy", "refactor"}
ASSUME MaxRepairsAssumption == MaxRepairs \in Nat

(* What a blocker's text speaks of: an unknown of the environment or not.    *)
Blockers == {"none", "plain", "environment"}

Executions == [status : {"succeeded", "failed", "blocked"},
               blocker : Blockers]
Verifications == [passed : BOOLEAN, checksFailed : Blockers,
                  missing : {"none", "evidence", "testLevels"}]
Acceptances ==
  {[status |-> "accepted", blocker |-> "none"]} \union
  [status : {"rejected", "needs_environment", "needs_human_review"},
   blocker : {"plain", "environment"}]

VARIABLES
  mode, task,                            \* given for the run
  execution, verification, acceptance,   \* the latest results, or None
  repairs,                               \* the number of repair results
  step,                                  \* "working", "due" or "advising"
  active,                                \* active_strategy
  outcome                                \* the latest checkpoint

runVars == <<mode, task, execution, verification, acceptance, repairs>>
vars == <<callVars, runVars, step, active, outcome>>

(* The recommendation: a strategy of the catalog or another name, and        *)
(* whether its confidence, reason and signal names are in order.             *)
Advices == [strategy : StrategyIds \union {"unlisted"}, sound : BOOLEAN]

NoOutcome == [baseline |-> None, accepted |-> FALSE, final |-> None]

-----------------------------------------------------------------------------
(* signals_from_snapshot                                                     *)
FailureStatuses == {"failed", "error", "blocked", "needs_repair",
                    "policy_violation", "fail_code"}

ExecutionStatus == IF execution = None THEN None ELSE execution.status

VerificationStatus ==
  IF verification = None THEN None
  ELSE IF \/ ~verification.passed
          \/ verification.checksFailed # "none"
          \/ verification.missing = "evidence"
    THEN "failed" ELSE "passed"

AcceptanceStatus == IF acceptance = None THEN None ELSE acceptance.status

BlockerTexts ==
  (IF execution = None THEN {} ELSE {execution.blocker})
    \union (IF verification = None THEN {} ELSE {verification.checksFailed})
    \union (IF acceptance = None THEN {} ELSE {acceptance.blocker})

EnvironmentUnknown == "environment" \in BlockerTexts

EvidenceMissing == verification # None /\ verification.missing # "none"

RunFailed ==
  ExecutionStatus \in FailureStatuses \/ VerificationStatus \in FailureStatuses

(* Faulty: the governor takes a blocked execution for no failure.            *)
GovernUnlessBlocked ==
  IF ExecutionStatus = "failed" \/ VerificationStatus = "failed"
    THEN "repair_only"
  ELSE IF EnvironmentUnknown THEN "spike_then_harden"
  ELSE IF "tests" \in task /\ EvidenceMissing THEN "bdd_incremental"
  ELSE IF "refactor" \in task THEN "safe_refactor"
  ELSE IF "heavy" \in task /\ ExecutionStatus # "succeeded" THEN "mvp_first"
  ELSE "default"

(* StrategyGovernor._select                                                  *)
Govern ==
  IF RunFailed THEN "repair_only"
  ELSE IF AcceptanceStatus \in FailureStatuses /\ repairs > 0
    THEN "repair_only"
  ELSE IF EnvironmentUnknown THEN "spike_then_harden"
  ELSE IF "tests" \in task /\ EvidenceMissing THEN "bdd_incremental"
  ELSE IF "refactor" \in task THEN "safe_refactor"
  ELSE IF "heavy" \in task /\ ExecutionStatus # "succeeded" THEN "mvp_first"
  ELSE "default"

Rejected(strategy) == [accepted |-> FALSE, final |-> strategy]
Accepted(strategy) == [accepted |-> TRUE, final |-> strategy]

(* Faulty: the advice is checked for its form only.                          *)
ValidateForm(advice, baseline) ==
  IF advice.strategy \notin StrategyIds \/ ~advice.sound
    THEN Rejected(baseline)
    ELSE Accepted(advice.strategy)

(* StrategyDecisionValidator.validate.  Its last rule, against "default"     *)
(* after a failed verification, adds nothing to the one for a failed run.    *)
Validate(advice, baseline) ==
  IF advice.strategy \notin StrategyIds \/ ~advice.sound
    THEN Rejected(baseline)
  ELSE IF RunFailed /\ advice.strategy # "repair_only"
          /\ ~(advice.strategy = "spike_then_harden" /\ EnvironmentUnknown)
    THEN Rejected("repair_only")
  ELSE Accepted(advice.strategy)

(* LLMStrategyAdvisor.recommend answers with status success.                 *)
Advised == phase = "answered"

-----------------------------------------------------------------------------
Init ==
  /\ CallInit
  /\ mode \in Modes /\ task \in Tasks
  /\ execution = None /\ verification = None /\ acceptance = None
  /\ repairs = 0
  /\ step = "due"                 \* the checkpoint of the planning stage
  /\ active = None
  /\ outcome = NoOutcome

(* A stage of the run leaves its result, and a checkpoint when one is due.   *)
(* What the checkpoint before came from is forgotten, its strategy is not.   *)
Stage(e, v, a, r, due) ==
  /\ step = "working"
  /\ step' = IF due THEN "due" ELSE "working"
  /\ execution' = e /\ verification' = v /\ acceptance' = a /\ repairs' = r
  /\ phase' = "idle" /\ replies' = <<>> /\ attempts' = 0
  /\ rawText' = NoReply /\ record' = NoRecord /\ outcome' = NoOutcome
  /\ UNCHANGED <<mode, task, active>>

(* The planning and the repair stage record a checkpoint on being entered.   *)
Entered == Stage(execution, verification, acceptance, repairs, TRUE)

(* The review of an execution records one unless it passes, whatever the     *)
(* signals make of that execution.                                           *)
Executed ==
  \E e \in Executions, due \in BOOLEAN :
    Stage(e, verification, acceptance, repairs, due)

(* repair_node: what was judged of the workspace before no longer counts.    *)
Repaired ==
  \E e \in Executions, due \in BOOLEAN :
    /\ execution # None /\ repairs < MaxRepairs
    /\ Stage(e, None, None, repairs + 1, due)

(* qa_review_node: the verification's result, and what is wrong with it.     *)
Verified ==
  \E v \in Verifications :
    /\ execution # None
    /\ Stage(execution, v, acceptance, repairs,
             ~v.passed \/ v.checksFailed # "none" \/ v.missing # "none")

(* acceptance_node; what is accepted may still re-enter the pipeline.        *)
Judge ==
  \E a \in Acceptances, reentry \in BOOLEAN :
    /\ verification # None
    /\ Stage(execution, verification, a, repairs,
             reentry \/ a.status # "accepted")

(* The decision is persisted and becomes the active strategy.                *)
Decide(baseline, verdict) ==
  /\ step' = "working"
  /\ active' = verdict.final
  /\ outcome' = [baseline |-> baseline, accepted |-> verdict.accepted,
                 final |-> verdict.final]
  /\ UNCHANGED runVars

DecideAlone ==
  /\ step = "due" /\ mode # "hybrid"
  /\ Decide(Govern, Rejected(Govern))
  /\ UNCHANGED callVars

AskAdvice ==
  /\ step = "due" /\ mode = "hybrid"
  /\ Ask
  /\ step' = "advising"
  /\ UNCHANGED <<runVars, active, outcome>>

AwaitAdvice ==
  step = "advising" /\ Answer /\ UNCHANGED <<runVars, step, active, outcome>>

Arbitrate(advice) ==
  /\ step = "advising" /\ Advised
  /\ Decide(Govern, Validate(advice, Govern))
  /\ UNCHANGED callVars

(* Faulty: a backend that fails is asked again.                              *)
FallBackRetries ==
  /\ step = "advising" /\ phase \in {"refused", "broken"} /\ ~Advised
  /\ Ask
  /\ UNCHANGED <<runVars, step, active, outcome>>

(* A violated contract or a broken backend is no advice.                     *)
FallBack ==
  /\ step = "advising" /\ phase \in {"refused", "broken"} /\ ~Advised
  /\ Decide(Govern, Rejected(Govern))
  /\ UNCHANGED callVars

Work == Entered \/ Executed \/ Repaired \/ Verified \/ Judge
Settle == DecideAlone \/ (\E advice \in Advices : Arbitrate(advice)) \/ FallBack
Checkpoint == AskAdvice \/ AwaitAdvice \/ Settle
Next == Work \/ Checkpoint

Spec == Init /\ [][Next]_vars

(* The runtime goes on by itself; a call ends at the latest by its timeout.  *)
FairSpec == Spec /\ WF_vars(Checkpoint)

-----------------------------------------------------------------------------
(* The variables have their types.                                           *)
TypeOK ==
  /\ CallTypeOK
  /\ mode \in Modes /\ task \in Tasks
  /\ execution \in Executions \union {None}
  /\ verification \in Verifications \union {None}
  /\ acceptance \in Acceptances \union {None}
  /\ repairs \in 0 .. MaxRepairs
  /\ step \in {"working", "due", "advising"}
  /\ active \in StrategyIds \union {None}
  /\ outcome # NoOutcome => outcome.final = active

(* A checkpoint that finds the execution or the verification failed has the  *)
(* run repair, in every mode and against any advice: only an unknown of the  *)
(* environment lets a spike in.                                              *)
FailureMeansRepair ==
  outcome # NoOutcome /\ RunFailed =>
    \/ active = "repair_only"
    \/ active = "spike_then_harden" /\ EnvironmentUnknown

(* The validator and the governor agree on what a failure is: wherever       *)
(* advice is turned down, hard override included, the run has the strategy   *)
(* the rules alone would have chosen.                                        *)
RefusedAdviceChangesNothing ==
  ~outcome.accepted => outcome.final = outcome.baseline

(* The rules are left only on advice that came out of a call whose last      *)
(* reply satisfied the contract.                                             *)
AdviceIsContracted ==
  outcome.final # outcome.baseline =>
    mode = "hybrid" /\ replies # <<>> /\ replies[Len(replies)] = "valid"

(* Every checkpoint that is due is decided, whatever the backend does.       *)
CheckpointIsDecided == step = "due" ~> step = "working"

(* What the governor says of itself: acceptance that failed after a repair   *)
(* keeps the run in repair-only mode.                                        *)
RejectionAfterRepairRepairs ==
  outcome # NoOutcome /\ AcceptanceStatus = "rejected" /\ repairs > 0 =>
    outcome.baseline = "repair_only"
=============================================================================
