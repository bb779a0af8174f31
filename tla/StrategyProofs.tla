---------------------------- MODULE StrategyProofs ----------------------------
(* The checkpoints and the calls of module StrategyAdvice, for every bound   *)
(* on the repairs, every selection mode and every task.                      *)
EXTENDS StrategyAdvice, TLAPS

(* The step of a call that matters: Reply, or a new call, or none.           *)
CallStep ==
  \/ Ask
  \/ \E judgement \in Judgements : Reply(judgement)
  \/ Break
  \/ phase' = "idle" /\ replies' = <<>> /\ attempts' = 0
       /\ rawText' = NoReply /\ record' = NoRecord
  \/ UNCHANGED callVars

(* While a reply is awaited every reply so far was repaired: that is what    *)
(* ties the count of repairs to the replies.                                 *)
WaitingInv ==
  /\ replies \in Seq(Judgements)
  /\ attempts \in Nat /\ attempts <= MaxAttempts
  /\ phase = "waiting" => /\ Len(replies) = attempts
                          /\ \A i \in 1 .. Len(replies) : replies[i] = "drift"
  /\ phase = "answered" => Len(replies) > 0

CallInv ==
  WaitingInv /\ OnlyDriftIsRepaired /\ AnswerIsTheValidReply /\ RecordIsComplete

(* Every step of the run is a step of the call, or leaves it alone.          *)
LEMMA StepIsCallStep == ASSUME [Next]_vars PROVE CallStep
<1> USE DEF CallStep, callVars
<1>1. CASE Work
  BY <1>1 DEF Work, Entered, Executed, Repaired, Verified, Judge, Stage
<1>2. CASE AskAdvice
  BY <1>2 DEF AskAdvice
<1>3. CASE AwaitAdvice
  BY <1>3 DEF AwaitAdvice, Answer
<1>4. CASE Settle
  BY <1>4 DEF Settle, DecideAlone, Arbitrate, FallBack
<1>5. CASE UNCHANGED vars
  BY <1>5 DEF vars
<1> QED
  BY <1>1, <1>2, <1>3, <1>4, <1>5 DEF Next, Checkpoint

LEMMA CallStarts == ASSUME Init PROVE CallInv
  BY MaxAttemptsAssumption
  DEF Init, CallInit, CallInv, WaitingInv, OnlyDriftIsRepaired,
      AnswerIsTheValidReply, RecordIsComplete

(* A reply keeps the call's invariant, whatever it is.                       *)
LEMMA ReplyKeepsCallInv ==
  ASSUME CallInv, NEW judgement \in Judgements, Reply(judgement)
  PROVE  CallInv'
<1> DEFINE n == Len(replies)
<1> DEFINE i == Len(replies) + 1
<1> DEFINE judged == IF i = 1 THEN Judged(judgement, i)
                     ELSE JudgedRepair(judgement, i)
<1>1. /\ replies \in Seq(Judgements) /\ n \in Nat
      /\ attempts \in Nat /\ attempts <= MaxAttempts /\ MaxAttempts \in Nat
      /\ phase = "waiting" /\ n = attempts
      /\ \A k \in 1 .. n : replies[k] = "drift"
  BY MaxAttemptsAssumption DEF CallInv, WaitingInv, Reply
<1>2. /\ replies' = Append(replies, judgement)
      /\ replies' \in Seq(Judgements)
      /\ Len(replies') = i
      /\ replies'[i] = judgement
      /\ \A k \in 1 .. n : replies'[k] = "drift"
  BY <1>1 DEF Reply
<1>3. rawText' = Held(judgement, i)
  BY DEF Reply
<1>4. CASE judgement = "valid"
  <2>1. phase' = "answered" /\ record' = judged /\ attempts' = attempts
    BY <1>4 DEF Reply
  <2>2. rawText' = i
    BY <1>3, <1>4 DEF Held
  <2>3. /\ record'.of = i /\ record'.severity = "none"
        /\ record'.repaired = (i > 1)
        /\ record'.attempts = i - 1
        /\ record'.repairs = Repairs(i)
    <3>1. CASE i = 1
      <4>1. judged = [of |-> 1, severity |-> "none", repaired |-> FALSE,
                      attempts |-> 0, repairs |-> <<>>]
        BY <3>1, <1>4 DEF Judged, NoRecord
      <4>2. Repairs(1) = <<>>
        BY DEF Repairs
      <4>3. /\ record'.of = 1 /\ record'.severity = "none"
            /\ record'.attempts = 0 /\ record'.repairs = <<>>
        BY <2>1, <4>1
      <4>4. record'.repaired = FALSE
        BY <2>1, <4>1
      <4>5. (i > 1) = FALSE
        BY <3>1
      <4>6. i - 1 = 0
        BY <3>1
      <4> QED
        BY <3>1, <4>2, <4>3, <4>4, <4>5, <4>6
    <3>2. CASE i # 1
      <4>1. judged = [of |-> i, severity |-> "none", repaired |-> TRUE,
                      attempts |-> attempts, repairs |-> Repairs(i)]
        BY <3>2, <1>4 DEF JudgedRepair, Judged, NoRecord
      <4>2. /\ record'.of = i /\ record'.severity = "none"
            /\ record'.attempts = attempts /\ record'.repairs = Repairs(i)
        BY <2>1, <4>1
      <4>3. record'.repaired = TRUE
        BY <2>1, <4>1
      <4>4. (i > 1) = TRUE
        BY <1>1, <3>2
      <4>5. i - 1 = attempts
        BY <1>1
      <4> QED
        BY <4>2, <4>3, <4>4, <4>5
    <3> QED
      BY <3>1, <3>2
  <2>4. WaitingInv'
    BY <1>1, <1>2, <2>1 DEF WaitingInv
  <2>5. OnlyDriftIsRepaired'
    BY <1>1, <1>2, <2>1 DEF OnlyDriftIsRepaired
  <2>6. AnswerIsTheValidReply'
    BY <1>1, <1>2, <1>4, <2>1, <2>2, <2>3 DEF AnswerIsTheValidReply
  <2>7. RecordIsComplete'
    BY <1>1, <1>2, <2>3 DEF RecordIsComplete
  <2> QED
    BY <2>4, <2>5, <2>6, <2>7 DEF CallInv
<1>5. CASE judgement # "valid" /\ AsksAgain(judged)
  <2>1. phase' = phase /\ attempts' = attempts + 1
    BY <1>1, <1>5 DEF Reply
  <2>2. judgement = "drift"
    BY <1>1, <1>5 DEF AsksAgain, JudgedRepair, Judged, NoRecord, Judgements
  <2>3. attempts < MaxAttempts
    BY <1>5 DEF AsksAgain
  <2> QED
    BY <1>1, <1>2, <2>1, <2>2, <2>3
    DEF CallInv, WaitingInv, OnlyDriftIsRepaired, AnswerIsTheValidReply,
        RecordIsComplete
<1>6. CASE judgement # "valid" /\ ~AsksAgain(judged)
  <2>1. phase' = "refused" /\ attempts' = attempts
          /\ record' = Closed(judged, i)
    BY <1>1, <1>6 DEF Reply
  <2>2. /\ record'.of = i /\ record'.attempts = attempts
        /\ record'.repairs = Repairs(i)
    BY <2>1 DEF Closed, JudgedRepair, Judged, NoRecord
  <2> QED
    BY <1>1, <1>2, <2>1, <2>2
    DEF CallInv, WaitingInv, OnlyDriftIsRepaired, AnswerIsTheValidReply,
        RecordIsComplete
<1> QED
  BY <1>4, <1>5, <1>6

LEMMA CallInvKept == ASSUME CallInv, [Next]_vars PROVE CallInv'
<1> USE DEF CallInv, WaitingInv, OnlyDriftIsRepaired, AnswerIsTheValidReply,
            RecordIsComplete
<1>1. CASE Ask
  BY <1>1, MaxAttemptsAssumption DEF Ask
<1>2. CASE \E judgement \in Judgements : Reply(judgement)
  BY <1>2, ReplyKeepsCallInv
<1>3. CASE Break
  BY <1>3 DEF Break
<1>4. CASE phase' = "idle" /\ replies' = <<>> /\ attempts' = 0
             /\ rawText' = NoReply /\ record' = NoRecord
  BY <1>4, MaxAttemptsAssumption
<1>5. CASE UNCHANGED callVars
  BY <1>5 DEF callVars
<1> QED
  BY <1>1, <1>2, <1>3, <1>4, <1>5, StepIsCallStep DEF CallStep

(* No reply without JSON is ever repaired, and a call asks its endpoint at   *)
(* most once more than it may repair, for every bound on the repairs.        *)
THEOREM CallsAreBounded == Spec => []OnlyDriftIsRepaired
<1>1. CallInv => OnlyDriftIsRepaired
  BY DEF CallInv
<1> QED
  BY CallStarts, CallInvKept, <1>1, PTL DEF Spec

(* The raw text of an answer is the reply that satisfied the contract.       *)
THEOREM AnswersAreValid == Spec => []AnswerIsTheValidReply
<1>1. CallInv => AnswerIsTheValidReply
  BY DEF CallInv
<1> QED
  BY CallStarts, CallInvKept, <1>1, PTL DEF Spec

(* The record of a call that ended with a verdict counts every repair.       *)
THEOREM RecordsAreComplete == Spec => []RecordIsComplete
<1>1. CallInv => RecordIsComplete
  BY DEF CallInv
<1> QED
  BY CallStarts, CallInvKept, <1>1, PTL DEF Spec

(* The failed run has its rule in the governor and in the validator: either  *)
(* way it repairs, or spikes on an unknown of the environment.               *)
LEMMA VerdictOnFailure ==
  ASSUME NEW advice \in Advices, RunFailed
  PROVE  LET verdict == Validate(advice, Govern)
         IN  /\ Govern = "repair_only"
             /\ \/ verdict.final = "repair_only"
                \/ verdict.final = "spike_then_harden" /\ EnvironmentUnknown
<1>1. Govern = "repair_only"
  BY DEF Govern
<1>2. \/ Validate(advice, Govern) = Rejected("repair_only")
      \/ Validate(advice, Govern) = Accepted("repair_only")
      \/ /\ Validate(advice, Govern) = Accepted("spike_then_harden")
         /\ EnvironmentUnknown
  BY <1>1 DEF Validate
<1> QED
  BY <1>1, <1>2 DEF Rejected, Accepted

(* Advice that is turned down leaves the governor's own choice.              *)
LEMMA VerdictOnRefusal ==
  ASSUME NEW advice \in Advices, ~Validate(advice, Govern).accepted
  PROVE  Validate(advice, Govern).final = Govern
<1>1. CASE Validate(advice, Govern) = Rejected(Govern)
  BY <1>1 DEF Rejected
<1>2. CASE Validate(advice, Govern) = Rejected("repair_only") /\ RunFailed
  BY <1>2 DEF Rejected, Govern
<1>3. CASE Validate(advice, Govern) = Accepted(advice.strategy)
  BY <1>3 DEF Accepted
<1> QED
  BY <1>1, <1>2, <1>3 DEF Validate

(* A step settles the checkpoint, forgets the one before, or leaves the run  *)
(* and its outcome alone.                                                    *)
LEMMA StepOfStrategy ==
  ASSUME [Next]_vars
  PROVE  \/ step = "working" /\ outcome' = NoOutcome /\ step' # "advising"
              /\ UNCHANGED mode
         \/ Settle
         \/ AskAdvice
         \/ AwaitAdvice
         \/ UNCHANGED vars
<1>1. CASE Work
  BY <1>1 DEF Work, Entered, Executed, Repaired, Verified, Judge, Stage
<1> QED
  BY <1>1 DEF Next, Checkpoint

(* Under every mode, task and advice a checkpoint on a failed run repairs.   *)
THEOREM FailuresRepair == Spec => []FailureMeansRepair
<1>1. Init => FailureMeansRepair
  BY DEF Init, FailureMeansRepair
<1>2. ASSUME FailureMeansRepair, [Next]_vars PROVE FailureMeansRepair'
  <2> DEFINE kept == /\ UNCHANGED runVars
                     /\ RunFailed' = RunFailed
                     /\ EnvironmentUnknown' = EnvironmentUnknown
  <2>1. UNCHANGED runVars => kept
    BY DEF runVars, RunFailed, EnvironmentUnknown, BlockerTexts,
           ExecutionStatus, VerificationStatus
  <2>2. CASE DecideAlone \/ FallBack
    <3>1. active' = Govern /\ kept
      BY <2>1, <2>2 DEF DecideAlone, FallBack, Decide, Rejected
    <3> QED
      BY <3>1 DEF FailureMeansRepair, Govern
  <2>3. CASE \E advice \in Advices : Arbitrate(advice)
    <3>1. PICK advice \in Advices : Arbitrate(advice)
      BY <2>3
    <3>2. active' = Validate(advice, Govern).final /\ kept
      BY <2>1, <3>1 DEF Arbitrate, Decide
    <3> QED
      BY <3>2, VerdictOnFailure DEF FailureMeansRepair
  <2>4. CASE outcome' = NoOutcome
    BY <2>4 DEF FailureMeansRepair
  <2>5. CASE AskAdvice \/ AwaitAdvice \/ UNCHANGED vars
    <3>1. kept /\ active' = active /\ outcome' = outcome
      BY <2>1, <2>5 DEF AskAdvice, AwaitAdvice, vars
    <3> QED
      BY <1>2, <3>1 DEF FailureMeansRepair
  <2> QED
    BY <1>2, <2>2, <2>3, <2>4, <2>5, StepOfStrategy DEF Settle
<1> QED
  BY <1>1, <1>2, PTL DEF Spec

(* The validator's hard override and the governor never part ways: refused   *)
(* advice leaves the run with the strategy the rules chose.                  *)
THEOREM RefusalsChangeNothing == Spec => []RefusedAdviceChangesNothing
<1>1. Init => RefusedAdviceChangesNothing
  BY DEF Init, RefusedAdviceChangesNothing, NoOutcome
<1>2. ASSUME RefusedAdviceChangesNothing, [Next]_vars
      PROVE  RefusedAdviceChangesNothing'
  <2>1. CASE DecideAlone \/ FallBack
    BY <2>1 DEF DecideAlone, FallBack, Decide, Rejected,
                RefusedAdviceChangesNothing
  <2>2. CASE \E advice \in Advices : Arbitrate(advice)
    <3>1. PICK advice \in Advices : Arbitrate(advice)
      BY <2>2
    <3>2. /\ outcome'.accepted = Validate(advice, Govern).accepted
          /\ outcome'.final = Validate(advice, Govern).final
          /\ outcome'.baseline = Govern
      BY <3>1 DEF Arbitrate, Decide
    <3> QED
      BY <3>2, VerdictOnRefusal DEF RefusedAdviceChangesNothing
  <2>3. CASE outcome' = NoOutcome
    BY <2>3 DEF RefusedAdviceChangesNothing, NoOutcome
  <2>4. CASE UNCHANGED outcome
    BY <1>2, <2>4 DEF RefusedAdviceChangesNothing
  <2> QED
    BY <1>2, <2>1, <2>2, <2>3, <2>4, StepOfStrategy
    DEF Settle, AskAdvice, AwaitAdvice, vars
<1> QED
  BY <1>1, <1>2, PTL DEF Spec

(* While a checkpoint is open it has no outcome yet, and only a mode with    *)
(* advice awaits any.                                                        *)
AdviceInv ==
  /\ step # "working" => outcome = NoOutcome
  /\ step = "advising" => mode = "hybrid"
  /\ AdviceIsContracted

(* The rules are left only on a reply the contract accepted.                 *)
THEOREM AdviceIsAlwaysContracted == Spec => []AdviceIsContracted
<1>1. Init => AdviceInv
  BY DEF Init, AdviceInv, AdviceIsContracted, NoOutcome
<1>2. ASSUME AdviceInv, CallInv, [Next]_vars PROVE AdviceInv'
  <2>1. CASE DecideAlone \/ FallBack
    BY <2>1 DEF DecideAlone, FallBack, Decide, Rejected, AdviceInv,
                AdviceIsContracted
  <2>2. CASE \E advice \in Advices : Arbitrate(advice)
    <3>1. /\ step' = "working" /\ UNCHANGED <<mode, replies>>
          /\ step = "advising" /\ phase = "answered"
      BY <2>2 DEF Arbitrate, Decide, Advised, runVars, callVars
    <3>2. mode = "hybrid"
      BY <1>2, <3>1 DEF AdviceInv
    <3>3. replies # <<>> /\ replies[Len(replies)] = "valid"
      BY <1>2, <3>1 DEF CallInv, WaitingInv, AnswerIsTheValidReply
    <3> QED
      BY <3>1, <3>2, <3>3 DEF AdviceInv, AdviceIsContracted
  <2>3. CASE outcome' = NoOutcome /\ step' # "advising"
    BY <2>3 DEF AdviceInv, AdviceIsContracted, NoOutcome
  <2>4. CASE AskAdvice \/ AwaitAdvice
    <3>1. outcome' = NoOutcome /\ mode' = mode /\ mode = "hybrid"
      BY <1>2, <2>4 DEF AskAdvice, AwaitAdvice, AdviceInv, runVars
    <3> QED
      BY <3>1 DEF AdviceInv, AdviceIsContracted, NoOutcome
  <2>5. CASE UNCHANGED vars
    BY <1>2, <2>5 DEF vars, callVars, runVars, AdviceInv, AdviceIsContracted
  <2> QED
    BY <1>2, <2>1, <2>2, <2>3, <2>4, <2>5, StepOfStrategy DEF Settle
<1>3. AdviceInv => AdviceIsContracted
  BY DEF AdviceInv
<1> QED
  BY <1>1, <1>2, <1>3, CallStarts, CallInvKept, PTL DEF Spec

-----------------------------------------------------------------------------
(* The types of the call and of the run.                                     *)
LEMMA RepairsTyped == ASSUME NEW n \in Nat \ {0} PROVE Repairs(n) \in Seq(Nat)
<1>1. Repairs(n) \in [1 .. n - 1 -> Nat] /\ n - 1 \in Nat
  BY DEF Repairs
<1> QED
  BY <1>1

LEMMA NoRecordTyped == NoRecord \in Records
BY DEF NoRecord, NoReply, Records

LEMMA JudgedTyped ==
  ASSUME NEW judgement \in Judgements, NEW i \in Nat \ {0}, attempts \in Nat
  PROVE  /\ Judged(judgement, i) \in Records
         /\ JudgedRepair(judgement, i) \in Records
<1>1. Judged(judgement, i) \in Records
  BY NoRecordTyped DEF Judged, Records
<1>2. Repairs(i) \in Seq(Nat)
  BY RepairsTyped
<1>3. JudgedRepair(judgement, i) \in Records
  BY <1>1, <1>2 DEF JudgedRepair, Records
<1> QED
  BY <1>1, <1>3

LEMMA ReplyTyped ==
  ASSUME CallTypeOK, NEW judgement \in Judgements, Reply(judgement)
  PROVE  CallTypeOK'
<1> DEFINE i == Len(replies) + 1
<1> DEFINE judged == IF i = 1 THEN Judged(judgement, i)
                     ELSE JudgedRepair(judgement, i)
<1>1. /\ i \in Nat \ {0} /\ attempts \in Nat /\ MaxAttempts \in Nat
      /\ replies' \in Seq(Judgements) /\ Len(replies') = i
  BY MaxAttemptsAssumption DEF Reply, CallTypeOK
<1>2. judged \in Records /\ Repairs(i) \in Seq(Nat)
  BY <1>1, JudgedTyped, RepairsTyped
<1>3. Closed(judged, i) \in Records
  BY <1>1, <1>2 DEF Closed, Records
<1>4. record' \in {judged, Closed(judged, i)}
  BY DEF Reply
<1>5. rawText' \in 0 .. Len(replies')
  BY <1>1 DEF Reply, Held, CallTypeOK
<1>6. attempts' \in 0 .. MaxAttempts /\ phase' \in Phases
  <2>1. /\ attempts' \in {attempts, attempts + 1}
        /\ attempts' = attempts + 1 => attempts < MaxAttempts
    BY <1>1 DEF Reply, AsksAgain
  <2>2. phase' \in {"answered", "refused", phase}
    BY DEF Reply
  <2> QED
    BY <1>1, <2>1, <2>2 DEF CallTypeOK, Phases, NotAsking
<1> QED
  BY <1>1, <1>2, <1>3, <1>4, <1>5, <1>6 DEF CallTypeOK

LEMMA IdleTyped ==
  ASSUME phase \in {"idle", "waiting"}, replies = <<>>, attempts = 0,
         rawText = NoReply, record = NoRecord
  PROVE  CallTypeOK
BY NoRecordTyped, MaxAttemptsAssumption DEF CallTypeOK, Phases, NotAsking, NoReply

LEMMA CallTypesKept ==
  ASSUME CallTypeOK, [Next]_vars PROVE CallTypeOK'
<1>1. CASE \E judgement \in Judgements : Reply(judgement)
  BY <1>1, ReplyTyped
<1>2. CASE Ask
  <2>1. /\ phase' \in {"idle", "waiting"} /\ replies' = <<>> /\ attempts' = 0
        /\ rawText' = NoReply /\ record' = NoRecord
    BY <1>2 DEF Ask
  <2> QED
    BY <2>1, NoRecordTyped, MaxAttemptsAssumption
    DEF CallTypeOK, Phases, NotAsking, NoReply
<1>3. CASE Break
  BY <1>3 DEF Break, CallTypeOK, Phases, NotAsking
<1>4. CASE phase' = "idle" /\ replies' = <<>> /\ attempts' = 0
             /\ rawText' = NoReply /\ record' = NoRecord
  BY <1>4, NoRecordTyped, MaxAttemptsAssumption
  DEF CallTypeOK, Phases, NotAsking, NoReply
<1>5. CASE UNCHANGED callVars
  BY <1>5 DEF callVars, CallTypeOK
<1> QED
  BY <1>1, <1>2, <1>3, <1>4, <1>5, StepIsCallStep DEF CallStep

(* Every decision is a strategy of the catalog: what advice names outside of *)
(* it is turned down.                                                        *)
LEMMA FinalListed ==
  ASSUME NEW advice \in Advices
  PROVE  /\ Govern \in StrategyIds
         /\ Validate(advice, Govern).final \in StrategyIds
         /\ Rejected(Govern).final \in StrategyIds
<1>1. Govern \in StrategyIds
  BY DEF Govern, StrategyIds
<1>2. Validate(advice, Govern).final \in {Govern, "repair_only", advice.strategy}
  BY DEF Validate, Rejected, Accepted
<1>3. Validate(advice, Govern).final = advice.strategy
        => advice.strategy \in StrategyIds
  BY <1>1 DEF Validate, Rejected, Accepted, StrategyIds
<1> QED
  BY <1>1, <1>2, <1>3 DEF Rejected, StrategyIds

(* The run outside of its call.                                              *)
RunTypeOK ==
  /\ mode \in Modes /\ task \in Tasks
  /\ execution \in Executions \union {None}
  /\ verification \in Verifications \union {None}
  /\ acceptance \in Acceptances \union {None}
  /\ repairs \in 0 .. MaxRepairs
  /\ step \in {"working", "due", "advising"}
  /\ active \in StrategyIds \union {None}
  /\ outcome # NoOutcome => outcome.final = active

LEMMA RunTypesKept == ASSUME RunTypeOK, [Next]_vars PROVE RunTypeOK'
<1> USE MaxRepairsAssumption
<1>1. CASE Entered \/ Executed \/ Verified \/ Judge
  BY <1>1 DEF Entered, Executed, Verified, Judge, Stage, RunTypeOK
<1>2. CASE Repaired
  BY <1>2 DEF Repaired, Stage, RunTypeOK
<1>3. CASE DecideAlone \/ FallBack
  <2>1. PICK advice \in Advices : TRUE
    <3>1. [strategy |-> "default", sound |-> TRUE] \in Advices
      BY DEF Advices, StrategyIds
    <3> QED
      BY <3>1
  <2>2. Decide(Govern, Rejected(Govern))
    BY <1>3 DEF DecideAlone, FallBack
  <2> QED
    BY <2>1, <2>2, FinalListed DEF Decide, RunTypeOK, runVars
<1>4. CASE \E advice \in Advices : Arbitrate(advice)
  <2>1. PICK advice \in Advices : Decide(Govern, Validate(advice, Govern))
    BY <1>4 DEF Arbitrate
  <2> QED
    BY <2>1, FinalListed DEF Decide, RunTypeOK, runVars
<1>5. CASE AskAdvice \/ AwaitAdvice
  BY <1>5 DEF AskAdvice, AwaitAdvice, RunTypeOK, runVars
<1>6. CASE UNCHANGED vars
  BY <1>6 DEF vars, runVars, RunTypeOK
<1> QED
  BY <1>1, <1>2, <1>3, <1>4, <1>5, <1>6 DEF Next, Work, Checkpoint, Settle

(* The variables keep their types, and the active strategy is always one of  *)
(* the catalog and the one of the latest decision.                           *)
THEOREM TypesKept == Spec => []TypeOK
<1>1. Init => CallTypeOK /\ RunTypeOK
  <2>1. Init => CallTypeOK
    BY IdleTyped DEF Init, CallInit
  <2>2. Init => RunTypeOK
    BY MaxRepairsAssumption DEF Init, RunTypeOK
  <2> QED
    BY <2>1, <2>2
<1>2. CallTypeOK /\ RunTypeOK /\ [Next]_vars => (CallTypeOK /\ RunTypeOK)'
  BY CallTypesKept, RunTypesKept
<1>3. CallTypeOK /\ RunTypeOK => TypeOK
  BY DEF TypeOK, RunTypeOK
<1> QED
  BY <1>1, <1>2, <1>3, PTL DEF Spec
=============================================================================
