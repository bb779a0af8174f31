-------------------------- MODULE PipelineLoopProofs --------------------------
(* The re-entry budget is kept, for every budget, set of stages and length   *)
(* of the history.                                                           *)
EXTENDS PipelineLoop, FiniteSetTheorems, TLAPS

(* One more element than a set below the limit is within the limit.          *)
LEMMA OneMore ==
  ASSUME NEW S, IsFiniteSet(S), NEW x, NEW T \in SUBSET (S \cup {x}),
         NEW limit \in Nat, Cardinality(S) < limit
  PROVE  Cardinality(T) <= limit
<1>1. Cardinality(S) \in Nat
  BY FS_CardinalityType
<1>2. /\ IsFiniteSet(S \cup {x})
      /\ Cardinality(S \cup {x}) =
           IF x \in S THEN Cardinality(S) ELSE Cardinality(S) + 1
  BY FS_AddElement
<1>3. IsFiniteSet(T) /\ Cardinality(T) <= Cardinality(S \cup {x})
  BY <1>2, FS_Subset
<1>4. Cardinality(T) \in Nat
  BY <1>3, FS_CardinalityType
<1>. QED  BY <1>1, <1>2, <1>3, <1>4

(* Every step adds one decision, and re-enters only within the budget.       *)
Granted(d) ==
  d.target \in ReentryStages =>
    /\ d.trigger \in Triggers
    /\ d.target = TargetForTrigger(d.trigger)
    /\ ~Exhausted(decisions, d.source, d.trigger)

LEMMA StepAddsDecision ==
  ASSUME Decide
  PROVE  \E d \in LoopDecisions :
           decisions' = Append(decisions, d) /\ Granted(d)
<1>1. ASSUME NEW source \in Sources, NEW trigger \in Triggers \cup {"none"},
             NEW up \in PolicyUp, Ask(source, trigger, up)
      PROVE  \E d \in LoopDecisions :
               decisions' = Append(decisions, d) /\ Granted(d)
  <2>. DEFINE d == Evaluate(decisions, source, trigger, up)
  <2>1. TargetForTrigger(trigger) \in Targets
    BY DEF TargetForTrigger, Targets, ReentryStages
  <2>2. d \in LoopDecisions
    BY <2>1 DEF Evaluate, LoopDecision, LoopDecisions, Targets
  <2>3. Granted(d)
    BY DEF Granted, Evaluate, LoopDecision, ReentryStages
  <2>. QED  BY <1>1, <2>2, <2>3 DEF Ask
<1>2. ASSUME NEW source \in Sources, PreferRepair(source)
      PROVE  \E d \in LoopDecisions :
               decisions' = Append(decisions, d) /\ Granted(d)
  <2>1. ContinueDecision(source) \in LoopDecisions
    BY DEF ContinueDecision, LoopDecision, LoopDecisions, Targets
  <2>2. Granted(ContinueDecision(source))
    BY DEF Granted, ContinueDecision, LoopDecision, ReentryStages
  <2>. QED  BY <1>2, <2>1, <2>2 DEF PreferRepair
<1>. QED  BY <1>1, <1>2 DEF Decide

-----------------------------------------------------------------------------
(* The history is a sequence of well-formed decisions.                       *)
THEOREM TypeCorrect == History => []TypeOK
<1>1. Init => TypeOK
  BY DEF Init, TypeOK
<1>2. TypeOK /\ [Decide]_decisions => TypeOK'
  <2>1. ASSUME TypeOK, Decide PROVE TypeOK'
    BY <2>1, StepAddsDecision DEF TypeOK
  <2>. QED  BY <2>1 DEF TypeOK
<1>. QED  BY <1>1, <1>2, PTL DEF History

(* What model checking follows, up to a bound, is such a history: whatever   *)
(* holds of every history holds of it.                                       *)
THEOREM CheckedIsHistory == Spec => History
<1>1. [Next]_decisions => [Decide]_decisions
  BY DEF Next
<1>. QED  BY <1>1, PTL DEF Spec, History

(* Once the history is as long as the global limit nothing re-enters.        *)
THEOREM ReentriesAlwaysEarly == History => []ReentriesAreEarly
<1>1. Init => ReentriesAreEarly
  BY DEF Init, ReentriesAreEarly, Reentries
<1>2. TypeOK /\ ReentriesAreEarly /\ [Decide]_decisions => ReentriesAreEarly'
  <2>1. ASSUME TypeOK, ReentriesAreEarly, Decide PROVE ReentriesAreEarly'
    <3>1. PICK d \in LoopDecisions :
            decisions' = Append(decisions, d) /\ Granted(d)
      BY <2>1, StepAddsDecision
    <3>2. d.target \in ReentryStages => Len(decisions) < GlobalLimit
      BY <2>1, <3>1, LoopAssumption DEF Granted, Exhausted, TypeOK
    <3>. QED
      BY <2>1, <3>1, <3>2, LoopAssumption
         DEF ReentriesAreEarly, Reentries, TypeOK
  <2>. QED  BY <2>1 DEF ReentriesAreEarly, Reentries
<1>. QED  BY <1>1, <1>2, TypeCorrect, PTL DEF History

-----------------------------------------------------------------------------
(* What an appended decision does to the sets the budget counts.             *)
LEMMA Counted ==
  ASSUME TypeOK, NEW d \in LoopDecisions, decisions' = Append(decisions, d),
         NEW v
  PROVE  /\ WithTrigger(decisions', v) \subseteq
              WithTrigger(decisions, v) \cup {Len(decisions) + 1}
         /\ WithSource(decisions', v) \subseteq
              WithSource(decisions, v) \cup {Len(decisions) + 1}
         /\ WithTarget(decisions', v) \subseteq
              WithTarget(decisions, v) \cup {Len(decisions) + 1}
         /\ d.trigger # v => WithTrigger(decisions', v) = WithTrigger(decisions, v)
         /\ d.source # v => WithSource(decisions', v) = WithSource(decisions, v)
         /\ d.target # v => WithTarget(decisions', v) = WithTarget(decisions, v)
         /\ WithTrigger(decisions, v) \subseteq WithTrigger(decisions', v)
         /\ WithSource(decisions, v) \subseteq WithSource(decisions', v)
         /\ WithTarget(decisions, v) \subseteq WithTarget(decisions', v)
<1>1. /\ Len(decisions) \in Nat
      /\ DOMAIN decisions = 1..Len(decisions)
      /\ DOMAIN decisions' = 1..(Len(decisions) + 1)
      /\ \A i \in DOMAIN decisions : decisions'[i] = decisions[i]
      /\ decisions'[Len(decisions) + 1] = d
  BY DEF TypeOK
<1>2. DOMAIN decisions' = DOMAIN decisions \cup {Len(decisions) + 1}
  BY <1>1
<1>3. /\ WithTrigger(decisions', v) \subseteq
           WithTrigger(decisions, v) \cup {Len(decisions) + 1}
      /\ d.trigger # v => WithTrigger(decisions', v) = WithTrigger(decisions, v)
      /\ WithTrigger(decisions, v) \subseteq WithTrigger(decisions', v)
  BY <1>1, <1>2 DEF WithTrigger
<1>4. /\ WithSource(decisions', v) \subseteq
           WithSource(decisions, v) \cup {Len(decisions) + 1}
      /\ d.source # v => WithSource(decisions', v) = WithSource(decisions, v)
      /\ WithSource(decisions, v) \subseteq WithSource(decisions', v)
  BY <1>1, <1>2 DEF WithSource
<1>5. /\ WithTarget(decisions', v) \subseteq
           WithTarget(decisions, v) \cup {Len(decisions) + 1}
      /\ d.target # v => WithTarget(decisions', v) = WithTarget(decisions, v)
      /\ WithTarget(decisions, v) \subseteq WithTarget(decisions', v)
  BY <1>1, <1>2 DEF WithTarget
<1>. QED  BY <1>3, <1>4, <1>5

LEMMA CountedSetsFinite ==
  ASSUME TypeOK, NEW v
  PROVE  /\ IsFiniteSet(Reentries)
         /\ IsFiniteSet(WithTrigger(decisions, v))
         /\ IsFiniteSet(WithSource(decisions, v))
         /\ IsFiniteSet(WithTarget(decisions, v))
<1>1. IsFiniteSet(DOMAIN decisions)
  BY FS_Interval DEF TypeOK
<1>. QED
  BY <1>1, FS_Subset DEF Reentries, WithTrigger, WithSource, WithTarget

-----------------------------------------------------------------------------
(* No budget is exceeded: not over all re-entries, nor for one trigger, one  *)
(* source stage or one target.  A decision that re-enters saw every count    *)
(* below its limit and adds one; a decision that does not re-enter adds      *)
(* nothing to the counts.                                                    *)
THEOREM BudgetAlwaysKept == History => []ReentriesBounded
<1>. DEFINE PerTrigger ==
              \A t \in Triggers :
                Cardinality(Reentries \cap WithTrigger(decisions, t))
                  <= PerTriggerLimit
            PerSource ==
              \A src \in Sources :
                Cardinality(Reentries \cap WithSource(decisions, src))
                  <= PerSourceLimit
            PerTarget ==
              \A tgt \in ReentryStages :
                Cardinality(WithTarget(decisions, tgt)) <= PerTargetLimit
<1>1. Init => PerTrigger /\ PerSource /\ PerTarget
  <2>1. Init => /\ Reentries = {}
                /\ \A v : WithTarget(decisions, v) = {}
    BY DEF Init, Reentries, WithTarget
  <2>. QED  BY <2>1, FS_EmptySet, LoopAssumption
<1>2. TypeOK /\ PerTrigger /\ PerSource /\ PerTarget /\ [Decide]_decisions
        => (PerTrigger /\ PerSource /\ PerTarget)'
  <2>. SUFFICES ASSUME TypeOK, PerTrigger, PerSource, PerTarget, Decide
                PROVE  PerTrigger' /\ PerSource' /\ PerTarget'
    BY DEF Reentries
  <2>. DEFINE new == Len(decisions) + 1
  <2>1. PICK d \in LoopDecisions :
          decisions' = Append(decisions, d) /\ Granted(d)
    BY StepAddsDecision
  <2>2. /\ Reentries' \subseteq Reentries \cup {new}
        /\ d.target \notin ReentryStages => Reentries' = Reentries
        /\ new \notin DOMAIN decisions
    BY <2>1 DEF Reentries, TypeOK
  <2>3. \A v : Reentries' \cap WithTrigger(decisions', v) \subseteq
               WithTrigger(decisions, v) \cup {new}
    BY <2>1, Counted
  <2>4. \A v : Reentries' \cap WithSource(decisions', v) \subseteq
               WithSource(decisions, v) \cup {new}
    BY <2>1, Counted
  <2>5. CASE d.target \in ReentryStages
    <3>1. /\ Cardinality(WithTrigger(decisions, d.trigger)) < PerTriggerLimit
          /\ Cardinality(WithSource(decisions, d.source)) < PerSourceLimit
          /\ Cardinality(WithTarget(decisions, d.target)) < PerTargetLimit
      <4>1. /\ IsFiniteSet(WithTrigger(decisions, d.trigger))
            /\ IsFiniteSet(WithSource(decisions, d.source))
            /\ IsFiniteSet(WithTarget(decisions, d.target))
        BY CountedSetsFinite
      <4>2. /\ Cardinality(WithTrigger(decisions, d.trigger)) \in Nat
            /\ Cardinality(WithSource(decisions, d.source)) \in Nat
            /\ Cardinality(WithTarget(decisions, d.target)) \in Nat
        BY <4>1, FS_CardinalityType
      <4>. QED  BY <2>1, <2>5, <4>2, LoopAssumption DEF Granted, Exhausted
    <3>2. ASSUME NEW t \in Triggers
          PROVE  Cardinality(Reentries' \cap WithTrigger(decisions', t))
                   <= PerTriggerLimit
      <4>1. CASE t = d.trigger
        BY <2>3, <3>1, <4>1, OneMore, CountedSetsFinite, LoopAssumption
      <4>2. CASE t # d.trigger
        <5>1. WithTrigger(decisions', t) = WithTrigger(decisions, t)
          BY <2>1, <4>2, Counted
        <5>2. Reentries' \cap WithTrigger(decisions', t)
                = Reentries \cap WithTrigger(decisions, t)
          BY <2>1, <2>2, <5>1 DEF WithTrigger, Reentries, TypeOK
        <5>. QED  BY <5>2
      <4>. QED  BY <4>1, <4>2
    <3>3. ASSUME NEW src \in Sources
          PROVE  Cardinality(Reentries' \cap WithSource(decisions', src))
                   <= PerSourceLimit
      <4>1. CASE src = d.source
        BY <2>4, <3>1, <4>1, OneMore, CountedSetsFinite, LoopAssumption
      <4>2. CASE src # d.source
        <5>1. WithSource(decisions', src) = WithSource(decisions, src)
          BY <2>1, <4>2, Counted
        <5>2. Reentries' \cap WithSource(decisions', src)
                = Reentries \cap WithSource(decisions, src)
          BY <2>1, <2>2, <5>1 DEF WithSource, Reentries, TypeOK
        <5>. QED  BY <5>2
      <4>. QED  BY <4>1, <4>2
    <3>4. ASSUME NEW tgt \in ReentryStages
          PROVE  Cardinality(WithTarget(decisions', tgt)) <= PerTargetLimit
      <4>1. CASE tgt = d.target
        <5>1. WithTarget(decisions', tgt) \subseteq
                WithTarget(decisions, tgt) \cup {new}
          BY <2>1, Counted
        <5>. QED
          BY <3>1, <4>1, <5>1, OneMore, CountedSetsFinite, LoopAssumption
      <4>2. CASE tgt # d.target
        <5>1. WithTarget(decisions', tgt) = WithTarget(decisions, tgt)
          BY <2>1, <4>2, Counted
        <5>. QED  BY <5>1
      <4>. QED  BY <4>1, <4>2
    <3>. QED  BY <3>2, <3>3, <3>4
  <2>6. CASE d.target \notin ReentryStages
    <3>1. \A v : /\ Reentries' \cap WithTrigger(decisions', v)
                      = Reentries \cap WithTrigger(decisions, v)
                 /\ Reentries' \cap WithSource(decisions', v)
                      = Reentries \cap WithSource(decisions, v)
      BY <2>1, <2>2, <2>6 DEF WithTrigger, WithSource, Reentries, TypeOK
    <3>2. \A tgt \in ReentryStages :
            WithTarget(decisions', tgt) = WithTarget(decisions, tgt)
      BY <2>1, <2>6, Counted
    <3>. QED  BY <3>1, <3>2
  <2>. QED  BY <2>5, <2>6
<1>3. TypeOK /\ ReentriesAreEarly => Cardinality(Reentries) <= GlobalLimit
  <2>. SUFFICES ASSUME TypeOK, ReentriesAreEarly
                PROVE  Cardinality(Reentries) <= GlobalLimit
    OBVIOUS
  <2>1. Reentries \subseteq 1..GlobalLimit
    BY LoopAssumption DEF Reentries, ReentriesAreEarly, TypeOK
  <2>2. IsFiniteSet(1..GlobalLimit) /\ Cardinality(1..GlobalLimit) = GlobalLimit
    BY FS_Interval, LoopAssumption
  <2>. QED  BY <2>1, <2>2, FS_Subset
<1>4. PerTrigger /\ PerSource /\ PerTarget /\ Cardinality(Reentries) <= GlobalLimit
        => ReentriesBounded
  BY DEF ReentriesBounded
<1>. QED
  BY <1>1, <1>2, <1>3, <1>4, TypeCorrect, ReentriesAlwaysEarly, PTL DEF History

-----------------------------------------------------------------------------
(* What was denied while the policy engine answered was denied by the        *)
(* budget, and an exhausted budget stays exhausted: the counts only grow.    *)
DenialsExhausted ==
  \A i \in DOMAIN decisions :
    decisions[i].target = "finalize" =>
      Exhausted(decisions, decisions[i].source, decisions[i].trigger)

LEMMA ExhaustedStays ==
  ASSUME TypeOK, NEW d \in LoopDecisions, decisions' = Append(decisions, d),
         NEW source, NEW trigger, Exhausted(decisions, source, trigger)
  PROVE  Exhausted(decisions', source, trigger)
<1>1. TypeOK'
  BY DEF TypeOK
<1>2. ASSUME NEW S, NEW T, S \subseteq T, IsFiniteSet(T), NEW n \in Nat,
             Cardinality(S) >= n
      PROVE  Cardinality(T) >= n
  <2>1. IsFiniteSet(S) /\ Cardinality(S) <= Cardinality(T)
    BY <1>2, FS_Subset
  <2>. QED  BY <1>2, <2>1, FS_CardinalityType
<1>3. \A v : /\ IsFiniteSet(WithTrigger(decisions', v))
             /\ IsFiniteSet(WithSource(decisions', v))
             /\ IsFiniteSet(WithTarget(decisions', v))
  <2>1. IsFiniteSet(DOMAIN decisions')
    BY <1>1, FS_Interval DEF TypeOK
  <2>. QED  BY <2>1, FS_Subset DEF WithTrigger, WithSource, WithTarget
<1>4. CASE Len(decisions) >= GlobalLimit
  BY <1>4, LoopAssumption DEF Exhausted, TypeOK
<1>5. CASE Cardinality(WithTrigger(decisions, trigger)) >= PerTriggerLimit
  <2>1. WithTrigger(decisions, trigger) \subseteq WithTrigger(decisions', trigger)
    BY Counted
  <2>. QED  BY <1>2, <1>3, <1>5, <2>1, LoopAssumption DEF Exhausted
<1>6. CASE Cardinality(WithSource(decisions, source)) >= PerSourceLimit
  <2>1. WithSource(decisions, source) \subseteq WithSource(decisions', source)
    BY Counted
  <2>. QED  BY <1>2, <1>3, <1>6, <2>1, LoopAssumption DEF Exhausted
<1>7. CASE Cardinality(WithTarget(decisions, TargetForTrigger(trigger)))
             >= PerTargetLimit
  <2>1. WithTarget(decisions, TargetForTrigger(trigger)) \subseteq
          WithTarget(decisions', TargetForTrigger(trigger))
    BY Counted
  <2>. QED  BY <1>2, <1>3, <1>7, <2>1, LoopAssumption DEF Exhausted
<1>. QED  BY <1>4, <1>5, <1>6, <1>7 DEF Exhausted

(* While the policy engine answers, a denied re-entry stays denied.          *)
THEOREM DenialAlwaysFinal ==
  ASSUME PolicyUp \subseteq {TRUE}
  PROVE  History => []DenialIsFinal
<1>1. Init => DenialsExhausted /\ DenialIsFinal
  BY DEF Init, DenialsExhausted, DenialIsFinal
<1>2. ASSUME TypeOK, Decide
      PROVE  \E d \in LoopDecisions :
               /\ decisions' = Append(decisions, d)
               /\ Granted(d)
               /\ d.target = "finalize" => Exhausted(decisions, d.source, d.trigger)
  <2>1. ASSUME NEW source \in Sources, NEW trigger \in Triggers \cup {"none"},
               NEW up \in PolicyUp, Ask(source, trigger, up)
        PROVE  \E d \in LoopDecisions :
                 /\ decisions' = Append(decisions, d)
                 /\ Granted(d)
                 /\ d.target = "finalize"
                      => Exhausted(decisions, d.source, d.trigger)
    <3>. DEFINE d == Evaluate(decisions, source, trigger, up)
    <3>1. TargetForTrigger(trigger) \in ReentryStages
      BY DEF TargetForTrigger, ReentryStages
    <3>2. d \in LoopDecisions
      BY <3>1 DEF Evaluate, LoopDecision, LoopDecisions, Targets
    <3>3. Granted(d)
      BY DEF Granted, Evaluate, LoopDecision, ReentryStages
    <3>4. d.target = "finalize" => Exhausted(decisions, d.source, d.trigger)
      BY <3>1 DEF Evaluate, LoopDecision, ReentryStages
    <3>. QED  BY <2>1, <3>2, <3>3, <3>4 DEF Ask
  <2>2. ASSUME NEW source \in Sources, PreferRepair(source)
        PROVE  \E d \in LoopDecisions :
                 /\ decisions' = Append(decisions, d)
                 /\ Granted(d)
                 /\ d.target = "finalize"
                      => Exhausted(decisions, d.source, d.trigger)
    <3>. DEFINE d == ContinueDecision(source)
    <3>1. d \in LoopDecisions /\ Granted(d) /\ d.target # "finalize"
      BY DEF ContinueDecision, LoopDecision, LoopDecisions, Targets, Granted,
             ReentryStages
    <3>. QED  BY <2>2, <3>1 DEF PreferRepair
  <2>. QED  BY <1>2, <2>1, <2>2 DEF Decide
<1>3. TypeOK /\ DenialsExhausted /\ DenialIsFinal /\ [Decide]_decisions
        => (DenialsExhausted /\ DenialIsFinal)'
  <2>. SUFFICES ASSUME TypeOK, DenialsExhausted, DenialIsFinal, Decide
                PROVE  DenialsExhausted' /\ DenialIsFinal'
    BY DEF DenialsExhausted, DenialIsFinal, Exhausted, WithTrigger, WithSource,
           WithTarget
  <2>1. PICK d \in LoopDecisions :
          /\ decisions' = Append(decisions, d)
          /\ Granted(d)
          /\ d.target = "finalize" => Exhausted(decisions, d.source, d.trigger)
    BY <1>2
  <2>2. /\ Len(decisions) \in Nat
        /\ DOMAIN decisions = 1..Len(decisions)
        /\ DOMAIN decisions' = 1..(Len(decisions) + 1)
        /\ \A i \in DOMAIN decisions : decisions'[i] = decisions[i]
        /\ decisions'[Len(decisions) + 1] = d
    BY <2>1 DEF TypeOK
  <2>3. DenialsExhausted'
    BY <2>1, <2>2, ExhaustedStays DEF DenialsExhausted
  <2>4. DenialIsFinal'
    <3>. SUFFICES ASSUME NEW i \in DOMAIN decisions', NEW j \in DOMAIN decisions',
                         i < j, decisions'[i].target = "finalize",
                         decisions'[j].trigger = decisions'[i].trigger,
                         decisions'[j].source = decisions'[i].source
                  PROVE  decisions'[j].target \notin ReentryStages
      BY DEF DenialIsFinal
    <3>1. CASE j \in DOMAIN decisions
      BY <2>2, <3>1 DEF DenialIsFinal
    <3>2. CASE j = Len(decisions) + 1
      <4>1. i \in DOMAIN decisions
        BY <2>2, <3>2
      <4>2. Exhausted(decisions, d.source, d.trigger)
        BY <2>2, <3>2, <4>1 DEF DenialsExhausted
      <4>. QED  BY <2>1, <2>2, <3>2, <4>2 DEF Granted
    <3>. QED  BY <2>2, <3>1, <3>2
  <2>. QED  BY <2>3, <2>4
<1>. QED  BY <1>1, <1>3, TypeCorrect, PTL DEF History
=============================================================================
