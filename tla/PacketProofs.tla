----------------------------- MODULE PacketProofs -----------------------------
(* What is proved of packets: the plans that hold them and the gate they     *)
(* pass.                                                                     *)
(*                                                                           *)
(* Every plan the planner makes has the types, keeps a packet for each need  *)
(* and passes the validator, for any set of strategies and any number of     *)
(* rounds.  The invariants on the way are short; the work is in the planner: *)
(* what it concatenates is a sequence of packet types, what it cuts is not   *)
(* empty.  The gate is proved from its tables, spelling by spelling, for     *)
(* packets of any names.                                                     *)
EXTENDS PlanBuilder, PacketPolicy, SequenceTheorems, TLAPS

LEMMA PacketForTyped == \A need \in Needs : PacketFor[need] \in PacketTypes
BY DEF Needs, PacketFor, PacketTypes

LEMMA IfTyped ==
  ASSUME NEW c, NEW type \in PacketTypes
  PROVE  If(c, type) \in Seq(PacketTypes)
BY DEF If

LEMMA NeededTyped ==
  ASSUME NEW need \in Needs, NEW nds, NEW completed
  PROVE  Needed(need, nds, completed) \in Seq(PacketTypes)
BY PacketForTyped, IfTyped DEF Needed

LEMMA Joined ==
  ASSUME NEW p \in Seq(PacketTypes), NEW q \in Seq(PacketTypes)
  PROVE  p \o q \in Seq(PacketTypes)
OBVIOUS

LEMMA LeadTyped ==
  ASSUME NEW st, NEW completed
  PROVE  Lead(st, completed) \in Seq(PacketTypes)
<1>1. \A c : /\ If(c, "implementation") \in Seq(PacketTypes)
             /\ If(c, "test") \in Seq(PacketTypes)
             /\ If(c, "spike") \in Seq(PacketTypes)
             /\ If(c, "refactor") \in Seq(PacketTypes)
  BY IfTyped DEF PacketTypes
<1> QED  BY <1>1, Joined DEF Lead

LEMMA FollowTyped ==
  ASSUME NEW st, NEW cx, NEW nds, NEW completed
  PROVE  Follow(st, cx, nds, completed) \in Seq(PacketTypes)
<1>1. \A need \in {"integration", "docs", "ci"} :
        Needed(need, nds, completed) \in Seq(PacketTypes)
  BY NeededTyped DEF Needs
<1>2. \A c : /\ If(c, "test") \in Seq(PacketTypes)
             /\ If(c, "verification") \in Seq(PacketTypes)
  BY IfTyped DEF PacketTypes
<1> QED  BY <1>1, <1>2, Joined DEF Follow

(* A cut plan is a plan of at most MaxPackets, and still has its first one.  *)
LEMMA CutTyped ==
  ASSUME NEW p \in Seq(PacketTypes), p # <<>>
  PROVE  /\ Cut(p) \in Seq(PacketTypes)
         /\ Len(Cut(p)) \in 1 .. MaxPackets
<1> DEFINE n == IF Len(p) > MaxPackets THEN MaxPackets ELSE Len(p)
<1>1. Len(p) \in Nat /\ Len(p) # 0
  BY EmptySeq, LenProperties
<1>2. n \in 1 .. MaxPackets /\ n <= Len(p)
  <2>1. CASE Len(p) > 5
    <3>1. n = 5  BY <2>1 DEF MaxPackets
    <3> HIDE DEF n
    <3> QED  BY <1>1, <2>1, <3>1 DEF MaxPackets
  <2>2. CASE ~(Len(p) > 5)
    <3>1. n = Len(p)  BY <2>2 DEF MaxPackets
    <3> HIDE DEF n
    <3> QED  BY <1>1, <2>2, <3>1 DEF MaxPackets
  <2> QED  BY <2>1, <2>2
<1>3. SubSeq(p, 1, n) \in Seq(PacketTypes) /\ Len(SubSeq(p, 1, n)) = n
  BY <1>1, <1>2, SubSeqProperties DEF MaxPackets
<1> QED  BY <1>2, <1>3 DEF Cut

(* What the planner returns.                                                 *)
LEMMA PlannedTyped ==
  ASSUME NEW st, NEW cx, NEW nds, NEW completed
  PROVE  LET plan == PlanFor(st, cx, nds, completed)
         IN  /\ plan \in Seq(PacketTypes) /\ Len(plan) \in 1 .. MaxPackets
             /\ st = "repair_only" => plan = <<"repair">>
<1> DEFINE ahead == Needed("setup", nds, completed) \o Lead(st, completed)
           all == ahead \o Follow(st, cx, nds, completed)
<1>1. Needed("setup", nds, completed) \in Seq(PacketTypes)
  BY NeededTyped DEF Needs
<1>2. ahead \in Seq(PacketTypes) /\ all \in Seq(PacketTypes)
  BY <1>1, LeadTyped, FollowTyped, Joined
<1>3. CASE st = "repair_only"
  <2>1. PlanFor(st, cx, nds, completed) = <<"repair">>
    BY <1>3 DEF PlanFor
  <2> QED  BY <2>1 DEF PacketTypes, MaxPackets
<1>4. CASE st # "repair_only" /\ IsSinglePacket(st, cx, nds, completed)
  <2>1. PlanFor(st, cx, nds, completed) = ahead
    BY <1>4 DEF PlanFor
  <2>2. Lead(st, completed) = <<"implementation">>
    BY <1>4 DEF IsSinglePacket, Lead, If
  <2>3. Needed("setup", nds, completed) = <<>>
    BY <1>4 DEF IsSinglePacket, Needed, If
  <2>4. <<>> \o <<"implementation">> = <<"implementation">>
    <3>1. <<"implementation">> \in Seq(PacketTypes)
      BY DEF PacketTypes
    <3> QED  BY <3>1, ConcatEmptySeq
  <2>5. PlanFor(st, cx, nds, completed) = <<"implementation">>
    BY <2>1, <2>2, <2>3, <2>4, Zenon
  <2> QED  BY <1>4, <2>5 DEF PacketTypes, MaxPackets
<1>5. CASE st # "repair_only" /\ ~IsSinglePacket(st, cx, nds, completed)
  <2>1. CASE all = <<>>
    <3>1. PlanFor(st, cx, nds, completed) = <<"verification">>
      BY <1>5, <2>1 DEF PlanFor
    <3> QED  BY <1>5, <3>1 DEF PacketTypes, MaxPackets
  <2>2. CASE all # <<>>
    <3>1. PlanFor(st, cx, nds, completed) = Cut(all)
      BY <1>5, <2>2 DEF PlanFor
    <3> HIDE DEF all
    <3> QED  BY <1>2, <1>5, <2>2, <3>1, CutTyped
  <2> QED  BY <2>1, <2>2
<1> QED  BY <1>3, <1>4, <1>5

(* A plan under repair_only is the repair alone.                             *)
PlannedInv ==
  packets # <<>> /\ strategy = "repair_only" => packets = <<"repair">>

(* The variables have their types, for any strategies and any rounds.        *)
THEOREM TypesKept == Spec => [](TypeOK /\ PlannedInv)
<1>1. Init => TypeOK /\ PlannedInv
  <2> SUFFICES ASSUME Init PROVE TypeOK /\ PlannedInv
    OBVIOUS
  <2>1. packets \in Seq(PacketTypes) /\ Len(packets) = 0
    BY DEF Init
  <2> QED  BY <2>1, RoundsAssumption
           DEF Init, TypeOK, PlannedInv, StrategyIds, Complexities, MaxPackets
<1>2. TypeOK /\ PlannedInv /\ [Next]_vars => (TypeOK /\ PlannedInv)'
  <2> SUFFICES ASSUME TypeOK, PlannedInv, [Next]_vars
               PROVE  (TypeOK /\ PlannedInv)'
    OBVIOUS
  <2> USE RoundsAssumption
  <2>1. ASSUME NEW st \in Strategies, NEW cx \in Complexities,
               packets = <<>>, round < MaxRounds,
               strategy' = st, complexity' = cx,
               packets' = PlanFor(st, cx, needs, CompletedTypes),
               round' = round + 1, UNCHANGED <<needs, ended, worked>>
        PROVE  (TypeOK /\ PlannedInv)'
    <3>1. /\ packets' \in Seq(PacketTypes) /\ Len(packets') \in 1 .. MaxPackets
          /\ st = "repair_only" => packets' = <<"repair">>
      BY <2>1, PlannedTyped
    <3>2. ended' = 0
      BY <2>1 DEF TypeOK
    <3>3. round' \in 0 .. MaxRounds
      BY <2>1 DEF TypeOK
    <3>4. Len(packets') <= MaxPackets /\ ended' \in 0 .. Len(packets')
      <4> DEFINE length == Len(packets')
      <4>1. length \in 1 .. MaxPackets  BY <3>1
      <4> HIDE DEF length
      <4>2. length <= MaxPackets /\ 0 \in 0 .. length
        BY <4>1 DEF MaxPackets
      <4> QED  BY <3>2, <4>2 DEF length
    <3>5. strategy' \in StrategyIds /\ complexity' \in Complexities
      BY <2>1, StrategiesAssumption
    <3>6. needs' \subseteq Needs
      BY <2>1 DEF TypeOK
    <3>7. PlannedInv'
      BY <2>1, <3>1 DEF PlannedInv
    <3> QED  BY <3>1, <3>3, <3>4, <3>5, <3>6, <3>7 DEF TypeOK
  <2>2. CASE Complete
    BY <2>2 DEF Complete, TypeOK, PlannedInv
  <2>3. CASE Reenter
    <3>1. packets' \in Seq(PacketTypes) /\ Len(packets') = 0 /\ ended' = 0
      BY <2>3 DEF Reenter
    <3> QED  BY <2>3, <3>1 DEF Reenter, TypeOK, PlannedInv, MaxPackets
  <2>4. CASE Leave
    BY <2>4 DEF Leave, TypeOK, PlannedInv, vars
  <2>5. CASE UNCHANGED vars
    BY <2>5 DEF TypeOK, PlannedInv, vars
  <2> QED  BY <2>1, <2>2, <2>3, <2>4, <2>5 DEF Next, Plan
<1> QED  BY <1>1, <1>2, PTL DEF Spec

(* The validator accepts every plan the planner makes: each packet depends   *)
(* on the one before it, and a repair holds repairs only.                    *)
THEOREM PlansAlwaysValid == Spec => []PlansAreValid
<1>1. TypeOK /\ PlannedInv => PlansAreValid
  <2> SUFFICES ASSUME TypeOK, PlannedInv, packets # <<>>
               PROVE  PlanIsValid(strategy, packets)
    BY DEF PlansAreValid
  <2>1. DOMAIN packets = 1 .. Len(packets) /\ Len(packets) \in Nat
    BY DEF TypeOK
  <2>2. \A i \in DOMAIN packets : DependsOn(i) \subseteq DOMAIN packets \ {i}
    BY <2>1 DEF DependsOn
  <2>3. strategy = "repair_only" =>
          \A i \in DOMAIN packets : packets[i] \in {"repair", "verification"}
    BY DEF PlannedInv
  <2> QED  BY <2>2, <2>3 DEF PlanIsValid
<1> QED  BY <1>1, TypesKept, PTL

-----------------------------------------------------------------------------
(* What the plan is for.                                                     *)

(* The packet type occurs in the plan.                                       *)
Plans(p, type) == \E i \in 1 .. Len(p) : p[i] = type

LEMMA JoinedPlans ==
  ASSUME NEW p \in Seq(PacketTypes), NEW q \in Seq(PacketTypes), NEW type,
         Plans(p, type) \/ Plans(q, type)
  PROVE  Plans(p \o q, type)
<1> DEFINE s == p \o q
<1>1. /\ Len(p) \in Nat /\ Len(q) \in Nat /\ Len(s) = Len(p) + Len(q)
      /\ \A i \in 1 .. Len(p) + Len(q) :
           s[i] = IF i <= Len(p) THEN p[i] ELSE q[i - Len(p)]
  BY ConcatProperties, LenProperties
<1> HIDE DEF s
<1>2. \A i \in 1 .. Len(p) : i \in 1 .. Len(s) /\ s[i] = p[i]
  BY <1>1
<1>3. \A i \in 1 .. Len(q) :
        Len(p) + i \in 1 .. Len(s) /\ s[Len(p) + i] = q[i]
  <2> SUFFICES ASSUME NEW i \in 1 .. Len(q)
               PROVE  Len(p) + i \in 1 .. Len(s) /\ s[Len(p) + i] = q[i]
    OBVIOUS
  <2>1. /\ Len(p) + i \in 1 .. Len(p) + Len(q)
        /\ ~(Len(p) + i <= Len(p)) /\ (Len(p) + i) - Len(p) = i
    BY <1>1
  <2> QED BY <1>1, <2>1
<1>4. Plans(s, type)
  BY <1>2, <1>3 DEF Plans
<1> QED BY <1>4 DEF s

LEMMA IfPlans == ASSUME NEW c, NEW type, c PROVE Plans(If(c, type), type)
BY DEF If, Plans

LEMMA NeededPlans ==
  ASSUME NEW nds \in SUBSET Needs, NEW need \in nds
  PROVE  Plans(Needed(need, nds, {}), PacketFor[need])
BY IfPlans DEF Needed

(* As long as nothing is completed, what is planned ahead and what follows   *)
(* hold a packet for each need, whatever the strategy and the complexity.    *)
LEMMA EachNeedPlanned ==
  ASSUME NEW st, NEW cx, NEW nds \in SUBSET Needs, NEW need \in nds
  PROVE  Plans((Needed("setup", nds, {}) \o Lead(st, {}))
                 \o Follow(st, cx, nds, {}), PacketFor[need])
<1> DEFINE type == PacketFor[need]
           setup == Needed("setup", nds, {})
           lead == Lead(st, {})
           follow == Follow(st, cx, nds, {})
           a == Needed("integration", nds, {})
           b == If(/\ "tests" \in nds /\ "test" \notin {}
                   /\ st # "bdd_incremental", "test")
           c == Needed("docs", nds, {})
           d == Needed("ci", nds, {})
           e == If(cx # "tiny" /\ "verification" \notin {}, "verification")
<1>1. /\ setup \in Seq(PacketTypes) /\ a \in Seq(PacketTypes)
      /\ c \in Seq(PacketTypes) /\ d \in Seq(PacketTypes)
  BY NeededTyped DEF Needs
<1>2. b \in Seq(PacketTypes) /\ e \in Seq(PacketTypes)
  BY IfTyped DEF PacketTypes
<1>3. lead \in Seq(PacketTypes) /\ follow \in Seq(PacketTypes)
  BY LeadTyped, FollowTyped
<1>4. follow = a \o b \o c \o d \o e
  BY DEF Follow
<1>5. CASE need = "setup"
  <2>1. Plans(setup, type)
    BY <1>5, NeededPlans
  <2> HIDE DEF setup, lead, follow, type
  <2>2. setup \o lead \in Seq(PacketTypes) /\ Plans(setup \o lead, type)
    BY <1>1, <1>3, <2>1, Joined, JoinedPlans
  <2>3. Plans((setup \o lead) \o follow, type)
    BY <1>3, <2>2, JoinedPlans
  <2> QED BY <2>3 DEF setup, lead, follow, type
<1>6. CASE need = "tests" /\ st = "bdd_incremental"
  <2>1. type = "test"
    BY <1>6 DEF PacketFor
  <2> DEFINE t == If("test" \notin {}, "test")
             w == If("implementation" \notin {}, "implementation")
  <2>2. lead = t \o w
    BY <1>6 DEF Lead
  <2>3. t \in Seq(PacketTypes) /\ w \in Seq(PacketTypes)
    BY IfTyped DEF PacketTypes
  <2>4. Plans(t, type)
    BY <2>1, IfPlans
  <2> HIDE DEF setup, lead, follow, type, t, w
  <2>5. Plans(lead, type)
    BY <2>2, <2>3, <2>4, JoinedPlans
  <2>6. setup \o lead \in Seq(PacketTypes) /\ Plans(setup \o lead, type)
    BY <1>1, <1>3, <2>5, Joined, JoinedPlans
  <2>7. Plans((setup \o lead) \o follow, type)
    BY <1>3, <2>6, JoinedPlans
  <2> QED BY <2>7 DEF setup, lead, follow, type
<1>7. CASE need \in {"integration", "docs", "ci"} \/
           (need = "tests" /\ st # "bdd_incremental")
  <2>1. \/ Plans(a, type) \/ Plans(b, type) \/ Plans(c, type) \/ Plans(d, type)
    <3>1. CASE need = "integration"  BY <3>1, NeededPlans
    <3>2. CASE need = "docs"  BY <3>2, NeededPlans
    <3>3. CASE need = "ci"  BY <3>3, NeededPlans
    <3>4. CASE need = "tests" /\ st # "bdd_incremental"
      <4>1. type = "test"  BY <3>4 DEF PacketFor
      <4> QED BY <3>4, <4>1, IfPlans
    <3> QED BY <1>7, <3>1, <3>2, <3>3, <3>4
  <2> HIDE DEF setup, lead, follow, type, a, b, c, d, e
  <2> DEFINE ab == a \o b
             abc == ab \o c
             abcd == abc \o d
  <2>2. /\ ab \in Seq(PacketTypes)
        /\ Plans(a, type) \/ Plans(b, type) => Plans(ab, type)
    BY <1>1, <1>2, Joined, JoinedPlans
  <2> HIDE DEF ab
  <2>3. /\ abc \in Seq(PacketTypes)
        /\ Plans(ab, type) \/ Plans(c, type) => Plans(abc, type)
    BY <1>1, <2>2, Joined, JoinedPlans
  <2> HIDE DEF abc
  <2>4. /\ abcd \in Seq(PacketTypes)
        /\ Plans(abc, type) \/ Plans(d, type) => Plans(abcd, type)
    BY <1>1, <2>3, Joined, JoinedPlans
  <2> HIDE DEF abcd
  <2>5. Plans(abcd \o e, type)
    BY <1>2, <2>1, <2>2, <2>3, <2>4, JoinedPlans
  <2>6. follow = abcd \o e
    BY <1>4 DEF ab, abc, abcd
  <2>7. Plans(follow, type) /\ setup \o lead \in Seq(PacketTypes)
    BY <1>1, <1>3, <2>5, <2>6, Joined
  <2>8. Plans((setup \o lead) \o follow, type)
    BY <1>3, <2>7, JoinedPlans
  <2> QED BY <2>8 DEF setup, lead, follow, type
<1>8. need \in {"setup", "integration", "tests", "docs", "ci"}
  BY DEF Needs
<1> QED BY <1>5, <1>6, <1>7, <1>8

(* A plan that is not full was not cut.                                      *)
LEMMA CutIsWhole ==
  ASSUME NEW p \in Seq(PacketTypes), p # <<>>, Len(Cut(p)) < MaxPackets
  PROVE  Cut(p) = p
<1>1. Len(p) \in Nat
  BY LenProperties
<1>2. CASE Len(p) > MaxPackets
  <2>1. Cut(p) = SubSeq(p, 1, MaxPackets)
    BY <1>2 DEF Cut
  <2>2. \A i \in 1 .. MaxPackets : p[i] \in PacketTypes
    BY <1>1, <1>2, ElementOfSeq DEF MaxPackets
  <2>3. Len(SubSeq(p, 1, MaxPackets)) = MaxPackets
    BY <2>2, SubSeqProperties DEF MaxPackets
  <2> QED BY <2>1, <2>3 DEF MaxPackets
<1>3. CASE ~(Len(p) > MaxPackets)
  <2>1. Cut(p) = SubSeq(p, 1, Len(p))
    BY <1>3 DEF Cut
  <2> QED BY <2>1, SubSeqFull
<1> QED BY <1>2, <1>3

(* A plan that is neither a repair nor full has a packet for each need, or   *)
(* is the one packet of a simple task.                                       *)
LEMMA NeedPlannedFor ==
  ASSUME NEW st, NEW cx, NEW nds \in SUBSET Needs, NEW need \in nds,
         st # "repair_only", Len(PlanFor(st, cx, nds, {})) < MaxPackets
  PROVE  LET plan == PlanFor(st, cx, nds, {})
         IN  \/ Plans(plan, PacketFor[need])
             \/ need = "tests" /\ plan = <<"implementation">>
<1> DEFINE ahead == Needed("setup", nds, {}) \o Lead(st, {})
           all == ahead \o Follow(st, cx, nds, {})
<1>1. Needed("setup", nds, {}) \in Seq(PacketTypes)
  BY NeededTyped DEF Needs
<1>2. ahead \in Seq(PacketTypes) /\ all \in Seq(PacketTypes)
  BY <1>1, LeadTyped, FollowTyped, Joined
<1>3. CASE IsSinglePacket(st, cx, nds, {})
  <2>1. PlanFor(st, cx, nds, {}) = ahead
    BY <1>3 DEF PlanFor
  <2>2. Lead(st, {}) = <<"implementation">>
    BY <1>3 DEF IsSinglePacket, Lead, If
  <2>3. Needed("setup", nds, {}) = <<>>
    BY <1>3 DEF IsSinglePacket, Needed, If
  <2>4. <<>> \o <<"implementation">> = <<"implementation">>
    <3>1. <<"implementation">> \in Seq(PacketTypes)
      BY DEF PacketTypes
    <3> QED BY <3>1, ConcatEmptySeq
  <2>5. PlanFor(st, cx, nds, {}) = <<"implementation">>
    BY <2>1, <2>2, <2>3, <2>4, Zenon
  <2>6. need = "tests"
    BY <1>3 DEF IsSinglePacket
  <2> QED BY <2>5, <2>6
<1>4. CASE ~IsSinglePacket(st, cx, nds, {})
  <2>1. Plans(all, PacketFor[need])
    BY EachNeedPlanned
  <2>2. all # <<>>
    BY <2>1 DEF Plans
  <2>3. PlanFor(st, cx, nds, {}) = Cut(all)
    BY <1>4, <2>2 DEF PlanFor
  <2> HIDE DEF all
  <2>4. Cut(all) = all
    BY <1>2, <2>2, <2>3, CutIsWhole
  <2> QED BY <2>1, <2>3, <2>4
<1> QED BY <1>3, <1>4

(* No need is forgotten, whatever the strategies, the complexity and the     *)
(* number of rounds: a need goes without a packet only in a repair, in a     *)
(* plan that is full, or where tests come with the one packet of a simple    *)
(* task.  A re-entry starts from no completed packet, since it has cleared   *)
(* the plan that knew them; so a plan never leaves a need out as done.       *)
THEOREM NeedsAlwaysPlanned == Spec => []NeedsArePlanned
<1>1. Init => NeedsArePlanned
  BY DEF Init, NeedsArePlanned
<1>2. TypeOK /\ TypeOK' /\ NeedsArePlanned /\ [Next]_vars => NeedsArePlanned'
  <2> SUFFICES ASSUME TypeOK, TypeOK', NeedsArePlanned, [Next]_vars
               PROVE  NeedsArePlanned'
    OBVIOUS
  <2>1. CASE Plan
    <3>1. PICK st \in Strategies, cx \in Complexities : Plan!(st, cx)
      BY <2>1 DEF Plan
    <3>2. Len(packets) = 0
      BY <3>1
    <3>3. CompletedTypes = {}
      BY <3>2 DEF CompletedTypes, TypeOK
    <3>4. packets' = PlanFor(st, cx, needs, {})
      BY <3>1, <3>3
    <3>5. needs \in SUBSET Needs /\ DOMAIN packets' = 1 .. Len(packets')
      BY LenProperties DEF TypeOK
    <3>6. ASSUME st # "repair_only", Len(packets') < MaxPackets,
                 NEW need \in needs
          PROVE  \/ \E i \in DOMAIN packets' : packets'[i] = PacketFor[need]
                 \/ need = "tests" /\ packets' = <<"implementation">>
      <4>1. \/ Plans(packets', PacketFor[need])
            \/ need = "tests" /\ packets' = <<"implementation">>
        BY <3>4, <3>5, <3>6, NeedPlannedFor
      <4> QED BY <3>5, <4>1 DEF Plans
    <3> QED BY <3>1, <3>6 DEF NeedsArePlanned
  <2>2. CASE Complete
    BY <2>2 DEF Complete, NeedsArePlanned
  <2>3. CASE Reenter
    BY <2>3 DEF Reenter, NeedsArePlanned
  <2>4. CASE Leave \/ UNCHANGED vars
    BY <2>4 DEF Leave, vars, NeedsArePlanned
  <2> QED BY <2>1, <2>2, <2>3, <2>4 DEF Next
<1>3. TypeOK /\ PlannedInv => TypeOK
  OBVIOUS
<1> QED BY <1>1, <1>2, <1>3, TypesKept, PTL DEF Spec

-----------------------------------------------------------------------------
(* The gate of the packets: no packet is started that allows what is         *)
(* forbidden, whatever names it holds and however far it was edited.         *)

(* A lookup finds the action itself, a row of the table that has the name,   *)
(* or nothing.                                                               *)
LEMMA LookupReads ==
  ASSUME NEW aliases, NEW name
  PROVE  \/ name \in Actions /\ Lookup(aliases, name) = name
         \/ \E row \in DOMAIN aliases :
              /\ name \in aliases[row]
              /\ Lookup(aliases, name) = ActionNames[row]
         \/ Lookup(aliases, name) = "unknown"
<1>. DEFINE chosen == CHOOSE row \in DOMAIN aliases : name \in aliases[row]
<1>1. CASE name \in Actions
  BY <1>1 DEF Lookup
<1>2. CASE /\ name \notin Actions
           /\ \E row \in DOMAIN aliases : name \in aliases[row]
  <2>1. chosen \in DOMAIN aliases /\ name \in aliases[chosen]
    BY <1>2
  <2>2. Lookup(aliases, name) = ActionNames[chosen]
    BY <1>2 DEF Lookup
  <2>. QED  BY <2>1, <2>2
<1>3. CASE /\ name \notin Actions
           /\ ~ \E row \in DOMAIN aliases : name \in aliases[row]
  BY <1>3 DEF Lookup
<1>. QED  BY <1>1, <1>2, <1>3

(* The rows of the alias table.                                              *)
Rows == {"repo_read", "file_read", "file_write", "shell_run", "test_run",
         "git_read", "git_commit", "git_push", "pr_create", "internet_search",
         "k8s_read", "k8s_apply", "argocd_sync", "ssh_run"}

(* Both tables have these rows.                                              *)
LEMMA AliasRows ==
  DOMAIN AliasesOf = Rows /\ DOMAIN ActionNames = Rows
BY DEF AliasesOf, ActionNames, Rows

(* No spelling stands for two actions, and no spelling is an action's name.  *)
LEMMA SpellingsDiffer ==
  ASSUME NEW a \in Rows, NEW name \in AliasesOf[a]
  PROVE  /\ \A b \in Rows : name \in AliasesOf[b] => a = b
         /\ name \notin Actions
<1>1. \A b \in Rows : name \in AliasesOf[b] => a = b
  BY DEF AliasesOf, Rows
<1>2. \A b \in Rows : name # ActionNames[b]
  BY DEF AliasesOf, ActionNames, Rows
<1>. QED  BY <1>1, <1>2, AliasRows DEF Actions

(* No spelling of the table has a space.                                     *)
LEMMA NoSpaces ==
  ASSUME NEW row \in Rows, NEW name \in AliasesOf[row]
  PROVE  name # "git push" /\ name # "git push --force"
<1>1. name \in AliasesOf.repo_read \cup AliasesOf.file_read
        \cup AliasesOf.file_write \cup AliasesOf.shell_run
        \cup AliasesOf.test_run \cup AliasesOf.git_read
        \cup AliasesOf.git_commit \cup AliasesOf.git_push
        \cup AliasesOf.pr_create \cup AliasesOf.internet_search
        \cup AliasesOf.k8s_read \cup AliasesOf.k8s_apply
        \cup AliasesOf.argocd_sync \cup AliasesOf.ssh_run
  BY DEF Rows
<1>. QED  BY <1>1 DEF AliasesOf

(* The spellings of the actions that a stage may perform.                    *)
ReadNames == AliasesOf.repo_read \cup AliasesOf.file_read
WorkNames ==
  ReadNames \cup AliasesOf.shell_run \cup AliasesOf.git_read

Spellings(kind) ==
  CASE kind = "research" -> ReadNames \cup AliasesOf.internet_search
    [] kind = "observe" -> WorkNames \cup AliasesOf.k8s_read
    [] kind \in {"execute", "repair"} ->
         WorkNames \cup AliasesOf.test_run \cup AliasesOf.file_write
    [] kind = "verify" ->
         WorkNames \cup AliasesOf.test_run \cup AliasesOf.k8s_read
    [] kind = "publish" ->
         WorkNames \cup AliasesOf.test_run \cup AliasesOf.git_commit
           \cup AliasesOf.git_push \cup AliasesOf.pr_create

(* They are all there are.                                                   *)
LEMMA SpellingsAre ==
  ASSUME NEW kind \in Kinds, NEW row \in Rows,
         ActionNames[row] \in StageAllow(kind)
  PROVE  AliasesOf[row] \subseteq Spellings(kind)
<1>. USE DEF ActionNames, StageAllow, Working, Publishing,
             Rows, Spellings, ReadNames, WorkNames
<1>1. CASE kind = "research"
  BY <1>1
<1>2. CASE kind = "observe"
  BY <1>2
<1>3. CASE kind \in {"execute", "repair"}
  BY <1>3
<1>4. CASE kind = "verify"
  BY <1>4
<1>5. CASE kind = "publish"
  BY <1>5
<1>. QED  BY <1>1, <1>2, <1>3, <1>4, <1>5 DEF Kinds

(* A name is authorized as an action of its stage or a spelling of one.      *)
LEMMA AuthorizedReads ==
  ASSUME NEW kind \in Kinds, NEW name, Authorized(name, kind)
  PROVE  Normalized(name) \in StageAllow(kind) \cup Spellings(kind)
<1>1. "unknown" \notin StageAllow(kind)
  BY DEF StageAllow, Kinds, Working, Publishing
<1>. QED  BY <1>1, LookupReads, SpellingsAre, AliasRows
          DEF Authorized, Coerce

(* What a kind of packet must not allow.                                     *)
Forbidden(kind) ==
  PromptForbids(kind) \cup GateForbidden(kind)
    \cup RequiredForbidden(kind)

(* None of it is a spelling of an action that the stage may perform, but for *)
(* the writing commands of an observation, which the gate names itself.      *)
LEMMA AcceptedAvoids ==
  ASSUME NEW p, p.kind \in Kinds, GateAccepts(p),
         NEW name \in p.allowed
  PROVE  name \notin Forbidden(p.kind)
<1>1. /\ Normalized(name)
           \in StageAllow(p.kind) \cup Spellings(p.kind)
      /\ p.kind = "observe" => name \notin MutatingObserve
  BY AuthorizedReads DEF GateAccepts
<1>2. p.kind = "execute" \/ p.kind = "repair" =>
        Normalized(name) \in
          StageAllow(p.kind) \cup WorkNames \cup AliasesOf.test_run
            \cup AliasesOf.file_write
  BY <1>1 DEF Spellings
<1>3. p.kind = "verify" =>
        Normalized(name) \in
          StageAllow(p.kind) \cup WorkNames \cup AliasesOf.test_run
            \cup AliasesOf.k8s_read
  BY <1>1 DEF Spellings
<1>. USE DEF Normalized, StageAllow, AliasesOf, Working,
             PublicationNames, GitGuards, PublishGuards,
             PromptForbids, GateForbidden, RequiredForbidden,
             Forbidden, Spellings, ReadNames, WorkNames
<1>4. CASE p.kind = "research"
  BY <1>1, <1>4, ZenonT(60)
<1>5. CASE p.kind = "observe"
  BY <1>1, <1>5, ZenonT(60) DEF MutatingObserve
<1>6. CASE p.kind = "execute"
  BY <1>6, <1>2, ZenonT(60)
<1>7. CASE p.kind = "repair"
  BY <1>7, <1>2, ZenonT(60)
<1>8. CASE p.kind = "verify"
  BY <1>8, <1>3, ZenonT(60)
<1>9. CASE p.kind = "publish"
  BY <1>1, <1>9, ZenonT(60) DEF Publishing
<1>. QED  BY <1>4, <1>5, <1>6, <1>7, <1>8, <1>9 DEF Kinds

-----------------------------------------------------------------------------
(* The registry: its aliases are wider, and no spelling changes its action.  *)
Wider ==
  [AliasesOf EXCEPT !["internet_search"] = @ \cup
     {"inspect_package_registry", "read_package_registry",
      "inspect_release_notes", "read_release_notes",
      "inspect_changelog", "resolve_package_versions"}]

Spelled == [row \in DOMAIN Wider |-> {Normalized(t) : t \in Wider[row]}]

(* Reading a spelling twice changes nothing.                                 *)
LEMMA NormalizedTwice ==
  \A name : Normalized(Normalized(name)) = Normalized(name)
BY DEF Normalized

(* What the access list reads as an action the registry reads as the same:   *)
(* the aliases added and the normalized ones make no second reading.         *)
LEMMA RegistryAgrees ==
  ASSUME NEW name, NEW a \in Rows, Normalized(name) \in AliasesOf[a]
  PROVE  Canonicalize(name) = ActionNames[a]
<1>. DEFINE n == Normalized(name)
<1>1. DOMAIN Wider = Rows /\ DOMAIN Spelled = Rows
  BY AliasRows DEF Wider, Spelled
<1>2. n \in Spelled[a]
  <2>1. n \in Wider[a] /\ Normalized(n) = n
    BY AliasRows, NormalizedTwice DEF Wider, Rows
  <2>. QED  BY <1>1, <2>1 DEF Spelled
<1>3. ASSUME NEW b \in Rows, n \in Spelled[b] PROVE b = a
  <2>1. PICK t \in Wider[b] : Normalized(t) = n
    BY <1>1, <1>3 DEF Spelled
  <2>2. t \in AliasesOf[b] \/ t \in {"inspect_package_registry",
          "read_package_registry", "inspect_release_notes",
          "read_release_notes", "inspect_changelog",
          "resolve_package_versions"}
    BY <2>1, AliasRows DEF Wider
  <2>4. CASE t = n
    <3>1. t \in AliasesOf[b]
      BY <2>2, <2>4 DEF AliasesOf, Rows
    <3>. QED  BY <2>4, <3>1, SpellingsDiffer
  <2>5. CASE t # n
    <3>1. t \in {"git push", "git push --force", "git_push_--force"}
      BY <2>1, <2>5 DEF Normalized
    <3>2. t \in AliasesOf[b]
      BY <2>2, <3>1
    <3>3. t = "git_push_--force"
      BY <3>1, <3>2, NoSpaces
    <3>4. n = "git_push___force"
      BY <2>1, <3>3 DEF Normalized
    <3>. QED  BY <3>4 DEF AliasesOf, Rows
  <2>. QED  BY <2>4, <2>5
<1>4. n \notin Actions
  BY SpellingsDiffer
<1>5. Canonicalize(name) = Lookup(Spelled, n)
  BY DEF Canonicalize, Spelled, Wider
<1>6. Lookup(Spelled, n)
        = ActionNames[CHOOSE b \in DOMAIN Spelled : n \in Spelled[b]]
  BY <1>1, <1>2, <1>4 DEF Lookup
<1>7. (CHOOSE b \in DOMAIN Spelled : n \in Spelled[b]) = a
  BY <1>1, <1>2, <1>3
<1>. QED  BY <1>5, <1>6, <1>7

(* So the registry allows to a stage what the access list authorizes.        *)
LEMMA RegistryAllows ==
  ASSUME NEW kind \in Kinds, NEW name, Authorized(name, kind)
  PROVE  Canonicalize(name) \in RegistryAllow(kind)
<1>. DEFINE n == Normalized(name)
<1>1. "unknown" \notin StageAllow(kind)
  BY DEF StageAllow, Kinds, Working, Publishing
<1>2. \/ n \in Actions /\ n \in StageAllow(kind)
      \/ \E row \in Rows : /\ n \in AliasesOf[row]
                           /\ ActionNames[row] \in StageAllow(kind)
  BY <1>1, LookupReads, AliasRows DEF Authorized, Coerce
<1>3. CASE n \in Actions /\ n \in StageAllow(kind)
  BY <1>3 DEF Canonicalize, Lookup, RegistryAllow
<1>4. CASE \E row \in Rows : /\ n \in AliasesOf[row]
                             /\ ActionNames[row] \in StageAllow(kind)
  BY <1>4, RegistryAgrees DEF RegistryAllow
<1>. QED  BY <1>2, <1>3, <1>4

(* The catalog: a permission grants its stages no more than the access list. *)
LEMMA PermissionsNest ==
  ASSUME NEW kind \in Kinds, NEW name
  PROVE  Permitted(name, kind) \subseteq StageAllow(kind)
<1>1. \A permission \in Permissions :
        kind \in permission.stages =>
          permission.action \in StageAllow(kind)
  BY DEF Permissions, StageAllow, Working, Publishing,
         Kinds
<1>. QED  BY <1>1 DEF Permitted, KnownPermission

-----------------------------------------------------------------------------
(* The built packets: each name they allow is a spelling of an action of     *)
(* their stage.                                                              *)
LEMMA CoerceIs ==
  ASSUME NEW name, NEW row \in Rows,
         Normalized(name) \in AliasesOf[row]
  PROVE  Coerce(name) = ActionNames[row]
<1>. DEFINE n == Normalized(name)
<1>1. /\ n \notin Actions
      /\ \A b \in Rows : n \in AliasesOf[b] => row = b
  BY SpellingsDiffer
<1>2. Lookup(AliasesOf, n)
        = ActionNames[CHOOSE b \in DOMAIN AliasesOf :
                             n \in AliasesOf[b]]
  BY <1>1, AliasRows DEF Lookup
<1>3. (CHOOSE b \in DOMAIN AliasesOf : n \in AliasesOf[b]) = row
  BY <1>1, AliasRows
<1>. QED  BY <1>2, <1>3 DEF Coerce

(* An alias reads as the action of its row, but for the forced push.         *)
LEMMA CoercedTo ==
  ASSUME NEW row \in Rows, NEW t \in AliasesOf[row], t # "git_push_--force"
  PROVE  Coerce(t) = ActionNames[row]
<1>1. Normalized(t) = t
  BY NoSpaces DEF Normalized
<1>. QED  BY <1>1, CoerceIs

(* The names of the built packets, as the gate reads them.                   *)
LEMMA BuiltNamesRead ==
  /\ \A t \in Searches : Coerce(t) = "internet.search"
  /\ \A t \in {"inspect_repo", "collect_evidence"} :
       Coerce(t) = "repo.read"
  /\ \A t \in {"read_files", "filesystem", "context_packet_text"} :
       Coerce(t) = "file.read"
  /\ Coerce("edit_files") = "file.write"
  /\ \A t \in {"inspect_runtime_state", "run_read_only_commands",
               "run_commands", "shell"} : Coerce(t) = "shell.run"
  /\ \A t \in {"run_tests", "test_runtime"} : Coerce(t) = "test.run"
  /\ \A t \in {"inspect_git", "inspect_git_read_only", "inspect_pr_checks",
               "git"} : Coerce(t) = "git.read"
  /\ Coerce("commit_when_required") = "git.commit"
  /\ Coerce("push_when_required") = "git.push"
  /\ Coerce("create_pr_when_required") = "pr.create"
<1>. USE CoercedTo DEF AliasesOf, ActionNames, Searches, Rows
<1>1. \A t \in Searches : Coerce(t) = "internet.search"
  OBVIOUS
<1>2. \A t \in {"inspect_repo", "collect_evidence"} :
        Coerce(t) = "repo.read"
  OBVIOUS
<1>3. \A t \in {"read_files", "filesystem", "context_packet_text"} :
        Coerce(t) = "file.read"
  OBVIOUS
<1>4. Coerce("edit_files") = "file.write"
  OBVIOUS
<1>5. \A t \in {"inspect_runtime_state", "run_read_only_commands",
                "run_commands", "shell"} : Coerce(t) = "shell.run"
  OBVIOUS
<1>6. \A t \in {"run_tests", "test_runtime"} : Coerce(t) = "test.run"
  OBVIOUS
<1>7. \A t \in {"inspect_git", "inspect_git_read_only", "inspect_pr_checks",
                "git"} : Coerce(t) = "git.read"
  OBVIOUS
<1>8. /\ Coerce("commit_when_required") = "git.commit"
      /\ Coerce("push_when_required") = "git.push"
      /\ Coerce("create_pr_when_required") = "pr.create"
  OBVIOUS
<1>. QED  BY <1>1, <1>2, <1>3, <1>4, <1>5, <1>6, <1>7, <1>8

(* Where every name is authorized, the action policy asks for the guards     *)
(* only: the stages that must not change or publish have no action that does.*)
LEMMA AuthorizedIsAccepted ==
  ASSUME NEW p, p.kind \in Kinds,
         \A t \in p.allowed : Authorized(t, p.kind),
         p.kind \in {"research", "observe"} =>
           p.allowed \cap MutatingObserve = {},
         p.kind = "verify" => ~(DirectGuards \subseteq p.forbidden),
         GateForbidden(p.kind) \subseteq p.forbidden,
         RequiredForbidden(p.kind) \subseteq p.forbidden
  PROVE  GateAccepts(p)
<1>1. /\ "unknown" \notin StageAllow(p.kind)
      /\ p.kind \in {"execute", "repair", "publish"}
           \/ StageAllow(p.kind) \cap Mutating = {}
      /\ p.kind = "publish"
           \/ StageAllow(p.kind) \cap Publishing = {}
  BY DEF StageAllow, Kinds, Working, Publishing,
         Mutating
<1>2. {Coerce(t) : t \in p.allowed} \subseteq StageAllow(p.kind)
  BY DEF Authorized
<1>3. PolicyAccepts(p)
  BY <1>1, <1>2 DEF PolicyAccepts
<1>. QED  BY <1>3 DEF GateAccepts

(* The gate accepts each of them, but for the packet of the retrieval.       *)
LEMMA BuiltIsAccepted ==
  ASSUME NEW p \in BuiltPackets, p # RetrievalPacket
  PROVE  GateAccepts(p)
<1>1. CASE p = Packet("research", Searches, ObserveForbids)
  <2>1. p.kind = "research" /\ p.allowed = Searches
    BY <1>1 DEF Packet
  <2>2. \A t \in p.allowed : Authorized(t, p.kind)
    <3>1. \A t \in p.allowed :
            Coerce(t) \in {"internet.search"}
      BY <2>1, BuiltNamesRead
    <3>. QED  BY <2>1, <3>1 DEF Authorized, StageAllow,
                                Working, Publishing
  <2>3. /\ GateForbidden(p.kind) \subseteq p.forbidden
        /\ RequiredForbidden(p.kind) \subseteq p.forbidden
    BY <1>1, <2>1
    DEF GateForbidden, RequiredForbidden, Packet, GitGuards,
        PublishGuards, PublicationNames, Routing,
        ObserveForbids
  <2>4. p.allowed \cap MutatingObserve = {}
    BY <2>1 DEF MutatingObserve, Searches
  <2>. QED  BY <2>1, <2>2, <2>3, <2>4, AuthorizedIsAccepted DEF Kinds
<1>2. CASE p = Packet("observe",
             {"read_files", "run_read_only_commands", "inspect_repo",
              "inspect_runtime_state"},
             ObserveForbids \cup {"apply_cluster_changes",
                                       "change_host_config"})
  <2>1. p.kind = "observe"
    BY <1>2 DEF Packet
  <2>2. \A t \in p.allowed : Authorized(t, p.kind)
    <3>1. \A t \in p.allowed :
            Coerce(t) \in {"file.read", "shell.run", "repo.read"}
      BY <1>2, BuiltNamesRead DEF Packet
    <3>. QED  BY <2>1, <3>1 DEF Authorized, StageAllow,
                                Working, Publishing
  <2>3. /\ GateForbidden(p.kind) \subseteq p.forbidden
        /\ RequiredForbidden(p.kind) \subseteq p.forbidden
    BY <1>2, <2>1
    DEF GateForbidden, RequiredForbidden, Packet, GitGuards,
        PublishGuards, PublicationNames, Routing,
        ObserveForbids
  <2>4. p.allowed \cap MutatingObserve = {}
    BY <1>2 DEF MutatingObserve, Packet
  <2>. QED  BY <2>1, <2>2, <2>3, <2>4, AuthorizedIsAccepted DEF Kinds
<1>3. ASSUME NEW kind \in {"execute", "repair"},
             p = Packet(kind, Edits, GitGuards \cup Routing)
      PROVE  GateAccepts(p)
  <2>1. p.kind = kind
    BY <1>3 DEF Packet
  <2>2. \A t \in p.allowed : Authorized(t, p.kind)
    <3>1. \A t \in p.allowed :
            Coerce(t) \in {"file.write", "shell.run", "test.run",
                                "git.read", "repo.read"}
      BY <1>3, BuiltNamesRead DEF Packet, Edits
    <3>. QED  BY <2>1, <3>1 DEF Authorized, StageAllow,
                                Working, Publishing
  <2>3. /\ GateForbidden(p.kind) \subseteq p.forbidden
        /\ RequiredForbidden(p.kind) \subseteq p.forbidden
    BY <1>3, <2>1
    DEF GateForbidden, RequiredForbidden, Packet, GitGuards,
        PublishGuards, PublicationNames, Routing
  <2>. QED  BY <2>1, <2>2, <2>3, AuthorizedIsAccepted DEF Kinds
<1>4. CASE p = Packet("verify",
             {"filesystem", "shell", "git", "test_runtime",
              "context_packet_text"},
             GitGuards \cup Routing
               \cup {"expand_task_scope", "edit_files", "write_files",
                     "fix_code", "repair"})
  <2>1. p.kind = "verify"
    BY <1>4 DEF Packet
  <2>2. \A t \in p.allowed : Authorized(t, p.kind)
    <3>1. \A t \in p.allowed :
            Coerce(t) \in {"file.read", "shell.run", "git.read",
                                "test.run"}
      BY <1>4, BuiltNamesRead DEF Packet
    <3>. QED  BY <2>1, <3>1 DEF Authorized, StageAllow,
                                Working, Publishing
  <2>3. /\ GateForbidden(p.kind) \subseteq p.forbidden
        /\ RequiredForbidden(p.kind) \subseteq p.forbidden
    BY <1>4, <2>1
    DEF GateForbidden, RequiredForbidden, Packet, GitGuards,
        PublishGuards, PublicationNames, Routing
  <2>4. "hosts" \in DirectGuards /\ "hosts" \notin p.forbidden
    BY <1>4
    DEF DirectGuards, GitGuards, Routing, Packet
  <2>. QED  BY <2>1, <2>2, <2>3, <2>4, AuthorizedIsAccepted DEF Kinds
<1>5. CASE p = Packet("publish",
             {"inspect_git", "commit_when_required", "push_when_required",
              "create_pr_when_required", "inspect_pr_checks",
              "collect_evidence"},
             PublishGuards \cup Routing \cup {"expand_task_scope"})
  <2>1. p.kind = "publish"
    BY <1>5 DEF Packet
  <2>2. \A t \in p.allowed : Authorized(t, p.kind)
    <3>1. \A t \in p.allowed :
            Coerce(t) \in {"git.read", "git.commit", "git.push",
                                "pr.create", "repo.read"}
      BY <1>5, BuiltNamesRead DEF Packet
    <3>. QED  BY <2>1, <3>1 DEF Authorized, StageAllow,
                                Working, Publishing
  <2>3. /\ GateForbidden(p.kind) \subseteq p.forbidden
        /\ RequiredForbidden(p.kind) \subseteq p.forbidden
    BY <1>5, <2>1
    DEF GateForbidden, RequiredForbidden, Packet, GitGuards,
        PublishGuards, PublicationNames, Routing
  <2>. QED  BY <2>1, <2>2, <2>3, AuthorizedIsAccepted DEF Kinds
<1>. QED  BY <1>1, <1>2, <1>3, <1>4, <1>5 DEF BuiltPackets

-----------------------------------------------------------------------------
(* A packet keeps its kind; until the first edit it is a built one; and its  *)
(* verdict is the gate's.                                                    *)
GateInv ==
  /\ packet = Packet(packet.kind, packet.allowed, packet.forbidden)
  /\ packet.kind \in Kinds
  /\ edits \in Nat
  /\ edits = 0 => packet \in BuiltPackets
  /\ verdict = "started" => GateAccepts(packet)
  /\ verdict = "refused" => ~GateAccepts(packet)

(* The built packets have their kinds.                                       *)
LEMMA GateStarts == GateInit => GateInv
<1>. SUFFICES ASSUME GateInit PROVE GateInv
  OBVIOUS
<1>1. packet = Packet(packet.kind, packet.allowed, packet.forbidden)
  BY DEF GateInit, BuiltPackets, RetrievalPacket, Packet
<1>2. packet.kind \in Kinds
  BY DEF GateInit, BuiltPackets, RetrievalPacket, Packet,
         Kinds
<1>. QED  BY <1>1, <1>2 DEF GateInit, GateInv

(* Editing keeps the kind; submitting records the judgement.                 *)
LEMMA GateKept == GateInv /\ [GateNext]_gateVars => GateInv'
<1>. SUFFICES ASSUME GateInv, [GateNext]_gateVars PROVE GateInv'
  OBVIOUS
<1>1. CASE UNCHANGED gateVars
  BY <1>1 DEF gateVars, GateInv, Packet
<1>2. ASSUME NEW names, NEW guards,
             Edit(Packet(packet.kind, names, guards))
      PROVE  GateInv'
  BY <1>2 DEF Edit, Packet, GateInv
<1>3. CASE Allow \/ Forbid \/ Omit
  <2>1. \A names :
          /\ [packet EXCEPT !.allowed = names]
               = Packet(packet.kind, names, packet.forbidden)
          /\ [packet EXCEPT !.forbidden = names]
               = Packet(packet.kind, packet.allowed, names)
    BY DEF GateInv, Packet
  <2>2. CASE Allow
    <3>1. PICK t :
            Edit([packet EXCEPT !.allowed = packet.allowed \cup {t}])
      BY <2>2 DEF Allow
    <3>. QED  BY <1>2, <2>1, <3>1
  <2>3. CASE Forbid
    <3>1. PICK t :
            Edit([packet EXCEPT !.forbidden = packet.forbidden \cup {t}])
      BY <2>3 DEF Forbid
    <3>. QED  BY <1>2, <2>1, <3>1
  <2>4. CASE Omit
    <3>1. PICK t :
            Edit([packet EXCEPT !.forbidden = packet.forbidden \ {t}])
      BY <2>4 DEF Omit
    <3>. QED  BY <1>2, <2>1, <3>1
  <2>. QED  BY <1>3, <2>2, <2>3, <2>4
<1>4. CASE Submit
  BY <1>4 DEF Submit, GateInv, Packet
<1>. QED  BY <1>1, <1>3, <1>4 DEF GateNext

(* So it is in every run.                                                    *)
LEMMA GateInvHolds == GateSpec => []GateInv
BY GateStarts, GateKept, PTL DEF GateSpec

(* An agent never starts with a packet that allows a name which the prompt   *)
(* or the guards of its kind forbid, whatever was edited.                    *)
THEOREM NothingForbiddenStarts == GateSpec => []NothingForbiddenIsAllowed
<1>1. GateInv => NothingForbiddenIsAllowed
  BY AcceptedAvoids DEF GateInv, NothingForbiddenIsAllowed, Forbidden
<1>. QED  BY GateInvHolds, <1>1, PTL

(* The registry allows what a started packet allows, and the catalog grants  *)
(* no more than the access list, for any names.                              *)
THEOREM TablesAlwaysNest == GateSpec => []TablesNest
<1>1. ASSUME GateInv PROVE TablesNest
  <2>1. ASSUME NEW t \in packet.allowed, verdict = "started"
        PROVE  Canonicalize(t) \in RegistryAllow(packet.kind)
    BY <1>1, <2>1, RegistryAllows DEF GateInv, GateAccepts
  <2>. QED  BY <1>1, <2>1, PermissionsNest DEF GateInv, TablesNest
<1>. QED  BY GateInvHolds, <1>1, PTL

(* A packet as a stage builds it is refused only if it is the retrieval's.   *)
THEOREM BuiltPacketsAlwaysStart == GateSpec => []BuiltPacketsStart
<1>1. GateInv => BuiltPacketsStart
  BY BuiltIsAccepted DEF GateInv, BuiltPacketsStart
<1>. QED  BY GateInvHolds, <1>1, PTL
=============================================================================
