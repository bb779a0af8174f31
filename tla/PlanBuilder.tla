----------------------------- MODULE PlanBuilder -----------------------------
(* The rule-based planner: which packets a decomposition plan holds, over    *)
(* the rounds in which a run plans, works the plan off and re-enters.        *)
(*                                                                           *)
(* A packet is known by its type and its position; packets[i] depends on     *)
(* packets[i - 1].  Texts, allowed files and evidence lists are left out.    *)
(* How packets fail and what the run does then is in module Decomposition    *)
(* and module Workflow; here every packet is completed in its turn.          *)
EXTENDS Naturals, Sequences, FiniteSets

CONSTANTS
  Strategies,    \* the strategies a checkpoint may choose
  MaxRounds      \* bound: plans made in a run

StrategyIds == {"default", "mvp_first", "bdd_incremental",
                "spike_then_harden", "repair_only", "safe_refactor"}
ASSUME StrategiesAssumption == Strategies \subseteq StrategyIds
ASSUME RoundsAssumption == MaxRounds \in Nat

PacketTypes == {"setup", "test", "implementation", "spike", "refactor",
                "integration", "docs", "publish_preparation", "verification",
                "repair"}
Complexities == {"tiny", "small", "medium", "large"}

(* The flags of _obligation_flags: what the task has been found to need.     *)
Needs == {"setup", "integration", "tests", "docs", "ci"}

PacketFor == [setup |-> "setup", integration |-> "integration",
              tests |-> "test", docs |-> "docs", ci |-> "publish_preparation"]

MaxPackets == 5

VARIABLES
  needs,       \* the flags, found so far
  strategy, complexity,   \* of the latest plan
  packets,     \* decomposition_plan: the packet types, <<>> when it is None
  ended,       \* how many of them are completed, in their order
  worked,      \* history: the packet types of each packet completed so far
  round        \* history: the plans made

vars == <<needs, strategy, complexity, packets, ended, worked, round>>

If(condition, type) == IF condition THEN <<type>> ELSE <<>>

(* The packets a strategy leads with.                                        *)
Lead(st, completed) ==
  LET open(type) == If(type \notin completed, type)
      work(type) == If("implementation" \notin completed, type)
  IN  IF st = "bdd_incremental"
        THEN open("test") \o work("implementation")
      ELSE IF st = "spike_then_harden"
        THEN open("spike") \o work("implementation")
      ELSE IF st = "safe_refactor"
        THEN open("refactor") \o work("refactor")
      ELSE work("implementation")

Needed(need, nds, completed) ==
  If(need \in nds /\ PacketFor[need] \notin completed, PacketFor[need])

(* The packets that follow them.                                             *)
Follow(st, cx, nds, completed) ==
  Needed("integration", nds, completed)
    \o If(/\ "tests" \in nds /\ "test" \notin completed
          /\ st # "bdd_incremental", "test")
    \o Needed("docs", nds, completed)
    \o Needed("ci", nds, completed)
    \o If(cx # "tiny" /\ "verification" \notin completed, "verification")

(* Faulty: as if only docs and ci kept a task from being simple.             *)
IsSinglePacketCarelessly(st, cx, nds, completed) ==
  /\ st \in {"default", "mvp_first"} /\ cx # "large"
  /\ "implementation" \notin completed
  /\ {"docs", "ci"} \intersect nds = {}

(* A simple task under a plain strategy is one packet.                       *)
IsSinglePacket(st, cx, nds, completed) ==
  /\ st \in {"default", "mvp_first"} /\ cx # "large"
  /\ "implementation" \notin completed
  /\ nds \subseteq {"tests"}

Cut(plan) ==
  SubSeq(plan, 1, IF Len(plan) > MaxPackets THEN MaxPackets ELSE Len(plan))

(* Faulty: repair_only works on what the task needs as well.                 *)
PlanForRepairAndNeeds(st, cx, nds, completed) ==
  LET ahead == If(st = "repair_only", "repair")
                 \o Needed("setup", nds, completed) \o Lead(st, completed)
  IN  Cut(ahead \o Follow(st, cx, nds, completed))

(* _packets_for_strategy                                                     *)
PlanFor(st, cx, nds, completed) ==
  LET ahead == Needed("setup", nds, completed) \o Lead(st, completed)
      plan == ahead \o Follow(st, cx, nds, completed)
  IN  IF st = "repair_only" THEN <<"repair">>
      ELSE IF IsSinglePacket(st, cx, nds, completed) THEN ahead
      ELSE IF plan = <<>> THEN <<"verification">>
      ELSE Cut(plan)

(* _runtime_facts: completed types are those of the plan in the state.       *)
CompletedTypes == {packets[i] : i \in 1 .. ended}

-----------------------------------------------------------------------------
(* DecompositionValidator on a plan of the planner: of its issues, those its *)
(* packets could have by their types and order.  Position i stands for the   *)
(* packet's id.  A missing title, goal or scope is left out: a packet without *)
(* one is refused where it is made, before the plan is validated.            *)
DependsOn(i) == IF i = 1 THEN {} ELSE {i - 1}

PlanIsValid(st, plan) ==
  /\ plan # <<>>
  /\ \A i \in DOMAIN plan : DependsOn(i) \subseteq DOMAIN plan \ {i}
  /\ st = "repair_only" =>
       \A i \in DOMAIN plan : plan[i] \in {"repair", "verification"}

-----------------------------------------------------------------------------
Init ==
  /\ needs \in SUBSET Needs
  /\ strategy = "default" /\ complexity = "tiny"
  /\ packets = <<>> /\ ended = 0 /\ worked = <<>> /\ round = 0

(* plan_node: the plan in the state has been cleared before it is reached.   *)
Plan ==
  \E st \in Strategies, cx \in Complexities :
    /\ packets = <<>> /\ round < MaxRounds
    /\ strategy' = st /\ complexity' = cx
    /\ packets' = PlanFor(st, cx, needs, CompletedTypes)
    /\ round' = round + 1
    /\ UNCHANGED <<needs, ended, worked>>

(* The selected packet, the first that is pending, is executed and reviewed. *)
Complete ==
  /\ ended < Len(packets)
  /\ ended' = ended + 1
  /\ worked' = Append(worked, [round |-> round, type |-> packets[ended + 1]])
  /\ UNCHANGED <<needs, strategy, complexity, packets, round>>

(* QA, verification or acceptance asks for a re-entry to planning or to a    *)
(* stage before it (_clear_for_reentry); the run may have found more needs.  *)
Reenter ==
  \E found \in SUBSET Needs :
    /\ packets # <<>> /\ ended = Len(packets)
    /\ needs' = needs \union found
    /\ packets' = <<>> /\ ended' = 0
    /\ UNCHANGED <<strategy, complexity, worked, round>>

(* The run goes on behind the plan.                                          *)
Leave ==
  /\ round = MaxRounds /\ ended = Len(packets)
  /\ UNCHANGED vars

Next == Plan \/ Complete \/ Reenter \/ Leave

Spec == Init /\ [][Next]_vars

-----------------------------------------------------------------------------
(* The variables have their types.                                           *)
TypeOK ==
  /\ needs \subseteq Needs
  /\ strategy \in StrategyIds /\ complexity \in Complexities
  /\ packets \in Seq(PacketTypes) /\ Len(packets) <= MaxPackets
  /\ ended \in 0 .. Len(packets)
  /\ round \in 0 .. MaxRounds

(* Whatever the strategy, the complexity and the needs, the planner makes a  *)
(* plan its validator accepts: the fallback to a single packet, which would  *)
(* drop the rest of the work, is never taken.                                *)
PlansAreValid == packets # <<>> => PlanIsValid(strategy, packets)

(* A need goes without a packet only where a repair is under way, where the  *)
(* plan is full, or where tests come with the one packet of a simple task.   *)
NeedsArePlanned ==
  packets # <<>> /\ strategy # "repair_only" /\ Len(packets) < MaxPackets =>
    \A need \in needs :
      \/ \E i \in DOMAIN packets : packets[i] = PacketFor[need]
      \/ need = "tests" /\ packets = <<"implementation">>

(* What the planner's tests say of it: work that has been completed is not   *)
(* planned again.                                                            *)
ImplementedOnce ==
  \A i, j \in DOMAIN worked :
    worked[i].type = "implementation" /\ worked[j].type = "implementation"
      => worked[i].round = worked[j].round
=============================================================================
