---------------------------- MODULE Decomposition ----------------------------
(* The packets of a decomposition plan: which one executes next, and what    *)
(* the workflow does when none does.                                         *)
(*                                                                           *)
(* A plan is the sequence of its packets, a packet is known by its position, *)
(* and packet i depends on packet i - 1: the planner gives every packet the  *)
(* one it appended before as its only dependency.                            *)
EXTENDS Naturals, Sequences

PacketTypes == {"setup", "test", "implementation", "spike", "refactor",
                "integration", "docs", "publish_preparation", "verification",
                "repair"}
PacketStatuses == {"pending", "completed", "skipped", "failed", "blocked"}
Packets == [type : PacketTypes, status : PacketStatuses]
Strategies == {"default", "repair_only"}

Done == {"completed", "skipped"}
NoPacket == 0

DepsReady(packets, i) == i > 1 => packets[i - 1].status \in Done

WithStatus(packets, status) ==
  {i \in DOMAIN packets : packets[i].status = status}
PendingRepairs(packets) ==
  {i \in WithStatus(packets, "pending") : packets[i].type = "repair"}

First(positions) ==
  IF positions = {} THEN NoPacket
  ELSE CHOOSE i \in positions : \A j \in positions : i <= j

(* PacketSelector.select: the packet and whether it may run.                 *)
Select(packets, strategy) ==
  LET repairs == PendingRepairs(packets)
      failed == WithStatus(packets, "failed")
      pick(i) == [id |-> i, ready |-> i # NoPacket /\ DepsReady(packets, i)]
  IN  IF strategy = "repair_only" /\ repairs # {} THEN pick(First(repairs))
      ELSE IF strategy = "repair_only" /\ failed # {}
           THEN [id |-> First(failed), ready |-> TRUE]
      ELSE pick(First(WithStatus(packets, "pending")))

PlanCompleted(packets) ==
  packets # <<>> /\ \A i \in DOMAIN packets : packets[i].status \in Done

Progress(stage, terminal, blocked, hint, next) ==
  [stage |-> stage, terminal |-> terminal, blocked |-> blocked,
   hint |-> hint, next |-> next]

(* progression_decision: the stage that follows, whether the plan has ended, *)
(* and the status the report gives when it has.                              *)
Progression(packets, strategy) ==
  LET selection == Select(packets, strategy)
      blockedImplementation ==
        \E i \in WithStatus(packets, "blocked") :
          packets[i].type = "implementation"
  IN  IF PlanCompleted(packets)
        THEN Progress("qa_plan", FALSE, FALSE, "none", NoPacket)
      ELSE IF selection.ready
        THEN Progress("execute", FALSE, FALSE, "none", selection.id)
      ELSE IF WithStatus(packets, "failed") # {}
        THEN Progress("finalize", TRUE, FALSE, "failed", NoPacket)
      ELSE IF blockedImplementation
        THEN Progress("verify", FALSE, TRUE, "needs_environment", NoPacket)
      ELSE IF WithStatus(packets, "blocked") # {}
        THEN Progress("finalize", TRUE, TRUE, "needs_environment", NoPacket)
      ELSE Progress("finalize", TRUE, TRUE, "blocked", NoPacket)

(* update_packet_status; without an active packet nothing changes.           *)
SetStatus(packets, i, status) ==
  IF i = NoPacket THEN packets ELSE [packets EXCEPT ![i].status = status]
=============================================================================
