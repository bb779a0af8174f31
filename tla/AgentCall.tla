------------------------------ MODULE AgentCall ------------------------------
(* What the stages rely on when they call an agent: one reply, never taken   *)
(* back; and a usable one only if the agent has handed its work over.        *)

VARIABLES
  handedOver,  \* has the agent given the machine-readable hand-off
  reply        \* "none", "ok", "retryable", or "raised" for an exception

vars == <<handedOver, reply>>

Init == handedOver = FALSE /\ reply = "none"

HandOver == ~handedOver /\ handedOver' = TRUE /\ UNCHANGED reply

Reply ==
  /\ reply = "none"
  /\ reply' \in {"ok", "retryable", "raised"}
  /\ reply' = "ok" => handedOver
  /\ UNCHANGED handedOver

Next == HandOver \/ Reply

Spec == Init /\ [][Next]_vars
=============================================================================
