----------------------------- MODULE ContractCall -----------------------------
(* One request to the direct LLM through the contract gateway.               *)
(*                                                                           *)
(* complete_json sends the prompt with the schema, reads the reply and asks  *)
(* again while the reply is JSON that the schema refuses.  What a reply says *)
(* is abstracted to how the gateway judges it: "valid" is JSON the schema    *)
(* accepts, "drift" is JSON it refuses, "prose" is text without JSON (the    *)
(* empty text is one).  A reply is known by its position in `replies'.       *)
(*                                                                           *)
(* The guards on the request's backend and on its forbidden inputs are left  *)
(* out: every caller in the runtime passes them.                             *)
EXTENDS Naturals, Sequences

CONSTANT MaxAttempts    \* max_contract_repair_attempts
ASSUME MaxAttemptsAssumption == MaxAttempts \in Nat

Judgements == {"valid", "drift", "prose"}
NoReply == 0

VARIABLES
  phase,      \* where the call is
  replies,    \* what the endpoint has answered
  attempts,   \* repairs asked for
  rawText,    \* the reply held as raw_text
  record      \* the ContractResult

callVars == <<phase, replies, attempts, rawText, record>>

NotAsking == {"idle", "answered", "refused", "broken"}
Phases == NotAsking \union {"waiting"}

(* ContractResult: the reply it judges, the worst severity among its         *)
(* violations, and what it says of the repairs.                              *)
Records == [of : Nat, severity : {"none", "repairable", "fatal"},
            repaired : BOOLEAN, attempts : Nat, repairs : Seq(Nat)]

NoRecord == [of |-> NoReply, severity |-> "none", repaired |-> FALSE,
             attempts |-> 0, repairs |-> <<>>]

CallInit ==
  /\ phase = "idle" /\ replies = <<>> /\ attempts = 0
  /\ rawText = NoReply /\ record = NoRecord

(* The repair replies among the first n: all but the first.                  *)
Repairs(n) == [i \in 1 .. n - 1 |-> i + 1]

(* validate_payload, or failure_result when the reply holds no JSON.         *)
Judged(judgement, i) ==
  [NoRecord EXCEPT !.of = i,
                   !.severity = IF judgement = "valid" THEN "none"
                                ELSE IF judgement = "drift" THEN "repairable"
                                ELSE "fatal"]

(* A repair that is JSON has its bookkeeping written at once; the path of a  *)
(* repair without JSON skips it.                                             *)
JudgedRepair(judgement, i) ==
  IF judgement = "prose" THEN Judged(judgement, i)
  ELSE [Judged(judgement, i) EXCEPT !.repaired = judgement = "valid",
                                    !.attempts = attempts,
                                    !.repairs = Repairs(i)]

(* Faulty: only the JSON repairs are on record when the call gives up.       *)
ClosedAsJudged(judged, i) == judged

(* The record that the ContractViolationError carries.                       *)
Closed(judged, i) ==
  [judged EXCEPT !.attempts = attempts, !.repairs = Repairs(i)]

(* Faulty: as the scripted twin, which looks at no severity.                 *)
AsksAgainAlways(judged) == judged.severity # "none" /\ attempts < MaxAttempts

AsksAgain(judged) == judged.severity = "repairable" /\ attempts < MaxAttempts

(* Faulty: a repaired call goes on showing its first reply.                  *)
HeldFirst(judgement, i) == IF i = 1 THEN i ELSE rawText

Held(judgement, i) == IF i = 1 \/ judgement = "valid" THEN i ELSE rawText

Ask ==
  /\ phase \in NotAsking
  /\ phase' = "waiting" /\ replies' = <<>> /\ attempts' = 0
  /\ rawText' = NoReply /\ record' = NoRecord

(* A reply is judged: the call answers, asks for a repair, or gives up.      *)
Reply(judgement) ==
  LET i == Len(replies) + 1
      judged == IF i = 1 THEN Judged(judgement, i)
                ELSE JudgedRepair(judgement, i)
  IN  /\ phase = "waiting"
      /\ replies' = Append(replies, judgement)
      /\ rawText' = Held(judgement, i)
      /\ \/ /\ judgement = "valid"
            /\ phase' = "answered" /\ record' = judged
            /\ UNCHANGED attempts
         \/ /\ judgement # "valid" /\ AsksAgain(judged)
            /\ attempts' = attempts + 1 /\ record' = judged
            /\ UNCHANGED phase
         \/ /\ judgement # "valid" /\ ~AsksAgain(judged)
            /\ phase' = "refused" /\ record' = Closed(judged, i)
            /\ UNCHANGED attempts

(* The endpoint is out of reach, answers an error or times out (180 s), or   *)
(* its body is no chat completion: _complete_raw raises, nothing catches it. *)
Break ==
  /\ phase = "waiting" /\ phase' = "broken"
  /\ UNCHANGED <<replies, attempts, rawText, record>>

Answer == (\E judgement \in Judgements : Reply(judgement)) \/ Break

-----------------------------------------------------------------------------
(* The variables have their types.                                           *)
CallTypeOK ==
  /\ phase \in Phases
  /\ replies \in Seq(Judgements)
  /\ attempts \in 0 .. MaxAttempts
  /\ rawText \in 0 .. Len(replies)
  /\ record \in Records

(* Only JSON that the schema refused is repaired: a reply without JSON ends  *)
(* the call, so every reply that another one follows, or is awaited after,   *)
(* is drift, and the endpoint is asked at most once more than it may repair. *)
OnlyDriftIsRepaired ==
  /\ \A i \in 1 .. Len(replies) - 1 : replies[i] = "drift"
  /\ phase = "waiting" => \A i \in 1 .. Len(replies) : replies[i] = "drift"
  /\ Len(replies) <= MaxAttempts + 1

(* The raw text of an answer is the reply the schema accepted, and its       *)
(* record says whether that reply was a repair.                              *)
AnswerIsTheValidReply ==
  phase = "answered" =>
    /\ rawText = Len(replies) /\ replies[rawText] = "valid"
    /\ record.of = rawText /\ record.severity = "none"
    /\ record.repaired = (rawText > 1)

(* However the call ends with a verdict, the record counts every repair that *)
(* was asked for and holds the text of every repair, JSON or not.            *)
RecordIsComplete ==
  phase \in {"answered", "refused"} =>
    /\ record.of = Len(replies)
    /\ record.attempts = Len(replies) - 1
    /\ record.repairs = Repairs(Len(replies))
=============================================================================
