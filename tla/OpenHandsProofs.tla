--------------------------- MODULE OpenHandsProofs ---------------------------
(* The call of an agent through OpenHands, for any scripts of the agent, any *)
(* set of faults and any number of addresses, polls and broken connections.  *)
(* That a turn ends once, and that the agent does not work on after its end  *)
(* (TurnsAssumption), is used where a theorem is about ends and texts only.  *)
EXTENDS OpenHandsRun, TLAPS

Final == {"done", "raised"}

(* A text is always the index of an event.                                   *)
TextInv ==
  /\ log \in Seq([turn : Nat, kind : Kinds])
  /\ todo \in Seq(Kinds) /\ turns \in Nat /\ pos \in Nat
  /\ r \in Runs /\ r.text \in 0 .. Len(log)

(* So a usable answer has the hand-off of an event behind it.                *)
CallInv ==
  /\ TextInv
  /\ FailureIsReported
  /\ pc = "done" /\ outcome.ok => HandedOver

(* The steps as an observer of the call sees them.                           *)
Quiet ==
  /\ UNCHANGED log
  /\ \/ UNCHANGED <<pc, outcome>>
     \/ pc \notin Final /\ pc' \notin Final

Ends ==
  /\ UNCHANGED <<log, r, todo, turns, pos>>
  /\ pc \notin Final
  /\ \/ pc' = "raised"
     \/ pc' = "done" /\ outcome' = OutcomeOf(r.text)

LEMMA StepKinds == ASSUME [Next]_vars PROVE Quiet \/ Emit \/ Ends
<1> USE DEF Quiet, Ends, Final, server, link
<1>1. CASE TaskEnds \/ BeginTurn
  BY <1>1 DEF TaskEnds, BeginTurn
<1>2. CASE PollTask \/ Started \/ StartFails \/ StartTimesOut
  BY <1>2 DEF PollTask, Started, StartFails, StartSettled, StartTimesOut
<1>3. CASE Connect \/ Receive \/ GraceEnds \/ ReadHistory \/ HistoryFails
  BY <1>3 DEF Connect, Receive, GraceEnds, ReadHistory, HistoryFails, AfterLoop
<1>4. CASE GateWork \/ GateHandoff
  BY <1>4 DEF GateWork, GateHandoff
<1>5. CASE Posted \/ PostFails \/ PostRefused
  BY <1>5 DEF Posted, PostFails, PostRefused
<1>6. CASE Drop \/ StreamEnds
  BY <1>6 DEF Drop, StreamEnds, AfterLoop
<1>7. CASE UNCHANGED vars
  BY <1>7 DEF vars
<1> QED
  BY <1>1, <1>2, <1>3, <1>4, <1>5, <1>6, <1>7 DEF Next, Server, Client, Trouble

(* What is read of an event that is there has the types of the loop.         *)
LEMMA NoteTyped ==
  ASSUME NEW run \in Runs, NEW id \in Nat, NEW kind \in Kinds
  PROVE  Note(run, id, kind) \in Runs /\ Note(run, id, kind).text \in {run.text, id}
BY DEF Note, Runs

LEMMA ElementTyped ==
  ASSUME NEW S, NEW list \in Seq(S), NEW i \in 1 .. Len(list)
  PROVE  list[i] \in S
OBVIOUS

LEMMA EventTyped ==
  ASSUME NEW list \in Seq([turn : Nat, kind : Kinds]), NEW i \in 1 .. Len(list)
  PROVE  list[i].kind \in Kinds
<1> DEFINE events == [turn : Nat, kind : Kinds]
<1>1. list[i] \in events
  <2>1. list \in Seq(events)
    OBVIOUS
  <2> HIDE DEF events
  <2> QED
    BY <2>1, ElementTyped
<1> QED
  BY <1>1

LEMMA TextKept == ASSUME TextInv, [Next]_vars PROVE TextInv'
<1> USE DEF TextInv
<1>1. CASE Emit
  BY <1>1 DEF Emit, link
<1>2. CASE BeginTurn
  BY <1>2, RunAssumption DEF BeginTurn, link
<1>3. CASE Connect
  BY <1>3 DEF Connect, server
<1>4. CASE Receive
  <2>1. /\ pos' = pos + 1 /\ pos' \in 1 .. Len(log)
        /\ UNCHANGED <<log, todo, turns>>
        /\ r' \in {r, Note(r, pos', log[pos'].kind)}
    BY <1>4 DEF Receive, server
  <2> DEFINE kind == log[pos'].kind
  <2>2. pos' \in Nat /\ r \in Runs
    BY <2>1
  <2>3. kind \in Kinds
    <3>1. log \in Seq([turn : Nat, kind : Kinds])
      OBVIOUS
    <3> QED
      BY <2>1, <3>1, EventTyped
  <2>4. Note(r, pos', kind) \in Runs /\ Note(r, pos', kind).text \in {r.text, pos'}
    <3> HIDE DEF kind
    <3> QED
      BY <2>2, <2>3, NoteTyped
  <2>5. r' \in Runs /\ r'.text \in {r.text, pos + 1}
    BY <2>1, <2>4
  <2> QED
    BY <2>1, <2>5
<1>5. CASE ReadHistory
  BY <1>5 DEF ReadHistory, server, link, Runs
<1>6. CASE Posted
  BY <1>6 DEF Posted, NoRun, Runs
<1>7. CASE \/ TaskEnds \/ PollTask \/ Started \/ StartFails \/ StartTimesOut
           \/ PostFails \/ PostRefused \/ Drop \/ HistoryFails
  BY <1>7 DEF TaskEnds, PollTask, Started, StartFails, StartSettled,
              StartTimesOut, PostFails, PostRefused, Drop, HistoryFails,
              server, link
<1>8. CASE GraceEnds \/ StreamEnds
  BY <1>8 DEF GraceEnds, StreamEnds, server, link
<1>9. CASE GateWork \/ GateHandoff
  BY <1>9 DEF GateWork, GateHandoff, server, link
<1>10. CASE UNCHANGED vars
  BY <1>10 DEF vars, server, link
<1> QED
  BY <1>1, <1>2, <1>3, <1>4, <1>5, <1>6, <1>7, <1>8, <1>9, <1>10
  DEF Next, Server, Client, Trouble

(* What was handed over stays in the conversation.                           *)
LEMMA HandedOverStays == ASSUME TextInv, Emit, HandedOver PROVE HandedOver'
<1>1. PICK i \in 1 .. Len(log) : log[i].kind = "handoff"
  BY DEF HandedOver
<1>2. i \in 1 .. Len(log') /\ log'[i] = log[i]
  BY DEF Emit, TextInv
<1> QED
  BY <1>1, <1>2 DEF HandedOver

(* An outcome is good exactly when it names no failure, and only a hand-off  *)
(* makes it good.                                                            *)
LEMMA OutcomeIsClear ==
  ASSUME NEW text \in 0 .. Len(log), log \in Seq([turn : Nat, kind : Kinds])
  PROVE  /\ OutcomeOf(text).ok <=> OutcomeOf(text).failure = "none"
         /\ OutcomeOf(text).ok => HandedOver
<1>1. /\ OutcomeOf(text).ok <=> GateFailure(text) = "none" /\ Structured(text)
      /\ OutcomeOf(text).failure =
           IF GateFailure(text) # "none" THEN GateFailure(text)
           ELSE IF Structured(text) THEN "none"
           ELSE "evidence_contract_missing"
  BY DEF OutcomeOf
<1>2. Structured(text) => HandedOver
  BY DEF Structured, HandedOver
<1> QED
  BY <1>1, <1>2

LEMMA CallStarts == ASSUME Init PROVE CallInv
  BY DEF Init, CallInv, TextInv, NoRun, Runs, FailureIsReported

LEMMA CallKept == ASSUME CallInv, [Next]_vars PROVE CallInv'
<1>1. TextInv /\ TextInv'
  BY TextKept DEF CallInv
<1>2. CASE Quiet
  BY <1>1, <1>2 DEF Quiet, Final, CallInv, FailureIsReported, HandedOver
<1>3. CASE Emit
  BY <1>1, <1>3, HandedOverStays DEF Emit, CallInv, FailureIsReported
<1>4. CASE Ends
  <2>1. /\ OutcomeOf(r.text).ok <=> OutcomeOf(r.text).failure = "none"
        /\ OutcomeOf(r.text).ok => HandedOver
    BY <1>1, OutcomeIsClear DEF TextInv
  <2>2. HandedOver' = HandedOver
    BY <1>4 DEF Ends, HandedOver
  <2> QED
    BY <1>1, <1>4, <2>1, <2>2 DEF Ends, CallInv, FailureIsReported
<1> QED
  BY <1>2, <1>3, <1>4, StepKinds

(* Every call that ends without usable evidence names a failure, whatever    *)
(* the agent said and whatever broke.                                        *)
THEOREM FailuresAreReported == Spec => []FailureIsReported
<1>1. CallInv => FailureIsReported
  BY DEF CallInv
<1> QED
  BY CallStarts, CallKept, <1>1, PTL DEF Spec

(* The call through OpenHands is an AgentCall: it replies once, and with     *)
(* evidence only when the agent has handed its work over.                    *)
THEOREM CallImplemented == Spec => ImplementsCall
<1>1. Init => Call!Init
  BY DEF Init, Call!Init, HandedOver, ReplyOf
<1>2. ASSUME CallInv, CallInv', [Next]_vars PROVE [Call!Next]_(Call!vars)
  <2> USE DEF Call!Next, Call!vars
  <2>1. CASE Quiet
    BY <2>1 DEF Quiet, Final, HandedOver, ReplyOf
  <2>2. CASE Emit
    <3>1. HandedOver => HandedOver'
      BY <1>2, <2>2, HandedOverStays DEF CallInv
    <3>2. ReplyOf' = ReplyOf
      BY <2>2 DEF Emit, ReplyOf
    <3> QED
      BY <3>1, <3>2 DEF Call!HandOver, HandedOver
  <2>3. CASE Ends
    <3>1. HandedOver' = HandedOver
      BY <2>3 DEF Ends, HandedOver
    <3>2. ReplyOf = "none"
      BY <2>3 DEF Ends, Final, ReplyOf
    <3>3. ReplyOf' \in {"ok", "retryable", "raised"}
      BY <2>3 DEF Ends, ReplyOf
    <3>4. ReplyOf' = "ok" => HandedOver
      BY <1>2, <2>3, <3>1 DEF Ends, ReplyOf, CallInv
    <3> QED
      BY <3>1, <3>2, <3>3, <3>4 DEF Call!Reply
  <2> QED
    BY <1>2, <2>1, <2>2, <2>3, StepKinds
<1> QED
  BY <1>1, <1>2, CallStarts, CallKept, PTL DEF Spec, ImplementsCall, Call!Spec

-----------------------------------------------------------------------------
(* The types: of the control, of what was read, and of the answers.          *)
ControlTyped ==
  /\ queue \in Nat
  /\ task \in {"working", "ready", "error"}
  /\ polled \in {"working", "ready", "error"}
  /\ pc \in PCs /\ round \in {1, 2} /\ attempt \in 0..MaxAttempts
  /\ base \in 1..Bases + 1
  /\ conn \in BOOLEAN /\ drops \in 0..MaxDrops
  /\ broken \subseteq Faults

ReadingTyped ==
  /\ pos \in 0..Len(log) /\ seen \subseteq 1..Len(log)
  /\ r.end \in 0..Len(log)

AnswersTyped ==
  /\ first \in Runs
  /\ outcome \in [ok : BOOLEAN, failure : Failures, text : 0..Len(log),
                  transport : BOOLEAN]

LEMMA ControlKept == ASSUME ControlTyped, [Next]_vars PROVE ControlTyped'
<1>0. /\ Bases \in Nat /\ MaxAttempts \in Nat /\ MaxDrops \in Nat
      /\ ControlTyped
  BY RunAssumption
<1> USE DEF ControlTyped, PCs
<1>1. CASE Server
  BY <1>0, <1>1 DEF Server, TaskEnds, BeginTurn, Emit, link
<1>2. CASE Client
  <2>1. CASE PollTask
    BY <1>0, <1>2, <2>1 DEF Client, PollTask, server, link
  <2>2. CASE Started \/ StartFails \/ StartTimesOut
    BY <1>0, <1>2, <2>2 DEF Client, Started, StartFails, StartSettled, StartTimesOut,
                      server, link
  <2>3. CASE Connect \/ Receive \/ GraceEnds \/ ReadHistory
    BY <1>0, <1>2, <2>3 DEF Client, Connect, Receive, GraceEnds, ReadHistory,
                      AfterLoop, server, link
  <2>4. CASE GateWork \/ GateHandoff
    BY <1>0, <1>2, <2>4 DEF Client, GateWork, GateHandoff, server, link
  <2>5. CASE Posted
    <3>1. conn' \in BOOLEAN
      BY <2>5 DEF Posted
    <3>2. /\ queue' = queue + 1 /\ pc' = "stream" /\ round' = 2
          /\ UNCHANGED <<task, polled, attempt, base, drops, broken>>
      BY <1>2, <2>5 DEF Client, Posted
    <3> QED
      BY <1>0, <3>1, <3>2
  <2>6. CASE PostRefused
    <3>1. pc' = "raised" /\ UNCHANGED <<queue, task, polled, round, attempt,
                                        base, conn, drops, broken>>
      BY <1>2, <2>6 DEF Client, PostRefused, server, link
    <3> QED
      BY <1>0, <3>1
  <2> QED
    BY <1>2, <2>1, <2>2, <2>3, <2>4, <2>5, <2>6 DEF Client
<1>3. CASE Drop
  <2>1. conn' \in BOOLEAN
    BY <1>3 DEF Drop
  <2>2. /\ drops < MaxDrops /\ drops' = drops + 1 /\ broken' \subseteq Faults
        /\ UNCHANGED <<queue, task, polled, pc, round, attempt, base>>
    BY <1>0, <1>3 DEF Drop, Goes, server
  <2> QED
    BY <1>0, <2>1, <2>2
<1>6. CASE StreamEnds \/ HistoryFails
  BY <1>0, <1>6 DEF StreamEnds, HistoryFails, Goes, AfterLoop, server, link
<1>4. CASE PostFails
  BY <1>0, <1>4 DEF PostFails, Goes, server, link
<1>5. CASE UNCHANGED vars
  BY <1>0, <1>5 DEF vars, server, link
<1> QED
  BY <1>1, <1>2, <1>3, <1>4, <1>5, <1>6 DEF Next, Trouble

(* An event that ends a turn is known by its place in the conversation.      *)
LEMMA NoteEnds ==
  ASSUME NEW run \in Runs, NEW id \in Nat, NEW kind
  PROVE  Note(run, id, kind).end \in {run.end, id}
BY DEF Note, Runs

(* The steps that read events, or make room for others, are few.             *)
LEMMA ReadingSteps ==
  ASSUME [Next]_vars, ~Emit, ~Receive, ~Connect, ~Posted, ~ReadHistory
  PROVE  UNCHANGED <<log, pos, seen, r, round>>
<1>1. CASE TaskEnds \/ BeginTurn
  BY <1>1 DEF TaskEnds, BeginTurn, link
<1>2. CASE PollTask \/ Started \/ StartFails \/ StartTimesOut
  BY <1>2 DEF PollTask, Started, StartFails, StartSettled, StartTimesOut,
              server, link
<1>3. CASE GraceEnds \/ GateWork \/ GateHandoff \/ PostRefused
  BY <1>3 DEF GraceEnds, GateWork, GateHandoff, PostRefused, server, link
<1>4. CASE Drop \/ StreamEnds \/ HistoryFails \/ PostFails
  BY <1>4 DEF Drop, StreamEnds, HistoryFails, PostFails, server, link
<1>5. CASE UNCHANGED vars
  BY <1>5 DEF vars, server, link
<1> QED
  BY <1>1, <1>2, <1>3, <1>4, <1>5 DEF Next, Server, Client, Trouble

LEMMA ReadingKept ==
  ASSUME TextInv, ReadingTyped, [Next]_vars PROVE ReadingTyped'
<1> USE DEF ReadingTyped
<1>1. CASE Emit
  BY <1>1 DEF Emit, link, TextInv
<1>2. CASE Receive
  <2>1. /\ pos' = pos + 1 /\ pos' \in 1 .. Len(log) /\ log' = log
        /\ seen' = seen \cup {pos'}
        /\ r' \in {r, Note(r, pos', log[pos'].kind)}
    BY <1>2 DEF Receive, server, TextInv
  <2>2. Note(r, pos', log[pos'].kind).end \in {r.end, pos'}
    BY <2>1, NoteEnds DEF TextInv
  <2> QED
    BY <2>1, <2>2
<1>3. CASE Connect \/ Posted \/ ReadHistory
  BY <1>3 DEF Connect, Posted, ReadHistory, NoRun, server, link, TextInv, Runs
<1>4. CASE ~Emit /\ ~Receive /\ ~Connect /\ ~Posted /\ ~ReadHistory
  BY <1>4, ReadingSteps
<1> QED
  BY <1>1, <1>2, <1>3, <1>4

LEMMA OutcomeTyped ==
  ASSUME NEW text \in 0 .. Len(log)
  PROVE  OutcomeOf(text) \in [ok : BOOLEAN, failure : Failures,
                              text : 0..Len(log), transport : BOOLEAN]
BY DEF OutcomeOf, GateFailure, Structured, Failures

LEMMA AnswersKept ==
  ASSUME TextInv, AnswersTyped, [Next]_vars PROVE AnswersTyped'
<1>1. CASE GateWork
  BY <1>1, OutcomeTyped DEF GateWork, server, AnswersTyped, TextInv
<1>2. CASE GateHandoff
  BY <1>2, OutcomeTyped DEF GateHandoff, server, AnswersTyped, TextInv
<1>3. CASE Emit
  <2>1. /\ Len(log) \in Nat /\ Len(log') = Len(log) + 1
        /\ UNCHANGED <<first, outcome>>
    BY <1>3 DEF Emit, TextInv
  <2>2. 0..Len(log) \subseteq 0..Len(log')
    BY <2>1
  <2> QED
    BY <2>1, <2>2 DEF AnswersTyped
<1>4. CASE ~GateWork /\ ~GateHandoff /\ ~Emit
  <2>1. UNCHANGED <<log, first, outcome>>
    <3>1. CASE TaskEnds \/ BeginTurn
      BY <3>1 DEF TaskEnds, BeginTurn
    <3>2. CASE PollTask \/ Started \/ StartFails \/ StartTimesOut
      BY <3>2 DEF PollTask, Started, StartFails, StartSettled, StartTimesOut,
                  server
    <3>3. CASE Connect \/ Receive \/ GraceEnds \/ ReadHistory
      BY <3>3 DEF Connect, Receive, GraceEnds, ReadHistory, server
    <3>4. CASE Posted \/ PostRefused
      BY <3>4 DEF Posted, PostRefused, server
    <3>5. CASE Drop \/ StreamEnds \/ HistoryFails \/ PostFails
      BY <3>5 DEF Drop, StreamEnds, HistoryFails, PostFails, server
    <3>6. CASE UNCHANGED vars
      BY <3>6 DEF vars, server
    <3> QED
      BY <1>4, <3>1, <3>2, <3>3, <3>4, <3>5, <3>6
      DEF Next, Server, Client, Trouble
  <2> QED
    BY <2>1 DEF AnswersTyped
<1> QED
  BY <1>1, <1>2, <1>3, <1>4

(* The variables keep their types: a text or an end is always an event that  *)
(* is there, and nothing is known that was not said.                         *)
THEOREM TypesKept == Spec => []TypeOK
<1> DEFINE Typed == TextInv /\ ControlTyped /\ ReadingTyped /\ AnswersTyped
<1>1. Init => Typed
  <2>1. Init => TextInv
    BY CallStarts DEF CallInv
  <2>2. Init => ControlTyped
    <3>1. Init => conn \in BOOLEAN
      BY DEF Init
    <3>2. /\ 0 \in 0..MaxAttempts /\ 0 \in 0..MaxDrops
          /\ 1 \in 1..Bases + 1
      BY RunAssumption
    <3>3. Init => /\ queue \in Nat /\ attempt \in 0..MaxAttempts
                  /\ base \in 1..Bases + 1 /\ drops \in 0..MaxDrops
                  /\ round \in {1, 2}
      BY <3>2 DEF Init
    <3>4. Init => /\ task = "working" /\ polled = "working" /\ pc = "poll"
                  /\ broken = {}
      BY DEF Init
    <3> QED
      BY <3>1, <3>3, <3>4 DEF ControlTyped, PCs
  <2>3. Init => ReadingTyped
    BY DEF Init, ReadingTyped, NoRun
  <2>4. Init => AnswersTyped
    BY DEF Init, AnswersTyped, NoRun, NoOutcome, Runs, Failures
  <2> QED
    BY <2>1, <2>2, <2>3, <2>4
<1>2. Typed /\ [Next]_vars => Typed'
  BY TextKept, ControlKept, ReadingKept, AnswersKept
<1>3. Typed => TypeOK
  BY DEF TextInv, ControlTyped, ReadingTyped, AnswersTyped, TypeOK
<1> HIDE DEF Typed
<1> QED
  BY <1>1, <1>2, <1>3, PTL DEF Spec

-----------------------------------------------------------------------------
(* Which end of a turn a run has read.                                       *)

Terminal(i) == log[i].kind \in TerminalKinds

(* An event belongs to a turn begun; after the end of a turn its script      *)
(* holds neither a second end nor work.                                      *)
TurnInv ==
  /\ EndsOnce(todo)
  /\ \A i \in 1..Len(log) : log[i].turn \in 1..turns
  /\ turns = 0 => todo = <<>>
  /\ \A i \in 1..Len(log) : Terminal(i) /\ log[i].turn = turns =>
       \A j \in 1..Len(todo) : todo[j] \notin TerminalKinds \cup {"activity"}
  /\ \A i, j \in 1..Len(log) :
       Terminal(i) /\ Terminal(j) /\ log[i].turn = log[j].turn => i = j

(* While no message was posted twice there is at most one turn for each      *)
(* round, and the first round never sees a turn but the first.               *)
StartInv ==
  /\ task = "working" => /\ pc \in {"poll", "raised"} /\ polled = "working"
                         /\ turns = 0 /\ queue = 0
  /\ pc \in {"poll", "post"} => round = 1
  /\ round = 1 /\ pc \in {"poll", "stream", "rest", "gate"} =>
       "resend" \notin broken
  /\ "resend" \notin broken => turns + queue <= round

(* What was seen is the conversation up to some event: every connection      *)
(* reads it from the start and in order.                                     *)
SeenInv ==
  /\ \A i \in seen, j \in 1..Len(log) : j <= i => j \in seen
  /\ \A j \in 1..pos : j \in seen
  /\ r.end # 0 => r.end \in seen /\ Terminal(r.end)
  /\ r.terminal => r.end # 0
  /\ round = 1 => \A i \in seen : log[i].turn = 1

Closed == {"rest", "gate", "post", "done"}

(* A run that was read through is over only after an end, and the second     *)
(* round has seen the end of the first.                                      *)
RoundInv ==
  /\ ReadThrough /\ pc \in Closed => r.end # 0
  /\ ReadThrough /\ (pc = "post" \/ round = 2) =>
       first.end \in seen /\ Terminal(first.end) /\ log[first.end].turn = 1
  /\ EndIsOwn

LEMMA EventAt ==
  ASSUME TypeOK, NEW i \in 1 .. Len(log)
  PROVE  log[i].turn \in Nat /\ log[i].kind \in Kinds
<1>1. log \in Seq([turn : Nat, kind : Kinds])
  BY DEF TypeOK
<1>2. log[i] \in [turn : Nat, kind : Kinds]
  BY <1>1, ElementTyped
<1> QED BY <1>2

(* The conversation only grows, by the events the agent emits.               *)
LEMMA Emitted ==
  ASSUME TypeOK, Emit
  PROVE  /\ Len(log) \in Nat /\ Len(log') = Len(log) + 1
         /\ \A i \in 1..Len(log) : log'[i] = log[i]
         /\ log'[Len(log) + 1] = [turn |-> turns, kind |-> todo[1]]
         /\ Len(todo) \in Nat \ {0} /\ Len(todo') = Len(todo) - 1
         /\ \A i \in 1..Len(todo') : todo'[i] = todo[i + 1]
BY DEF Emit, TypeOK

LEMMA LogKept ==
  ASSUME [Next]_vars
  PROVE  Emit \/ BeginTurn \/ UNCHANGED <<log, todo, turns>>
<1> USE DEF server, link
<1>1. CASE TaskEnds
  BY <1>1 DEF TaskEnds
<1>2. CASE PollTask \/ Started \/ StartFails \/ StartTimesOut
  BY <1>2 DEF PollTask, Started, StartFails, StartSettled, StartTimesOut
<1>3. CASE Connect \/ Receive \/ GraceEnds \/ ReadHistory
  BY <1>3 DEF Connect, Receive, GraceEnds, ReadHistory
<1>4. CASE GateWork \/ GateHandoff \/ Posted \/ PostRefused
  BY <1>4 DEF GateWork, GateHandoff, Posted, PostRefused
<1>5. CASE Drop \/ StreamEnds \/ HistoryFails \/ PostFails
  BY <1>5 DEF Drop, StreamEnds, HistoryFails, PostFails
<1>6. CASE UNCHANGED vars
  BY <1>6 DEF vars
<1> QED
  BY <1>1, <1>2, <1>3, <1>4, <1>5, <1>6 DEF Next, Server, Client, Trouble

LEMMA TurnKept == ASSUME TypeOK, TurnInv, [Next]_vars PROVE TurnInv'
<1>1. CASE Emit
  <2> PICK n \in Nat, m \in Nat : n = Len(log) /\ m = Len(todo)
    BY DEF TypeOK
  <2>1. /\ Len(log') = n + 1 /\ m # 0 /\ Len(todo') = m - 1
        /\ \A i \in 1..n : log'[i] = log[i]
        /\ log'[n + 1].turn = turns /\ log'[n + 1].kind = todo[1]
        /\ \A i \in 1..m - 1 : todo'[i] = todo[i + 1]
    BY <1>1, Emitted
  <2>2. turns' = turns /\ turns \in Nat \ {0}
    BY <1>1 DEF Emit, TypeOK, TurnInv
  <2>3. /\ \A i, j \in 1..m : i < j /\ todo[i] \in TerminalKinds =>
             todo[j] \notin TerminalKinds \cup {"activity"}
        /\ \A i \in 1..n : log[i].turn \in 1..turns
        /\ \A i \in 1..n : log[i].kind \in TerminalKinds /\ log[i].turn = turns =>
             \A j \in 1..m : todo[j] \notin TerminalKinds \cup {"activity"}
        /\ \A i, j \in 1..n :
             /\ log[i].kind \in TerminalKinds /\ log[j].kind \in TerminalKinds
             /\ log[i].turn = log[j].turn
             => i = j
    BY DEF TurnInv, Terminal, EndsOnce
  <2>4. \A i \in 1..m - 1 : i + 1 \in 1..m /\ 1 < i + 1
    OBVIOUS
  <2>5. \A i \in 1..n + 1 : i \in 1..n \/ i = n + 1
    OBVIOUS
  <2>6. 1 \in 1..m
    BY <2>1
  <2>7. ASSUME NEW i \in 1..m - 1, NEW j \in 1..m - 1, i < j,
               todo'[i] \in TerminalKinds
        PROVE  todo'[j] \notin TerminalKinds \cup {"activity"}
    <3>1. i + 1 \in 1..m /\ j + 1 \in 1..m /\ i + 1 < j + 1
      BY <2>7
    <3>2. todo[i + 1] \in TerminalKinds /\ todo'[j] = todo[j + 1]
      BY <2>1, <2>7
    <3> QED BY <2>3, <3>1, <3>2
  <2>8. EndsOnce(todo')
    BY <2>1, <2>7 DEF EndsOnce
  <2>9. ASSUME NEW i \in 1..n + 1 PROVE log'[i].turn \in 1..turns
    BY <2>1, <2>2, <2>3, <2>5
  <2>10. ASSUME NEW i \in 1..n + 1, log'[i].kind \in TerminalKinds,
                log'[i].turn = turns, NEW j \in 1..m - 1
         PROVE  todo'[j] \notin TerminalKinds \cup {"activity"}
    <3>1. j + 1 \in 1..m /\ 1 < j + 1 /\ todo'[j] = todo[j + 1]
      BY <2>1, <2>4
    <3>2. CASE i \in 1..n
      <4>1. log[i].kind \in TerminalKinds /\ log[i].turn = turns
        BY <3>2, <2>1, <2>10
      <4> QED BY <2>3, <3>1, <3>2, <4>1
    <3>3. CASE i = n + 1
      <4>1. todo[1] \in TerminalKinds
        BY <3>3, <2>1, <2>10
      <4> QED BY <2>3, <2>6, <3>1, <4>1
    <3> QED BY <3>2, <3>3, <2>5
  <2>11. ASSUME NEW i \in 1..n, log'[i].kind \in TerminalKinds,
                log'[n + 1].kind \in TerminalKinds,
                log'[i].turn = log'[n + 1].turn
         PROVE  FALSE
    <3>1. log[i].kind \in TerminalKinds /\ log[i].turn = turns
      BY <2>1, <2>11
    <3>2. todo[1] \in TerminalKinds
      BY <2>1, <2>11
    <3> QED BY <2>3, <2>6, <3>1, <3>2
  <2>12. ASSUME NEW i \in 1..n + 1, NEW j \in 1..n + 1,
                log'[i].kind \in TerminalKinds, log'[j].kind \in TerminalKinds,
                log'[i].turn = log'[j].turn
         PROVE  i = j
    <3>1. CASE i \in 1..n /\ j \in 1..n
      <4>1. log'[i] = log[i] /\ log'[j] = log[j]
        BY <3>1, <2>1
      <4> QED BY <3>1, <2>3, <2>12, <4>1
    <3>2. CASE i \in 1..n /\ j = n + 1
      BY <3>2, <2>11, <2>12
    <3>3. CASE i = n + 1 /\ j \in 1..n
      BY <3>3, <2>11, <2>12
    <3> QED BY <3>1, <3>2, <3>3, <2>5
  <2> QED BY <2>1, <2>2, <2>8, <2>9, <2>10, <2>12 DEF TurnInv, Terminal
<1>2. CASE BeginTurn
  <2>1. /\ todo' \in FirstTurns \cup FollowupTurns
        /\ turns' = turns + 1 /\ log' = log /\ turns \in Nat
    BY <1>2 DEF BeginTurn, TypeOK
  <2>2. EndsOnce(todo')
    BY <2>1, TurnsAssumption
  <2>3. \A i \in 1..Len(log) : log[i].turn \in 1..turns
    BY DEF TurnInv
  <2>4. \A i \in 1..Len(log) : log[i].turn \in 1..turns' /\ log[i].turn # turns'
    BY <2>1, <2>3
  <2> QED BY <2>1, <2>2, <2>4 DEF TurnInv, Terminal
<1>3. CASE UNCHANGED <<log, todo, turns>>
  BY <1>3 DEF TurnInv, Terminal
<1> QED BY <1>1, <1>2, <1>3, LogKept

LEMMA StartKept == ASSUME TypeOK, StartInv, [Next]_vars PROVE StartInv'
<1>1. turns \in Nat /\ queue \in Nat /\ round \in {1, 2}
  BY DEF TypeOK
<1> USE DEF StartInv, server, link
<1>2. CASE TaskEnds /\ UNCHANGED broken
  BY <1>1, <1>2 DEF TaskEnds
<1>3. CASE BeginTurn /\ UNCHANGED broken
  <2>1. /\ turns' = turns + 1 /\ queue' = queue - 1 /\ queue > 0
        /\ UNCHANGED <<task, pc, polled, round, broken>>
    BY <1>3 DEF BeginTurn
  <2> QED BY <1>1, <2>1
<1>4. CASE Emit /\ UNCHANGED broken
  BY <1>4 DEF Emit
<1>5. CASE PollTask /\ UNCHANGED broken
  BY <1>5 DEF PollTask
<1>6. CASE (Started \/ StartFails \/ StartTimesOut) /\ UNCHANGED broken
  BY <1>6 DEF Started, StartFails, StartSettled, StartTimesOut
<1>7. CASE (Connect \/ Receive \/ GraceEnds \/ ReadHistory) /\ UNCHANGED broken
  BY <1>7 DEF Connect, Receive, GraceEnds, ReadHistory, AfterLoop
<1>8. CASE (GateWork \/ GateHandoff \/ PostRefused) /\ UNCHANGED broken
  BY <1>8 DEF GateWork, GateHandoff, PostRefused
<1>9. CASE Posted /\ UNCHANGED broken
  <2>1. /\ pc = "post" /\ pc' = "stream" /\ queue' = queue + 1 /\ round' = 2
        /\ UNCHANGED <<task, polled, turns, broken>>
    BY <1>9 DEF Posted
  <2>2. "resend" \notin broken => turns + queue <= 1
    BY <2>1, <1>1
  <2> QED BY <1>1, <2>1, <2>2
<1>10. CASE Drop \/ StreamEnds \/ HistoryFails
  BY <1>10 DEF Drop, StreamEnds, HistoryFails, Goes, AfterLoop
<1>11. CASE PostFails
  <2>1. /\ pc = "post" /\ UNCHANGED <<task, polled, turns, pc, round>>
        /\ \/ broken' = broken \cup {"refuse"} /\ queue' = queue
           \/ broken' = broken \cup {"resend"}
    BY <1>11 DEF PostFails, Goes
  <2> QED BY <1>1, <2>1
<1>12. CASE UNCHANGED vars
  BY <1>12 DEF vars
<1> QED
  BY <1>2, <1>3, <1>4, <1>5, <1>6, <1>7, <1>8, <1>9, <1>10, <1>11, <1>12
  DEF Next, Server, Client, Trouble

(* What one event does to what a run has read.                               *)
LEMMA NoteFields ==
  ASSUME NEW run \in Runs, NEW id \in Nat \ {0}, NEW kind \in Kinds
  PROVE  LET new == Note(run, id, kind)
         IN  /\ new.text = IF kind \in TextKinds THEN id ELSE run.text
             /\ new.end = IF kind \in TerminalKinds THEN id ELSE run.end
             /\ new.terminal => run.terminal \/
                                (kind \in TerminalKinds /\ run.text = 0)
             /\ EndsLoop(new, kind) => new.end # 0 \/ run.terminal
             /\ EndsLoop(new, kind) /\ kind \notin TerminalKinds => run.terminal
<1> DEFINE new == Note(run, id, kind)
<1>1. /\ new.text = IF kind \in TextKinds THEN id ELSE run.text
      /\ new.end = IF kind \in TerminalKinds THEN id ELSE run.end
      /\ new.terminal => run.terminal \/ (kind \in TerminalKinds /\ run.text = 0)
  <2>1. new.text = IF kind \in TextKinds THEN id ELSE run.text
    BY DEF Note, Runs
  <2>2. new.end = IF kind \in TerminalKinds THEN id ELSE run.end
    BY DEF Note, Runs
  <2>3. new.terminal => run.terminal \/ (kind \in TerminalKinds /\ run.text = 0)
    BY DEF Note, Runs
  <2> QED BY <2>1, <2>2, <2>3
<1>2. kind \in TextKinds => kind \notin TerminalKinds
  BY DEF TextKinds, TerminalKinds
<1> HIDE DEF new
<1>3. EndsLoop(new, kind) => new.end # 0 \/ run.terminal
  BY <1>1, <1>2 DEF EndsLoop
<1>4. EndsLoop(new, kind) /\ kind \notin TerminalKinds => run.terminal
  BY <1>1, <1>2 DEF EndsLoop
<1> QED BY <1>1, <1>3, <1>4 DEF new

LEMMA Received ==
  ASSUME TypeOK, Receive
  PROVE  /\ pc = "stream" /\ conn
         /\ pos' = pos + 1 /\ pos' \in 1..Len(log) /\ pos' \in Nat \ {0}
         /\ seen' = seen \cup {pos'}
         /\ log[pos'].kind \in Kinds /\ r \in Runs
         /\ UNCHANGED <<log, round, conn, first>>
         /\ \/ Known(pos') /\ UNCHANGED <<pc, r>>
            \/ /\ ~Known(pos') /\ r' = Note(r, pos', log[pos'].kind)
               /\ pc' = IF EndsLoop(r', log[pos'].kind)
                        THEN AfterLoop(r') ELSE pc
<1>1. /\ pos' = pos + 1 /\ pos' \in 1..Len(log)
      /\ UNCHANGED <<log, round, conn, first>>
  BY DEF Receive, TypeOK, server
<1>2. pos' \in Nat \ {0} /\ log[pos'].kind \in Kinds /\ r \in Runs
  <2>1. Len(log) \in Nat /\ r \in Runs
    BY DEF TypeOK
  <2>2. log[pos'].kind \in Kinds
    BY <1>1, EventAt
  <2> QED BY <1>1, <2>1, <2>2
<1>3. /\ pc = "stream" /\ conn /\ pos' = pos + 1 /\ seen' = seen \cup {pos'}
      /\ IF Known(pos')
         THEN UNCHANGED <<pc, r>>
         ELSE /\ r' = Note(r, pos', log[pos'].kind)
              /\ pc' = IF EndsLoop(Note(r, pos', log[pos'].kind), log[pos'].kind)
                       THEN AfterLoop(Note(r, pos', log[pos'].kind)) ELSE pc
  BY Zenon DEF Receive
<1>4. CASE Known(pos')
  BY <1>1, <1>2, <1>3, <1>4
<1>5. CASE ~Known(pos')
  <2>1. /\ r' = Note(r, pos', log[pos'].kind)
        /\ pc' = IF EndsLoop(r', log[pos'].kind) THEN AfterLoop(r') ELSE pc
    BY <1>3, <1>5, Zenon
  <2> QED BY <1>1, <1>2, <1>3, <1>5, <2>1
<1> QED BY <1>4, <1>5

LEMMA SeenKept ==
  ASSUME TypeOK, TurnInv, StartInv, SeenInv, [Next]_vars PROVE SeenInv'
<1>0. Len(log) \in Nat /\ seen \subseteq 1..Len(log) /\ pos \in 0..Len(log)
  BY DEF TypeOK
<1>1. CASE Emit
  <2>1. /\ Len(log') = Len(log) + 1
        /\ \A i \in 1..Len(log) : log'[i] = log[i]
        /\ UNCHANGED <<seen, r, pos, round>>
    BY <1>1, Emitted DEF Emit, link
  <2>2. \A i \in seen : i \in 1..Len(log) /\ log'[i] = log[i]
    BY <1>0, <2>1
  <2>3. \A i \in seen, j \in 1..Len(log') : j <= i => j \in 1..Len(log)
    BY <1>0, <2>1
  <2> QED BY <2>1, <2>2, <2>3 DEF SeenInv, Terminal
<1>2. CASE Receive
  <2> DEFINE kind == log[pos'].kind
  <2>1. /\ pos' = pos + 1 /\ pos' \in 1..Len(log) /\ pos' \in Nat \ {0}
        /\ seen' = seen \cup {pos'} /\ kind \in Kinds /\ r \in Runs
        /\ UNCHANGED <<log, round>> /\ pc = "stream"
        /\ \/ UNCHANGED r
           \/ r' = Note(r, pos', kind)
    BY <1>2, Received
  <2>2. /\ \A i \in seen', j \in 1..Len(log) : j <= i => j \in seen'
        /\ \A j \in 1..pos' : j \in seen'
    BY <1>0, <2>1 DEF SeenInv
  <2>3. /\ r'.end # 0 => r'.end \in seen' /\ log[r'.end].kind \in TerminalKinds
        /\ r'.terminal => r'.end # 0
    <3>1. CASE r' = r
      BY <2>1, <3>1 DEF SeenInv, Terminal
    <3>2. CASE r' = Note(r, pos', kind)
      <4>1. /\ r'.end = IF kind \in TerminalKinds THEN pos' ELSE r.end
            /\ r'.terminal => r.terminal \/ kind \in TerminalKinds
        <5> HIDE DEF kind
        <5> QED BY <2>1, <3>2, NoteFields
      <4> QED BY <2>1, <4>1 DEF SeenInv, Terminal
    <3> QED BY <2>1, <3>1, <3>2
  <2>4. ASSUME round = 1 PROVE log[pos'].turn = 1
    <3>1. turns + queue <= 1
      BY <2>1, <2>4 DEF StartInv
    <3>2. log[pos'].turn \in 1..turns /\ turns \in Nat /\ queue \in Nat
      BY <2>1 DEF TurnInv, TypeOK
    <3> QED BY <3>1, <3>2
  <2> QED BY <2>1, <2>2, <2>3, <2>4 DEF SeenInv, Terminal
<1>3. CASE Connect
  BY <1>3 DEF Connect, server, SeenInv, Terminal
<1>4. CASE Posted
  BY <1>4 DEF Posted, NoRun, SeenInv, Terminal
<1>5. CASE ReadHistory
  <2>1. /\ r'.end = r.end /\ r'.terminal = r.terminal
        /\ UNCHANGED <<log, pos, seen, round>>
    BY <1>5 DEF ReadHistory, server, link, TypeOK, Runs
  <2> QED BY <2>1 DEF SeenInv, Terminal
<1>6. CASE ~Emit /\ ~Receive /\ ~Connect /\ ~Posted /\ ~ReadHistory
  <2>1. UNCHANGED <<log, pos, seen, r, round>>
    BY <1>6, ReadingSteps
  <2> QED BY <2>1 DEF SeenInv, Terminal
<1> QED BY <1>1, <1>2, <1>3, <1>4, <1>5, <1>6

(* What went wrong stays in the history.                                     *)
LEMMA TroubleStays == ASSUME [Next]_vars PROVE broken \subseteq broken'
<1>1. CASE Server \/ Client
  BY <1>1 DEF Server, Client
<1>2. CASE Trouble
  BY <1>2 DEF Trouble, Drop, StreamEnds, HistoryFails, PostFails, Goes
<1>3. CASE UNCHANGED vars
  BY <1>3 DEF vars
<1> QED BY <1>1, <1>2, <1>3 DEF Next

LEMMA RoundKept ==
  ASSUME TypeOK, TurnInv, StartInv, SeenInv, RoundInv, [Next]_vars
  PROVE  RoundInv'
<1>0. ReadThrough' => ReadThrough
  BY TroubleStays DEF ReadThrough
<1> USE DEF Terminal, EndIsOwn, Closed
<1>1. CASE Emit /\ UNCHANGED broken
  <2>1. /\ \A i \in 1..Len(log) : log'[i] = log[i]
        /\ UNCHANGED <<seen, r, first, pc, round, broken>>
    BY <1>1, Emitted DEF Emit, link
  <2>2. \A i \in seen : log'[i] = log[i]
    BY <2>1 DEF TypeOK
  <2>3. r.end # 0 => r.end \in seen
    BY DEF SeenInv
  <2> QED BY <2>1, <2>2, <2>3 DEF RoundInv, ReadThrough
<1>2. CASE Receive /\ UNCHANGED broken
  <2> DEFINE kind == log[pos'].kind
  <2>1. /\ pos' \in 1..Len(log) /\ pos' \in Nat \ {0} /\ kind \in Kinds
        /\ r \in Runs /\ pc = "stream" /\ seen \subseteq seen'
        /\ UNCHANGED <<log, round, first, broken>>
        /\ \/ Known(pos') /\ UNCHANGED <<pc, r>>
           \/ /\ ~Known(pos') /\ r' = Note(r, pos', kind)
              /\ pc' = IF EndsLoop(r', kind) THEN AfterLoop(r') ELSE pc
    BY <1>2, Received
  <2>2. CASE UNCHANGED <<pc, r>>
    BY <2>1, <2>2 DEF RoundInv, ReadThrough
  <2>3. CASE /\ ~Known(pos') /\ r' = Note(r, pos', kind)
             /\ pc' = IF EndsLoop(r', kind) THEN AfterLoop(r') ELSE pc
    <3>1. /\ r'.end = IF kind \in TerminalKinds THEN pos' ELSE r.end
          /\ EndsLoop(r', kind) => r'.end # 0 \/ r.terminal
      <4> HIDE DEF kind
      <4> QED BY <2>1, <2>3, NoteFields
    <3>2. EndsLoop(r', kind) => r'.end # 0
      BY <2>1, <3>1 DEF SeenInv
    <3>3. ReadThrough' /\ pc' \in Closed => r'.end # 0
      BY <2>1, <2>3, <3>2
    <3>4. pc' # "post"
      BY <2>1, <2>3 DEF AfterLoop
    <3>5. ASSUME ReadThrough, round = 2, kind \in TerminalKinds
          PROVE  log[pos'].turn >= 2
      <4>1. /\ first.end \in seen /\ log[first.end].kind \in TerminalKinds
            /\ log[first.end].turn = 1
        BY <3>5 DEF RoundInv
      <4>2. pos' \notin seen
        BY <2>3, <3>5 DEF Known
      <4>3. first.end \in 1..Len(log) /\ first.end # pos'
        BY <4>1, <4>2 DEF TypeOK
      <4>4. log[pos'].turn # 1
        BY <2>1, <3>5, <4>1, <4>3 DEF TurnInv
      <4>5. log[pos'].turn \in 1..turns /\ turns \in Nat
        BY <2>1 DEF TurnInv, TypeOK
      <4> QED BY <4>4, <4>5
    <3> QED
      BY <2>1, <2>3, <3>1, <3>3, <3>4, <3>5, <1>0 DEF RoundInv
  <2> QED BY <2>1, <2>2, <2>3
<1>3. CASE GateWork /\ UNCHANGED broken
  <2>1. /\ pc = "gate" /\ round = 1 /\ first' = r
        /\ UNCHANGED <<log, seen, r, round, broken>>
    BY <1>3 DEF GateWork, server
  <2>2. ReadThrough => /\ r.end \in seen /\ log[r.end].kind \in TerminalKinds
                       /\ log[r.end].turn = 1 /\ r.end # 0
    BY <2>1 DEF RoundInv, SeenInv
  <2> QED BY <2>1, <2>2 DEF RoundInv, ReadThrough
<1>4. CASE Posted /\ UNCHANGED broken
  <2>1. /\ pc = "post" /\ pc' = "stream" /\ r'.end = 0
        /\ UNCHANGED <<log, seen, first, broken>>
    BY <1>4 DEF Posted, NoRun
  <2> QED BY <2>1 DEF RoundInv, ReadThrough
<1>5. CASE ReadHistory /\ UNCHANGED broken
  <2>1. /\ pc = "rest" /\ pc' = "gate" /\ r'.end = r.end
        /\ UNCHANGED <<log, seen, round, first, broken>>
    BY <1>5 DEF ReadHistory, server, TypeOK, Runs
  <2> QED BY <2>1 DEF RoundInv, ReadThrough
<1>6. CASE StreamEnds
  <2>1. ~ReadThrough'
    BY <1>6 DEF StreamEnds, Goes, ReadThrough
  <2> QED BY <2>1 DEF RoundInv
<1>7. CASE GraceEnds /\ UNCHANGED broken
  <2>1. /\ r.terminal /\ pc = "stream" /\ pc' \in {"rest", "gate"}
        /\ UNCHANGED <<log, seen, r, round, first, broken>>
    BY <1>7 DEF GraceEnds, AfterLoop, server
  <2>2. r.end # 0
    BY <2>1 DEF SeenInv
  <2> QED BY <2>1, <2>2 DEF RoundInv, ReadThrough
<1>8. CASE \/ (PollTask \/ Started \/ StartFails \/ StartTimesOut
                \/ PostRefused \/ Connect) /\ UNCHANGED broken
           \/ Drop \/ PostFails
  <2>1. /\ UNCHANGED <<log, seen, r, round, first>>
        /\ pc' \in {pc, "raised"} \/ (pc = "poll" /\ pc' = "stream")
    BY <1>8 DEF PollTask, Started, StartFails, StartSettled, StartTimesOut,
                PostRefused, Connect, Drop, PostFails, server
  <2> QED BY <1>0, <2>1 DEF RoundInv
<1>9. CASE (TaskEnds \/ BeginTurn) /\ UNCHANGED broken
  <2>1. UNCHANGED <<log, seen, r, round, first, pc, broken>>
    BY <1>9 DEF TaskEnds, BeginTurn
  <2> QED BY <2>1 DEF RoundInv, ReadThrough
<1>10. CASE GateHandoff \/ HistoryFails
  <2>1. /\ pc \in {"rest", "gate"} /\ pc' \in {"gate", "done"}
        /\ UNCHANGED <<log, seen, r, round, first>>
    BY <1>10 DEF GateHandoff, HistoryFails, server
  <2> QED BY <1>0, <2>1 DEF RoundInv
<1>11. CASE UNCHANGED vars
  BY <1>11 DEF vars, server, RoundInv, ReadThrough
<1> QED
  BY <1>1, <1>2, <1>3, <1>4, <1>5, <1>6, <1>7, <1>8, <1>9, <1>10, <1>11
  DEF Next, Server, Client, Trouble

(* A run that was read through has read the end of its own turn.             *)
ReadInv == TypeOK /\ TurnInv /\ StartInv /\ SeenInv /\ RoundInv

LEMMA ReadAlways == Spec => []ReadInv
<1>1. Init => TurnInv /\ StartInv /\ SeenInv /\ RoundInv
  BY DEF Init, NoRun, TurnInv, EndsOnce, StartInv, SeenInv, RoundInv, EndIsOwn,
         ReadThrough, Closed, Terminal
<1>2. TypeOK /\ TypeOK' /\ (TurnInv /\ StartInv /\ SeenInv /\ RoundInv)
        /\ [Next]_vars => (TurnInv /\ StartInv /\ SeenInv /\ RoundInv)'
  BY TurnKept, StartKept, SeenKept, RoundKept
<1> QED BY <1>1, <1>2, TypesKept, PTL DEF Spec, ReadInv

(* However often the stream is replayed, the follow-up is never ended by the *)
(* status that ended the first turn: the first run has read as far as that   *)
(* status, so that its id is known when the follow-up begins.                *)
THEOREM EndsAreOwn == Spec => []EndIsOwn
<1>1. ReadInv => EndIsOwn
  BY DEF ReadInv, RoundInv
<1> QED BY <1>1, ReadAlways, PTL

(* As long as streams that break are reopened and no message is posted       *)
(* twice, the agent is not at work any more when a stage goes on: the end    *)
(* that was read is of the last turn there is, and nothing waits.            *)
THEOREM NothingWorksOn == Spec => []NoWorkAfterReturn
<1>1. ReadInv => NoWorkAfterReturn
  <2> SUFFICES ASSUME ReadInv, broken \subseteq {"drop", "refuse", "rest"},
                      pc \in {"gate", "post", "done"}
               PROVE  queue = 0 /\ \A i \in 1..Len(todo) : todo[i] # "activity"
    BY DEF NoWorkAfterReturn
  <2> USE DEF ReadInv
  <2>1. ReadThrough /\ "resend" \notin broken
    BY DEF ReadThrough
  <2>2. r.end \in seen /\ Terminal(r.end) /\ r.end # 0
    BY <2>1 DEF RoundInv, SeenInv, Closed
  <2>3. r.end \in 1..Len(log)
    BY <2>2 DEF TypeOK
  <2>4. log[r.end].turn >= round
    <3>1. CASE round = 1
      <4>1. log[r.end].turn = 1
        BY <2>2, <3>1 DEF SeenInv
      <4> QED BY <3>1, <4>1
    <3>2. CASE round = 2
      BY <2>1, <2>2, <3>2 DEF RoundInv, EndIsOwn
    <3> QED BY <3>1, <3>2 DEF TypeOK
  <2>5. log[r.end].turn \in 1..turns /\ turns + queue <= round
    BY <2>1, <2>3 DEF TurnInv, StartInv
  <2>6. turns \in Nat /\ queue \in Nat /\ round \in {1, 2}
    BY DEF TypeOK
  <2>7. queue = 0 /\ log[r.end].turn = turns
    BY <2>4, <2>5, <2>6
  <2> QED BY <2>2, <2>3, <2>7 DEF TurnInv
<1> QED BY <1>1, ReadAlways, PTL

-----------------------------------------------------------------------------
(* Which text a run takes.                                                   *)

(* In the first round a connection takes the last text it has read, and the  *)
(* run knows of an end without a text only when no text comes before it; in  *)
(* the second round only texts that were not read before are taken, so that  *)
(* a replay brings no older one back.                                        *)
NewestInv ==
  /\ pc = "poll" => ~conn /\ ~r.terminal
  /\ round = 1 /\ pc = "stream" /\ conn => \A i \in Texts : i <= pos => i <= r.text
  /\ round = 1 /\ pc = "stream" /\ r.terminal => \A i \in Texts : r.end <= i
  /\ round = 2 => \A i \in Texts \cap seen : log[i].turn >= 2 => i <= r.text
  /\ round = 1 /\ ReadThrough /\ pc \in {"rest", "gate"} =>
       \A i \in Texts : i < r.end => i <= r.text

LEMMA NewestKept ==
  ASSUME TypeOK, TurnInv, StartInv, SeenInv, NewestInv, [Next]_vars
  PROVE  NewestInv'
<1>0. /\ Len(log) \in Nat /\ seen \subseteq 1..Len(log) /\ pos \in 0..Len(log)
      /\ r \in Runs /\ r.text \in 0..Len(log) /\ r.end \in 0..Len(log)
      /\ Texts \subseteq 1..Len(log)
  BY DEF TypeOK, Texts
<1>1. ReadThrough' => ReadThrough
  BY TroubleStays DEF ReadThrough
<1>2. log' = log => Texts' = Texts
  BY DEF Texts
<1>3. CASE Emit
  <2>1. /\ Len(log') = Len(log) + 1
        /\ \A i \in 1..Len(log) : log'[i] = log[i]
        /\ UNCHANGED <<seen, r, pos, conn, pc, round>>
    BY <1>3, Emitted DEF Emit, link
  <2>2. \A i \in Texts' : i \in Texts \/ i = Len(log) + 1
    BY <1>0, <2>1 DEF Texts
  <2>3. \A i \in Texts : log'[i] = log[i]
    BY <1>0, <2>1
  <2>4. \A i \in Texts' : /\ i <= pos \/ i < r.end \/ i \in seen => i \in Texts
                          /\ i \in Texts \/ r.end <= i
    BY <1>0, <2>1, <2>2
  <2>5. /\ pc' = "poll" => ~conn' /\ ~r'.terminal
        /\ round' = 1 /\ pc' = "stream" /\ conn' =>
             \A i \in Texts' : i <= pos' => i <= r'.text
    BY <2>1, <2>4 DEF NewestInv
  <2>6. round' = 1 /\ pc' = "stream" /\ r'.terminal =>
          \A i \in Texts' : r'.end <= i
    BY <2>1, <2>4 DEF NewestInv
  <2>7. round' = 2 => \A i \in Texts' \cap seen' :
                        log'[i].turn >= 2 => i <= r'.text
    BY <2>1, <2>3, <2>4 DEF NewestInv
  <2>8. round' = 1 /\ ReadThrough' /\ pc' \in {"rest", "gate"} =>
          \A i \in Texts' : i < r'.end => i <= r'.text
    BY <1>1, <2>1, <2>4 DEF NewestInv
  <2> QED BY <2>5, <2>6, <2>7, <2>8 DEF NewestInv
<1>4. CASE Receive
  <2> DEFINE kind == log[pos'].kind
  <2>1. /\ pos' = pos + 1 /\ pos' \in 1..Len(log) /\ pos' \in Nat \ {0}
        /\ kind \in Kinds /\ seen' = seen \cup {pos'} /\ pc = "stream" /\ conn
        /\ UNCHANGED <<log, round, conn>>
        /\ \/ Known(pos') /\ UNCHANGED <<pc, r>>
           \/ /\ ~Known(pos') /\ r' = Note(r, pos', kind)
              /\ pc' = IF EndsLoop(r', kind) THEN AfterLoop(r') ELSE pc
    BY <1>4, Received
  <2>2. CASE Known(pos') /\ UNCHANGED <<pc, r>>
    <3>1. round = 2 /\ seen' = seen
      BY <2>1, <2>2 DEF Known
    <3> QED BY <1>1, <1>2, <2>1, <2>2, <3>1 DEF NewestInv
  <2>3. CASE /\ ~Known(pos') /\ r' = Note(r, pos', kind)
             /\ pc' = IF EndsLoop(r', kind) THEN AfterLoop(r') ELSE pc
    <3>1. /\ r'.text = IF kind \in TextKinds THEN pos' ELSE r.text
          /\ r'.end = IF kind \in TerminalKinds THEN pos' ELSE r.end
          /\ r'.terminal => r.terminal \/ (kind \in TerminalKinds /\ r.text = 0)
          /\ EndsLoop(r', kind) /\ kind \notin TerminalKinds => r.terminal
      <4> HIDE DEF kind
      <4> QED BY <1>0, <2>1, <2>3, NoteFields
    <3>2. \A i \in Texts : i = pos' => kind \in TextKinds
      BY DEF Texts
    <3>3. pc' \in {"stream", "rest", "gate"}
      BY <2>1, <2>3 DEF AfterLoop
    <3>4. CASE round = 1
      <4>1. \A i \in Texts : i <= pos => i <= r.text
        BY <2>1, <3>4 DEF NewestInv
      <4>2. \A i \in Texts : i <= pos' => i <= r'.text
        BY <1>0, <2>1, <3>1, <3>2, <4>1
      <4>3. \A i \in Texts : i < pos' => i <= r.text
        BY <1>0, <2>1, <4>1
      <4>4. ASSUME r.terminal
            PROVE  /\ \A i \in Texts : r.end <= i
                   /\ r'.end = r.end
        <5>1. \A i \in Texts : r.end <= i
          BY <2>1, <3>4, <4>4 DEF NewestInv
        <5>2. /\ r.end \in seen /\ r.end \in 1..Len(log)
              /\ log[r.end].kind \in TerminalKinds /\ log[r.end].turn = 1
          BY <1>0, <3>4, <4>4 DEF SeenInv, Terminal
        <5>3. ASSUME kind \in TerminalKinds PROVE r.end = pos'
          <6>1. turns + queue <= 1 /\ log[pos'].turn \in 1..turns
            BY <2>1, <3>4 DEF StartInv, TurnInv
          <6>2. turns \in Nat /\ queue \in Nat
            BY DEF TypeOK
          <6>3. log[pos'].turn = 1
            BY <6>1, <6>2
          <6> QED BY <2>1, <5>2, <5>3, <6>3 DEF TurnInv, Terminal
        <5> QED BY <3>1, <5>1, <5>3
      <4>5. r'.terminal => \A i \in Texts : r'.end <= i
        <5>1. CASE r.terminal
          BY <4>4, <5>1
        <5>2. CASE kind \in TerminalKinds /\ r.text = 0
          BY <1>0, <2>1, <3>1, <4>3, <5>2
        <5> QED BY <3>1, <5>1, <5>2
      <4>6. EndsLoop(r', kind) => \A i \in Texts : i < r'.end => i <= r'.text
        <5>1. CASE kind \in TerminalKinds
          BY <1>0, <2>1, <3>1, <4>2, <5>1
        <5>2. CASE r.terminal
          BY <1>0, <4>4, <5>2
        <5> QED BY <3>1, <5>1, <5>2
      <4>7. pc' \in {"rest", "gate"} => EndsLoop(r', kind)
        BY <2>1, <2>3
      <4> QED BY <1>2, <2>1, <3>3, <3>4, <4>2, <4>5, <4>6, <4>7 DEF NewestInv
    <3>5. CASE round = 2
      <4>1. pos' \notin seen
        BY <2>3, <3>5 DEF Known
      <4>2. \A i \in seen : i < pos'
        BY <1>0, <2>1, <4>1 DEF SeenInv
      <4>3. \A i \in Texts \cap seen : log[i].turn >= 2 => i <= r.text
        BY <3>5 DEF NewestInv
      <4>4. ASSUME NEW i \in Texts, i \in seen', log[i].turn >= 2
            PROVE  i <= r'.text
        <5>1. CASE i = pos'
          BY <2>1, <3>1, <3>2, <5>1
        <5>2. CASE i \in seen
          BY <1>0, <2>1, <3>1, <4>2, <4>3, <4>4, <5>2
        <5> QED BY <2>1, <4>4, <5>1, <5>2
      <4> QED BY <1>2, <2>1, <3>3, <3>5, <4>4 DEF NewestInv
    <3> QED BY <3>4, <3>5 DEF TypeOK
  <2> QED BY <2>1, <2>2, <2>3
<1>5. CASE Connect
  <2>1. pos' = 0 /\ pc = "stream" /\ UNCHANGED <<log, seen, r, pc, round>>
    BY <1>5 DEF Connect, server
  <2>2. \A i \in Texts : ~(i <= 0)
    BY <1>0
  <2> QED BY <1>1, <1>2, <2>1, <2>2 DEF NewestInv
<1>6. CASE Posted
  <2>1. /\ pc = "post" /\ pc' = "stream" /\ round' = 2
        /\ UNCHANGED <<log, seen>>
    BY <1>6 DEF Posted
  <2>2. \A i \in seen : log[i].turn = 1
    BY <2>1 DEF StartInv, SeenInv
  <2>3. \A i \in seen : ~(log[i].turn >= 2)
    BY <2>2
  <2> QED BY <2>1, <2>3 DEF NewestInv
<1>7. CASE ReadHistory
  <2>1. /\ pc' = "gate" /\ UNCHANGED <<log, seen, round>>
        /\ IsLastText(r'.text) /\ r'.end = r.end
    BY <1>7, <1>0 DEF ReadHistory, server, Runs
  <2>2. \A i \in Texts : i <= r'.text
    BY <2>1 DEF IsLastText
  <2> QED BY <1>2, <2>1, <2>2 DEF NewestInv
<1>8. CASE GraceEnds
  <2>1. /\ pc = "stream" /\ r.terminal /\ UNCHANGED <<log, seen, r, round>>
        /\ pc' \in {"rest", "gate"}
    BY <1>8 DEF GraceEnds, AfterLoop, server
  <2>2. round = 1 => \A i \in Texts : ~(i < r.end)
    BY <1>0, <2>1 DEF NewestInv
  <2> QED BY <1>2, <2>1, <2>2 DEF NewestInv
<1>9. CASE StreamEnds
  <2>1. /\ ~ReadThrough' /\ pc' \in {"rest", "gate"}
        /\ UNCHANGED <<log, seen, r, round>>
    BY <1>9 DEF StreamEnds, Goes, ReadThrough, AfterLoop, server
  <2> QED BY <1>2, <2>1 DEF NewestInv
<1>10. CASE Drop
  <2>1. conn' = FALSE /\ UNCHANGED <<log, seen, r, pc, round>>
    BY <1>10 DEF Drop, server
  <2> QED BY <1>1, <1>2, <2>1 DEF NewestInv
<1>11. CASE Started
  <2>1. /\ pc = "poll" /\ UNCHANGED <<log, seen, r, round, conn, pos>>
        /\ pc' = "stream"
    BY <1>11 DEF Started, StartSettled, server, link
  <2> QED BY <1>2, <2>1 DEF NewestInv, StartInv
<1>12. CASE PollTask \/ StartFails \/ StartTimesOut \/ PostRefused \/ PostFails
            \/ GateWork \/ GateHandoff \/ HistoryFails
  <2>1. /\ UNCHANGED <<log, seen, r, round, conn, pos>>
        /\ \/ pc' = pc \/ pc' \in {"raised", "done", "post"}
           \/ pc = "rest" /\ pc' = "gate"
    BY <1>12 DEF PollTask, StartFails, StartSettled, StartTimesOut, PostRefused,
                 PostFails, GateWork, GateHandoff, HistoryFails, server, link
  <2> QED BY <1>1, <1>2, <2>1 DEF NewestInv
<1>13. CASE TaskEnds \/ BeginTurn \/ UNCHANGED vars
  <2>1. UNCHANGED <<log, seen, r, round, conn, pos, pc>>
    BY <1>13 DEF TaskEnds, BeginTurn, vars, server, link
  <2> QED BY <1>1, <1>2, <2>1 DEF NewestInv
<1> QED
  BY <1>3, <1>4, <1>5, <1>6, <1>7, <1>8, <1>9, <1>10, <1>11, <1>12, <1>13
  DEF Next, Server, Client, Trouble

(* A run whose end was read, and whose stream was read through, takes no     *)
(* text that its turn had already replaced by a later one when it ended,     *)
(* however often the stream broke and brought the older texts once more.     *)
THEOREM NewestIsTaken == Spec => []NewestTextTaken
<1>1. Init => NewestInv
  <2> SUFFICES ASSUME Init PROVE NewestInv
    OBVIOUS
  <2>1. /\ pc = "poll" /\ round = 1 /\ conn = FALSE /\ r.terminal = FALSE
    BY DEF Init, NoRun
  <2> QED BY <2>1 DEF NewestInv
<1>2. ReadInv /\ NewestInv /\ [Next]_vars => NewestInv'
  BY NewestKept DEF ReadInv
<1>3. ReadInv /\ NewestInv => NewestTextTaken
  <2> SUFFICES ASSUME ReadInv, NewestInv, ReadThrough, pc = "gate", r.end # 0,
                      NEW i \in Texts, i < r.end, log[i].turn = log[r.end].turn
               PROVE  i <= r.text
    BY DEF NewestTextTaken
  <2> USE DEF ReadInv
  <2>1. CASE round = 1
    BY <2>1 DEF NewestInv
  <2>2. CASE round = 2
    <3>1. log[r.end].turn >= 2
      BY <2>2 DEF RoundInv, EndIsOwn
    <3>2. r.end \in seen /\ i \in 1..Len(log) /\ i <= r.end
      BY DEF SeenInv, Texts, TypeOK
    <3>3. i \in seen
      BY <3>2 DEF SeenInv
    <3> QED BY <2>2, <3>1, <3>3 DEF NewestInv
  <2> QED BY <2>1, <2>2 DEF TypeOK
<1> QED BY <1>1, <1>2, <1>3, ReadAlways, PTL DEF Spec

=============================================================================
