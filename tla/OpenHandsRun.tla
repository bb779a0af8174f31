----------------------------- MODULE OpenHandsRun -----------------------------
(* One stage call through OpenHands: the adapter starts a conversation,      *)
(* follows its event stream to a result, asks in the same conversation for a *)
(* machine-readable hand-off, follows the stream again, and classifies what  *)
(* it got.                                                                   *)
(*                                                                           *)
(* The conversation is a log of events, read by index: the stream is opened  *)
(* with resend_all, so every connection begins at the first event.  A text   *)
(* is named by the index of its event.  The agent works by turns, one per    *)
(* message it accepted; what it emits in a turn is a script.                 *)
EXTENDS Naturals, Sequences, FiniteSets

CONSTANTS
  FirstTurns,     \* scripts of the turn that does the work
  FollowupTurns,  \* scripts of a turn that writes the hand-off
  Bases,          \* number of addresses a follow-up is posted to
  MaxAttempts,    \* polls of a start task
  Faults,         \* what may go wrong, of FaultKinds
  MaxDrops        \* bound on the connections that break

TextKinds == {"report", "handoff", "complaint"}
TerminalKinds == {"finished", "stuck"}
Kinds == TextKinds \cup TerminalKinds \cup {"running", "activity", "page"}
FaultKinds ==
  {"drop",     \* a connection breaks, or an address does not answer
   "giveup",   \* no connection before the retry deadline
   "close",    \* the server closes the stream in order
   "refuse",   \* an address refuses a follow-up
   "resend",   \* a follow-up is accepted, but its response does not arrive
   "rest"}     \* the history cannot be read

ASSUME RunAssumption ==
  /\ \A t \in FirstTurns \cup FollowupTurns : t \in Seq(Kinds)
  /\ Bases \in Nat /\ MaxAttempts \in Nat /\ MaxDrops \in Nat
  /\ Faults \subseteq FaultKinds

(* A turn ends once, and the agent works on nothing after its end; it may    *)
(* still bring a text that was on its way.                                   *)
EndsOnce(turn) ==
  \A i, j \in 1..Len(turn) :
    i < j /\ turn[i] \in TerminalKinds =>
      turn[j] \notin TerminalKinds \cup {"activity"}

ASSUME TurnsAssumption == \A t \in FirstTurns \cup FollowupTurns : EndsOnce(t)

VARIABLES
  log, todo, turns, queue,       \* the conversation: events, rest of the turn
                                 \* at work, turns begun, messages waiting
  task,                          \* the start task on the server
  pc, round, attempt, polled,    \* the adapter; round 1 the work, 2 the hand-off
  base,                          \* address the follow-up is posted to next
  conn, pos, drops,              \* the connection and what was read from it
  seen,                          \* known event ids
  r,                             \* locals of the loop over events
  first, outcome,                \* result of round 1, answer of the call
  broken                         \* what went wrong so far; history, read by
                                 \* properties only

server == <<log, todo, turns, queue, task>>
link == <<conn, pos, drops>>
vars == <<server, pc, round, attempt, polled, base, link, seen, r, first,
          outcome, broken>>

NoRun == [text |-> 0, end |-> 0, terminal |-> FALSE, activity |-> FALSE,
          running |-> FALSE]
NoOutcome == [ok |-> FALSE, failure |-> "none", text |-> 0, transport |-> FALSE]
Failures ==
  {"none", "agent_no_result", "transport_error", "evidence_contract_missing"}

Init ==
  /\ log = <<>> /\ todo = <<>> /\ turns = 0 /\ queue = 0
  /\ task = "working"
  /\ pc = "poll" /\ round = 1 /\ attempt = 0 /\ polled = "working" /\ base = 1
  /\ conn = FALSE /\ pos = 0 /\ drops = 0
  /\ seen = {} /\ r = NoRun /\ first = NoRun /\ outcome = NoOutcome
  /\ broken = {}

(* Something goes wrong.                                                     *)
Goes(fault) == fault \in Faults /\ broken' = broken \cup {fault}

-----------------------------------------------------------------------------
(* The server.                                                               *)
TaskEnds ==
  /\ task = "working"
  /\ \/ task' = "ready" /\ queue' = queue + 1
     \/ task' = "error" /\ UNCHANGED queue
  /\ UNCHANGED <<log, todo, turns, pc, round, attempt, polled, base, link,
                 seen, r, first, outcome>>

BeginTurn ==
  /\ todo = <<>> /\ queue > 0
  /\ todo' \in IF turns = 0 THEN FirstTurns ELSE FollowupTurns
  /\ turns' = turns + 1 /\ queue' = queue - 1
  /\ UNCHANGED <<log, task, pc, round, attempt, polled, base, link, seen, r,
                 first, outcome>>

Emit ==
  /\ todo # <<>>
  /\ log' = Append(log, [turn |-> turns, kind |-> Head(todo)])
  /\ todo' = Tail(todo)
  /\ UNCHANGED <<turns, queue, task, pc, round, attempt, polled, base, link,
                 seen, r, first, outcome>>

-----------------------------------------------------------------------------
(* Starting the conversation.  A poll that fails, or finds nothing, keeps    *)
(* what the one before said; what the last poll says is not looked at.       *)
PollTask ==
  /\ pc = "poll" /\ attempt < MaxAttempts
  /\ polled = "working"
  /\ attempt' = attempt + 1 /\ polled' \in {polled, task}
  /\ UNCHANGED <<server, pc, round, base, link, seen, r, first, outcome>>

StartSettled(status, next) ==
  /\ pc = "poll" /\ attempt < MaxAttempts
  /\ polled = status /\ pc' = next
  /\ UNCHANGED <<server, round, attempt, polled, base, link, seen, r, first,
                 outcome>>

Started == StartSettled("ready", "stream")
StartFails == StartSettled("error", "raised")

StartTimesOut ==
  /\ pc = "poll" /\ attempt = MaxAttempts
  /\ pc' = "raised"
  /\ UNCHANGED <<server, round, attempt, polled, base, link, seen, r, first,
                 outcome>>

-----------------------------------------------------------------------------
(* The event stream.                                                         *)
Connect ==
  /\ pc = "stream" /\ ~conn
  /\ conn' = TRUE /\ pos' = 0
  /\ UNCHANGED <<server, pc, round, attempt, polled, base, drops, seen, r,
                 first, outcome>>

Drop ==
  /\ Goes("drop") /\ drops < MaxDrops
  /\ pc = "stream" /\ conn
  /\ conn' = FALSE /\ drops' = drops + 1
  /\ UNCHANGED <<server, pc, round, attempt, polled, base, pos, seen, r, first,
                 outcome>>

(* The loop over events.  After the loop a run without a text asks the       *)
(* history for one.                                                          *)
AfterLoop(run) == IF run.text = 0 THEN "rest" ELSE "gate"

(* Faulty: a text that was found is kept.                                    *)
NoteFirstText(run, id, kind) ==
  [run EXCEPT
     !.text = IF kind \in TextKinds /\ @ = 0 THEN id ELSE @,
     !.activity = @ \/ kind \in TextKinds \cup {"activity", "page"},
     !.running = @ \/ kind = "running",
     !.end = IF kind \in TerminalKinds THEN id ELSE @,
     !.terminal = @ \/ ( /\ kind \in TerminalKinds /\ run.text = 0
                         /\ kind = "finished" => run.running \/ run.activity )]

(* What an event changes.  A finished status before any sign of work is      *)
(* recorded but ends nothing.                                                *)
Note(run, id, kind) ==
  [run EXCEPT
     !.text = IF kind \in TextKinds THEN id ELSE @,
     !.activity = @ \/ kind \in TextKinds \cup {"activity", "page"},
     !.running = @ \/ kind = "running",
     !.end = IF kind \in TerminalKinds THEN id ELSE @,
     !.terminal = @ \/ ( /\ kind \in TerminalKinds /\ run.text = 0
                         /\ kind = "finished" => run.running \/ run.activity )]

(* Faulty: any text ends the run.                                            *)
EndsLoopAtText(run, kind) ==
  \/ kind \in TextKinds
  \/ kind \in TerminalKinds /\ run.text # 0

(* Faulty: only a finished run ends.                                         *)
EndsLoopFinished(run, kind) ==
  \/ kind \in TextKinds /\ run.terminal
  \/ kind = "finished" /\ run.text # 0

EndsLoop(run, kind) ==
  \/ kind \in TextKinds /\ run.terminal
  \/ kind \in TerminalKinds /\ run.text # 0

(* Faulty: the follow-up takes the replayed events for its own.              *)
KnownNever(id) == FALSE

(* Only the follow-up passes over events it has seen.                        *)
Known(id) == round = 2 /\ id \in seen

Receive ==
  /\ pc = "stream" /\ conn /\ pos < Len(log)
  /\ pos' = pos + 1
  /\ seen' = seen \cup {pos'}
  /\ LET kind == log[pos'].kind
         run == Note(r, pos', kind)
     IN IF Known(pos')
        THEN UNCHANGED <<pc, r>>
        ELSE /\ r' = run
             /\ pc' = IF EndsLoop(run, kind) THEN AfterLoop(run) ELSE pc
  /\ UNCHANGED <<server, round, attempt, polled, base, conn, drops, first,
                 outcome>>

(* After a terminal status without a text the loop waits a while for one.    *)
GraceEnds ==
  /\ pc = "stream" /\ r.terminal /\ r.text = 0
  /\ pc' = AfterLoop(r)
  /\ UNCHANGED <<server, round, attempt, polled, base, link, seen, r, first,
                 outcome>>

StreamEnds ==
  /\ pc = "stream"
  /\ \/ conn /\ Goes("close")
     \/ ~conn /\ Goes("giveup")
  /\ pc' = AfterLoop(r)
  /\ UNCHANGED <<server, round, attempt, polled, base, link, seen, r, first,
                 outcome>>

(* The history holds the texts of all turns; the last one is taken.          *)
Texts == {i \in 1..Len(log) : log[i].kind \in TextKinds}
IsLastText(id) ==
  IF Texts = {} THEN id = 0 ELSE id \in Texts /\ \A j \in Texts : j <= id

ReadHistory ==
  /\ pc = "rest"
  /\ \E id \in 0..Len(log) : IsLastText(id) /\ r' = [r EXCEPT !.text = id]
  /\ pc' = "gate"
  /\ UNCHANGED <<server, round, attempt, polled, base, link, seen, first,
                 outcome>>

HistoryFails ==
  /\ pc = "rest" /\ Goes("rest")
  /\ pc' = "gate"
  /\ UNCHANGED <<server, round, attempt, polled, base, link, seen, r, first,
                 outcome>>

-----------------------------------------------------------------------------
(* The result gate and the hand-off.                                         *)
GateFailure(text) ==
  IF text = 0 THEN "agent_no_result"
  ELSE IF log[text].kind = "complaint" THEN "transport_error" ELSE "none"

(* Faulty: prose is good enough.                                             *)
StructuredLeniently(text) == text # 0 /\ log[text].kind \in {"report", "handoff"}

(* Only a text with a payload that satisfies the contract has evidence.      *)
Structured(text) == text # 0 /\ log[text].kind = "handoff"

(* Faulty: only the gate's failure is reported.                              *)
OutcomeOfGate(text) ==
  [ok |-> GateFailure(text) = "none" /\ Structured(text),
   failure |-> GateFailure(text), text |-> text,
   transport |-> GateFailure(text) = "transport_error"]

OutcomeOf(text) ==
  [ok |-> GateFailure(text) = "none" /\ Structured(text),
   failure |-> IF GateFailure(text) # "none" THEN GateFailure(text)
               ELSE IF Structured(text) THEN "none"
               ELSE "evidence_contract_missing",
   text |-> text,
   transport |-> GateFailure(text) = "transport_error"]

(* The first result goes on to the hand-off unless it is a transport error:  *)
(* an empty one too, whose diagnosis takes the place of its text.            *)
GateWork ==
  /\ pc = "gate" /\ round = 1
  /\ first' = r
  /\ IF GateFailure(r.text) = "transport_error"
     THEN pc' = "done" /\ outcome' = OutcomeOf(r.text)
     ELSE pc' = "post" /\ UNCHANGED outcome
  /\ UNCHANGED <<server, round, attempt, polled, base, link, seen, r>>

GateHandoff ==
  /\ pc = "gate" /\ round = 2
  /\ outcome' = OutcomeOf(r.text) /\ pc' = "done"
  /\ UNCHANGED <<server, round, attempt, polled, base, link, seen, r, first>>

(* The follow-up is posted to one address after the other until one takes it. *)
Posted ==
  /\ pc = "post" /\ base <= Bases
  /\ queue' = queue + 1
  /\ pc' = "stream" /\ round' = 2 /\ r' = NoRun /\ conn' = FALSE
  /\ UNCHANGED <<log, todo, turns, task, attempt, polled, base, pos, drops,
                 seen, first, outcome>>

PostFails ==
  /\ pc = "post" /\ base <= Bases
  /\ base' = base + 1
  /\ \/ Goes("refuse") /\ UNCHANGED queue
     \/ Goes("resend") /\ queue' = queue + 1
  /\ UNCHANGED <<log, todo, turns, task, pc, round, attempt, polled, link,
                 seen, r, first, outcome>>

PostRefused ==
  /\ pc = "post" /\ base > Bases
  /\ pc' = "raised"
  /\ UNCHANGED <<server, round, attempt, polled, base, link, seen, r, first,
                 outcome>>

-----------------------------------------------------------------------------
Server == (TaskEnds \/ BeginTurn \/ Emit) /\ UNCHANGED broken
Client ==
  /\ \/ PollTask \/ Started \/ StartFails \/ StartTimesOut
     \/ Connect \/ Receive \/ GraceEnds \/ ReadHistory
     \/ GateWork \/ GateHandoff \/ Posted \/ PostRefused
  /\ UNCHANGED broken
Trouble == Drop \/ StreamEnds \/ HistoryFails \/ PostFails

Next == Server \/ Client \/ Trouble

Spec == Init /\ [][Next]_vars

(* The server settles the start task and the agent brings each turn to its   *)
(* end; the client's coroutine runs on.                                      *)
Fairness == WF_vars(Server) /\ WF_vars(Client)
FairSpec == Spec /\ Fairness

-----------------------------------------------------------------------------
Runs == [text : Nat, end : Nat, terminal : BOOLEAN, activity : BOOLEAN,
         running : BOOLEAN]
PCs == {"poll", "stream", "rest", "gate", "post", "done", "raised"}

(* The types of the variables.                                               *)
TypeOK ==
  /\ log \in Seq([turn : Nat, kind : Kinds]) /\ todo \in Seq(Kinds)
  /\ turns \in Nat /\ queue \in Nat
  /\ task \in {"working", "ready", "error"}
  /\ polled \in {"working", "ready", "error"}
  /\ pc \in PCs /\ round \in {1, 2} /\ attempt \in 0..MaxAttempts
  /\ base \in 1..Bases + 1
  /\ conn \in BOOLEAN /\ pos \in 0..Len(log) /\ drops \in 0..MaxDrops
  /\ seen \subseteq 1..Len(log)
  /\ r \in Runs /\ r.text \in 0..Len(log) /\ r.end \in 0..Len(log)
  /\ first \in Runs
  /\ outcome \in [ok : BOOLEAN, failure : Failures, text : 0..Len(log),
                  transport : BOOLEAN]
  /\ broken \subseteq Faults

(* No stream ended before its end was read.                                  *)
ReadThrough == broken \cap {"close", "giveup"} = {}

(* However often the stream is replayed, the follow-up is never ended by the *)
(* status with which the agent ended the turn before, if the first run read  *)
(* as far as that status (run_followup_message_and_collect passes over the   *)
(* events the first run has read).                                           *)
EndIsOwn == ReadThrough /\ round = 2 /\ r.end # 0 => log[r.end].turn >= 2

(* As long as a stream that breaks is reopened and no message is posted      *)
(* twice, no stage goes on while the agent is still at work in the           *)
(* workspace: a run is over only after the terminal status of its turn.      *)
NoWorkAfterReturn ==
  broken \subseteq {"drop", "refuse", "rest"} /\ pc \in {"gate", "post", "done"} =>
    queue = 0 /\ \A i \in 1..Len(todo) : todo[i] # "activity"

(* A run whose end was seen returns no text that its turn had already        *)
(* replaced by a later one when it ended - unless a reopened stream, which   *)
(* brings the older texts once more, ends before it is read through.         *)
NewestTextTaken ==
  ReadThrough /\ pc = "gate" /\ r.end # 0 =>
    \A i \in Texts : i < r.end /\ log[i].turn = log[r.end].turn => i <= r.text

(* A call that gives no usable evidence always carries a failure that the    *)
(* retry policy knows, so that it is not taken for a failure of the task;    *)
(* whatever goes wrong (AGENT_RETRYABLE_FAILURE_KINDS).                      *)
FailureIsReported == pc = "done" => (outcome.ok <=> outcome.failure = "none")

(* A call comes to an end, whatever the agent says in its turns and however  *)
(* the stream breaks.                                                        *)
CallReturns == <>(pc \in {"done", "raised"})

(* The call implements AgentCall: it replies once, and with evidence only if *)
(* the agent has given the hand-off, whatever goes wrong.                    *)
ReplyOf ==
  IF pc = "raised" THEN "raised"
  ELSE IF pc # "done" THEN "none"
  ELSE IF outcome.ok THEN "ok" ELSE "retryable"
HandedOver == \E i \in 1..Len(log) : log[i].kind = "handoff"
Call == INSTANCE AgentCall WITH handedOver <- HandedOver, reply <- ReplyOf
ImplementsCall == Call!Spec

-----------------------------------------------------------------------------
(* Sentences of the source that the code contradicts.                        *)

(* runner.py: "wait for terminal status, and return final text" - the first  *)
(* result is the result of a turn whose terminal status was emitted.         *)
WaitsForTerminal ==
  pc = "post" =>
    \E i \in 1..Len(log) : log[i].turn = 1 /\ log[i].kind \in TerminalKinds

(* runner.py: "Send a follow-up prompt to an existing conversation and       *)
(* collect its answer" - the text of the follow-up is from a turn it began.  *)
CollectsItsAnswer ==
  pc = "gate" /\ round = 2 /\ r.text # 0 => log[r.text].turn >= 2

(* result_gate.py: the gate "prevents ... empty terminal runs, and missing   *)
(* assistant answers from being converted into operational evidence".        *)
EmptyRunIsNoEvidence == pc = "done" /\ outcome.ok => first.text # 0

(* client_core.py: "Timed out waiting for OpenHands start task ... to become *)
(* READY" - a start that times out has not been told that the task is ready. *)
TimeoutIsNotReady ==
  pc = "raised" /\ attempt = MaxAttempts /\ base = 1 => polled # "ready"
=============================================================================
