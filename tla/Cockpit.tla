------------------------------- MODULE Cockpit --------------------------------
(* The terminal cockpit: one run at a time, the conversation browser and the *)
(* evidence list.                                                            *)
(*                                                                           *)
(* The application handles one message at a time.  Workers run beside it,    *)
(* await the network and post messages when they are done; only handlers and *)
(* key presses change what the screen shows.  Starting a run is exclusive:   *)
(* the toolkit cancels the workers still in flight, and what is cancelled    *)
(* posts nothing.                                                            *)
EXTENDS Naturals, Sequences, SequencesExt

CONSTANTS
  Convs,       \* conversations of the server
  Dirs,        \* what the user may enter as the artifact directory
  ArtifactDir, \* the one the cockpit was started with
  None,
  MaxRuns,     \* bound on the runs started
  MaxWorkers,  \* bound on the workers in flight
  MaxQueue,    \* bound on the messages not handled yet
  MaxFiles     \* bound on the artifacts of a run

ASSUME CockpitAssumption ==
  /\ None \notin Convs
  /\ ArtifactDir \in Dirs
  /\ {MaxRuns, MaxWorkers, MaxQueue, MaxFiles} \subseteq Nat

VARIABLES
  running, report, runs, open,             \* report: the run it is of, or 0
  selected, shown, browser, draft,         \* the conversation panes
  current,                                 \* transport_state["conversation_id"]
  dir,        \* the content of the editable input #artifact-dir
  homes,      \* the directory each run was started with
  rows, files,                             \* the evidence list, the artifacts
  workers, queue,
  broken,     \* history: a load or a send since the last choice was lost
  wiped,      \* history: a reset cleared the list since the run in flight began
  strayed     \* history: so it was, and the report was listed elsewhere

run == <<running, report, runs, open>>
panes == <<selected, shown, browser, draft>>
evidence == <<rows, files>>
place == <<dir, homes, wiped, strayed>>
vars == <<run, panes, current, evidence, workers, queue, broken, place>>

ChatWork == {"list", "load", "send"}
Worker(kind, conv) == [kind |-> kind, conv |-> conv]
Message(kind, conv, about) == [kind |-> kind, conv |-> conv, about |-> about]

Init ==
  /\ running = FALSE /\ report = 0 /\ runs = 0 /\ open = TRUE
  /\ selected = None /\ shown = None /\ browser = {} /\ draft = FALSE
  /\ current = None /\ rows = {} /\ files = {}
  /\ dir = ArtifactDir /\ homes = <<>> /\ wiped = FALSE /\ strayed = FALSE
  /\ workers = <<Worker("list", None)>> /\ queue = <<>>
  /\ broken = FALSE

Posts(m) == Len(queue) < MaxQueue /\ queue' = Append(queue, m)
Starts(w) == Len(workers) < MaxWorkers /\ workers' = Append(workers, w)

-----------------------------------------------------------------------------
(* What the user does.                                                       *)

(* _start_run: the report and the evidence of the run before stay.  The      *)
(* worker begins by reading the directory it will write to (_build_config).  *)
PressRun ==
  /\ open /\ ~running /\ runs < MaxRuns
  /\ running' = TRUE /\ runs' = runs + 1
  /\ homes' = Append(homes, dir) /\ wiped' = FALSE
  /\ workers' = <<Worker("run", None)>>
  /\ broken' = (broken \/ \E i \in DOMAIN workers :
                            workers[i].kind \in {"load", "send"})
  /\ UNCHANGED <<report, open, panes, current, evidence, queue, dir, strayed>>

(* The directory can be edited at any time, also while a run writes.         *)
EditDir(entered) ==
  /\ open /\ entered # dir /\ dir' = entered
  /\ UNCHANGED <<run, panes, current, evidence, workers, queue, broken, homes,
                 wiped, strayed>>

Forget ==
  /\ report' = 0
  /\ selected' = None /\ shown' = None /\ browser' = {} /\ draft' = FALSE
  /\ current' = None /\ rows' = {}
  /\ wiped' = running /\ strayed' = FALSE

(* Faulty: a reset also takes the run for over.                              *)
PressResetIdle ==
  /\ open /\ Forget /\ Starts(Worker("list", None))
  /\ running' = FALSE
  /\ UNCHANGED <<runs, open, files, queue, broken, dir, homes>>

(* _on_reset: what is in flight goes on.                                     *)
PressReset ==
  /\ open /\ Forget /\ Starts(Worker("list", None))
  /\ UNCHANGED <<running, runs, open, files, queue, broken, dir, homes>>

PressRefresh ==
  /\ open /\ Starts(Worker("list", None))
  /\ UNCHANGED <<place, run, panes, current, evidence, queue, broken>>

(* _select_browser_conversation.                                             *)
Select(conv) ==
  /\ open /\ conv \in browser
  /\ selected' = conv /\ broken' = FALSE
  /\ Starts(Worker("load", conv))
  /\ UNCHANGED <<place, run, shown, browser, draft, current, evidence, queue>>

UseCurrent ==
  /\ open /\ current # None
  /\ selected' = current /\ broken' = FALSE
  /\ Starts(Worker("load", current))
  /\ UNCHANGED <<place, run, shown, browser, draft, current, evidence, queue>>

PressLoad ==
  /\ open /\ selected # None /\ broken' = FALSE
  /\ Starts(Worker("load", selected))
  /\ UNCHANGED <<place, run, panes, current, evidence, queue>>

Type == /\ open /\ ~draft /\ draft' = TRUE
        /\ UNCHANGED <<place, run, selected, shown, browser, current, evidence,
                       workers, queue, broken>>

(* _on_send_conversation_message: the input keeps its text until the answer. *)
PressSend ==
  /\ open /\ selected # None /\ draft /\ broken' = FALSE
  /\ Starts(Worker("send", selected))
  /\ UNCHANGED <<place, run, panes, current, evidence, queue>>

-----------------------------------------------------------------------------
(* What the workers do.                                                      *)
Runs(i) == open /\ i \in DOMAIN workers /\ workers[i].kind = "run"
Ends(i) == workers' = RemoveAt(workers, i)

(* build_controller stands outside the worker's try: what it raises closes   *)
(* the application.                                                          *)
RunBreaks ==
  /\ \E i \in DOMAIN workers :
       Runs(i) /\ ~\E n \in 1..MaxFiles : <<runs, n>> \in files
  /\ open' = FALSE
  /\ UNCHANGED <<running, report, runs, panes, current, evidence,
                 workers, queue, broken, place>>

(* A stage writes an artifact and emits an event that names it.              *)
RunWrites ==
  \E i \in DOMAIN workers, n \in 1..MaxFiles :
    /\ Runs(i) /\ <<runs, n>> \notin files
    /\ files' = files \cup {<<runs, n>>}
    /\ Posts(Message("event", None, <<runs, n>>))
    /\ UNCHANGED <<place, run, panes, current, rows, workers, broken>>

RunTalks ==
  \E i \in DOMAIN workers, conv \in Convs :
    /\ Runs(i)
    /\ Posts(Message("transport", conv, runs))
    /\ UNCHANGED <<place, run, panes, current, evidence, workers, broken>>

RunEnds ==
  \E i \in DOMAIN workers, how \in {"finished", "failed"} :
    /\ Runs(i) /\ Ends(i) /\ Posts(Message(how, None, runs))
    /\ UNCHANGED <<place, run, panes, current, evidence, broken>>

(* The answers of the server, or an error, for the other workers.            *)
Answered(i) ==
  open /\ i \in DOMAIN workers /\ workers[i].kind \in ChatWork

WorkerAnswers ==
  \E i \in DOMAIN workers :
    /\ Answered(i) /\ Ends(i)
    /\ Posts(Message(workers[i].kind, workers[i].conv, 0))
    /\ UNCHANGED <<place, run, panes, current, evidence, broken>>

WorkerFails ==
  \E i \in DOMAIN workers :
    /\ Answered(i) /\ Ends(i)
    /\ Posts(Message("error", None, 0))
    /\ broken' = (broken \/ workers[i].kind # "list")
    /\ UNCHANGED <<place, run, panes, current, evidence>>

(* A message sent by hand emits transport events like a run does.            *)
SendTalks ==
  \E i \in DOMAIN workers :
    /\ open /\ workers[i].kind = "send"
    /\ Posts(Message("transport", workers[i].conv, 0))
    /\ UNCHANGED <<place, run, panes, current, evidence, workers, broken>>

-----------------------------------------------------------------------------
(* The handlers of the messages.                                             *)
Handles(kind) == open /\ queue # <<>> /\ Head(queue).kind = kind
                   /\ queue' = Tail(queue)

(* _ingest_artifact_payload: a row under the artifact's id, whether or not   *)
(* the file is found in the directory entered by now: the index the cockpit  *)
(* looks for, artifact_index.json, is not what the store writes.             *)
OnEvent ==
  /\ Handles("event")
  /\ LET f == Head(queue).about
     IN  rows' = IF \E r \in rows : r = [via |-> "id", file |-> f] THEN rows
                 ELSE rows \cup {[via |-> "id", file |-> f]}
  /\ UNCHANGED <<place, run, panes, current, files, workers, broken>>

OnTransport ==
  /\ Handles("transport") /\ current' = Head(queue).conv
  /\ UNCHANGED <<place, run, panes, evidence, workers, broken>>

(* Faulty: the evidence is synchronized with an index nobody writes.         *)
ListedByIndex == rows

(* The files in the directory the input names now, not the run's.            *)
FilesHere == {f \in files : homes[f[1]] = dir}

(* _sync_artifacts_from_report: with no index, a row per file of the         *)
(* directory, under the stem of its name.                                    *)
Listed == rows \cup {[via |-> "stem", file |-> f] : f \in FilesHere}

OnFinished ==
  /\ Handles("finished")
  /\ running' = FALSE /\ report' = Head(queue).about
  /\ rows' = Listed
  /\ strayed' = (wiped /\ homes[Head(queue).about] # dir) /\ wiped' = FALSE
  /\ UNCHANGED <<runs, open, panes, current, files, workers, broken,
                 dir, homes>>

(* _on_failed: the report of an earlier run stays on the screen.  The text   *)
(* of the error, which nothing reads, is left out here and in Forget.        *)
OnFailed ==
  /\ Handles("failed") /\ running' = FALSE
  /\ UNCHANGED <<place, report, runs, open, panes, current, evidence, workers,
                 broken>>

OnError ==
  /\ Handles("error")
  /\ UNCHANGED <<place, run, panes, current, evidence, workers, broken>>

OnList ==
  /\ Handles("list") /\ browser' = Convs
  /\ UNCHANGED <<place, run, selected, shown, draft, current, evidence, workers,
                 broken>>

(* Faulty: a transcript is shown whatever is selected by now.                *)
OnLoadedShow ==
  /\ Handles("load") /\ shown' = Head(queue).conv
  /\ UNCHANGED <<run, selected, browser, draft, current, evidence, workers,
                 broken, place>>

(* _on_conversation_loaded selects what it shows.                            *)
OnLoaded ==
  /\ Handles("load") /\ shown' = Head(queue).conv
  /\ selected' = Head(queue).conv
  /\ UNCHANGED <<run, browser, draft, current, evidence, workers, broken,
                 place>>

(* _on_conversation_sent clears the input, whatever it holds by now.         *)
OnSent ==
  /\ Handles("send") /\ shown' = Head(queue).conv
  /\ selected' = Head(queue).conv /\ draft' = FALSE
  /\ UNCHANGED <<place, run, browser, current, evidence, workers, broken>>

Handle == \/ OnEvent \/ OnTransport \/ OnFinished \/ OnFailed \/ OnError
          \/ OnList \/ OnLoaded \/ OnSent

User == \/ PressRun \/ PressReset \/ PressRefresh \/ PressLoad \/ UseCurrent
        \/ Type \/ PressSend \/ \E conv \in Convs : Select(conv)
        \/ \E entered \in Dirs : EditDir(entered)

Work == \/ RunBreaks \/ RunWrites \/ RunTalks \/ RunEnds
        \/ WorkerAnswers \/ WorkerFails \/ SendTalks

Next == User \/ Work \/ Handle
Spec == Init /\ [][Next]_vars

-----------------------------------------------------------------------------
RunInFlight == \E i \in DOMAIN workers : workers[i].kind = "run"
ResultQueued == \E i \in DOMAIN queue : queue[i].kind \in {"finished", "failed"}

(* The cockpit says a run is running exactly while its worker is in flight   *)
(* or its result waits to be handled, and there is one such run: resets,     *)
(* chats and late answers never let a second run start beside it.            *)
RunningIsTrue ==
  open =>
    /\ running <=> (RunInFlight \/ ResultQueued)
    /\ ~(RunInFlight /\ ResultQueued)
    /\ \A i, j \in DOMAIN workers :
         workers[i].kind = "run" /\ workers[j].kind = "run" => i = j

ChatPending ==
  \/ \E i \in DOMAIN workers : workers[i].kind \in {"load", "send"}
  \/ \E i \in DOMAIN queue : queue[i].kind \in {"load", "send"}

(* Once nothing is in flight the transcript is the one of the selected       *)
(* conversation, the one the next message goes to - unless a load or a send  *)
(* failed or was cancelled by a run since the user's last choice.            *)
TranscriptIsOfSelection == ChatPending \/ broken \/ shown = selected

(* Whenever a report is on the screen, every artifact its run wrote is       *)
(* listed as evidence.  The list is kept twice: by the events of the run,    *)
(* which a reset forgets, and from the directory entered when the report     *)
(* comes, which may be another one than the run's by then.  Either is        *)
(* enough; an artifact is missing only where both failed, a reset while the  *)
(* run was on and an edited directory at its end.                            *)
EvidenceIsListed ==
  (report # 0 /\ ~strayed) =>
    \A f \in files : f[1] = report => \E r \in rows : r.file = f

(* tui/app.py:606, of the evidence tab: "This tab answers: what evidence was *)
(* produced by the run".                                                     *)
EvidenceIsOfTheRun == report # 0 => \A r \in rows : r.file[1] = report
=============================================================================
