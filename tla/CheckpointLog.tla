---------------------------- MODULE CheckpointLog ----------------------------
(* What resuming a workflow relies on: artifacts are recorded one after the  *)
(* other, none is lost, and a recovery reads the last checkpoint of its      *)
(* task.                                                                     *)
EXTENDS Naturals, Sequences, FiniteSetsExt

CONSTANTS Ids, Kinds, Tasks, None

VARIABLES
  log,       \* artifacts recorded: [id, kind, task]
  answer     \* what the last recovery read, or None

vars == <<log, answer>>

Init == log = <<>> /\ answer = None

Record(entry) == log' = Append(log, entry) /\ UNCHANGED answer

CheckpointsOf(task) ==
  {i \in DOMAIN log : log[i].kind = "workflow_checkpoint" /\ log[i].task = task}

Recover(task) ==
  /\ answer' = IF CheckpointsOf(task) = {} THEN None
               ELSE log[Max(CheckpointsOf(task))].id
  /\ UNCHANGED log

Forget == answer' = None /\ UNCHANGED log

Next ==
  \/ \E entry \in [id : Ids, kind : Kinds, task : Tasks] : Record(entry)
  \/ \E task \in Tasks : Recover(task)
  \/ Forget

Spec == Init /\ [][Next]_vars
=============================================================================
