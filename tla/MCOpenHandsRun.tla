---------------------------- MODULE MCOpenHandsRun ----------------------------
(* Values for model checking a call through OpenHands.  A script is what the *)
(* agent emits in one turn.                                                  *)
EXTENDS OpenHandsRun

Works ==
  {<<"running", "report", "activity", "report", "finished">>,
   <<"activity", "finished", "report">>,
   <<"running", "activity", "stuck">>,
   <<"running", "complaint", "finished">>}

Answers ==
  {<<"running", "finished", "handoff">>,
   <<"running", "report", "handoff", "finished">>,
   <<"running", "page", "stuck">>}
=============================================================================
