---------------------------- MODULE MCPipelineLoop ----------------------------
(* Values for model checking the re-entry budget: the three stages that ask, *)
(* two triggers with a common target and one with another.                   *)
EXTENDS PipelineLoop

MCSources == {"verify", "acceptance", "qa_review"}
MCTriggers == {"missing_obligations", "docs_impact_discovered",
               "plan_incomplete"}
Answering == {TRUE}
=============================================================================
