------------------------------ MODULE MCWorkflow ------------------------------
(* Values for model checking the workflow.  Each record is one answer the    *)
(* outside may give, chosen so that every branch of the stages is taken.     *)
EXTENDS Workflow

Clean == [ok |-> TRUE, status |-> "succeeded", failure |-> "none", git |-> {},
          blocker |-> "none", checks |-> "passed", mutated |-> TRUE]
Untested == [Clean EXCEPT !.checks = "none"]
Pushed == [Clean EXCEPT !.git = {"push"}]
Failing == [Clean EXCEPT !.ok = FALSE, !.status = "failed", !.checks = "failed"]
EnvironmentMissing ==
  [Clean EXCEPT !.status = "partial", !.blocker = "env", !.checks = "none"]
Stuck == [Clean EXCEPT !.status = "partial", !.blocker = "generic"]
NoAnswer == [Clean EXCEPT !.ok = FALSE, !.status = "failed",
                          !.failure = "retryable", !.checks = "none",
                          !.mutated = FALSE]
Fatal == [NoAnswer EXCEPT !.failure = "fatal"]

Pass == [passed |-> TRUE, checks |-> "passed", codeLike |-> FALSE,
         gap |-> "none", trigger |-> "none", published |-> "silent"]
PassClaimed == [Pass EXCEPT !.published = "claimed"]
PassWithDocsGap == [Pass EXCEPT !.gap = "evidence",
                                !.trigger = "docs_impact_discovered"]
FailCode == [Pass EXCEPT !.passed = FALSE, !.checks = "failed",
                         !.codeLike = TRUE]
FailOther == [FailCode EXCEPT !.codeLike = FALSE]
Unproved == [Pass EXCEPT !.passed = FALSE]
FailSetup == [Pass EXCEPT !.passed = FALSE, !.checks = "none", !.gap = "setup",
                          !.trigger = "environment_prerequisite_missing"]
FailReplan == [Pass EXCEPT !.passed = FALSE, !.checks = "none",
                           !.gap = "evidence", !.trigger = "plan_incomplete"]

PublishDone == [ok |-> TRUE, checks |-> "passed", blockers |-> FALSE,
                forbidden |-> FALSE, failed |-> FALSE]
PublishChecksFailed == [PublishDone EXCEPT !.checks = "failed"]
PublishBlocked == [PublishDone EXCEPT !.ok = FALSE, !.blockers = TRUE]
PublishForbidden == [PublishDone EXCEPT !.forbidden = TRUE]

Deliver == [mutates |-> TRUE, tests |-> TRUE, publish |-> TRUE,
            world |-> TRUE]
Ship == [Deliver EXCEPT !.tests = FALSE]
Change == [Ship EXCEPT !.publish = FALSE, !.world = FALSE]
Analyse == [Change EXCEPT !.mutates = FALSE, !.world = TRUE]

ObserveRoute == {[fresh |-> FALSE, observe |-> TRUE]}
OtherRoutes == [fresh : BOOLEAN, observe : BOOLEAN] \ ObserveRoute
OneGathered == {"ok"}
AllGathered == {"ok", "failed"}
NoImpacts == {"none"}
OnePlan == {Deliver}
AllPlans == {Deliver, Ship, Change, Analyse}
TwoPackets == {<<"implementation", "verification">>}
AllPolicy == {"allowed", "approval", "blocked"}
OnlyAllowed == {"allowed"}
TrueOnly == {TRUE}
FalseOnly == {FALSE}
Answers == BOOLEAN
MCOutcomes == {Clean, Untested, Pushed, Failing, EnvironmentMissing, Stuck,
               NoAnswer, Fatal}
MCVerdicts == {Pass, PassWithDocsGap, FailCode, FailOther, FailSetup,
               FailReplan, Unproved}
MCPublish == {PublishDone, PublishChecksFailed, PublishBlocked,
              PublishForbidden}
CoreOutcomes == {Clean, Failing, Stuck, NoAnswer}
CoreVerdicts == {Pass, PassWithDocsGap, FailCode, FailReplan}
ClaimingVerdicts == {Pass, PassClaimed}
CorePublish == {PublishDone, PublishChecksFailed}
Fallback == {"fallback"}
RanOnly == {"ran"}
RanOrBlocked == {"ran", "blocked"}
=============================================================================
