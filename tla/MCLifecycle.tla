----------------------------- MODULE MCLifecycle -----------------------------
(* Facts for model checking the lifecycle machine: all Boolean facts, the    *)
(* git actions that the policy names one by one, and the attempts around the *)
(* limit.  The re-entry facts are set for the query that reads them.         *)
EXTENDS LifecycleMachine

PublishFactSets ==
  {NoPublish,
   [NoPublish EXCEPT !.done = TRUE],
   [NoPublish EXCEPT !.failedChecks = TRUE],
   [NoPublish EXCEPT !.hasBlockers = TRUE, !.failedChecks = TRUE],
   [NoPublish EXCEPT !.hasBlockers = TRUE],
   [NoPublish EXCEPT !.forbidden = TRUE, !.failedChecks = TRUE],
   [NoPublish EXCEPT !.stageFailed = TRUE]}

MCFactSpace ==
  [violations : {{}, {"reported"}}, stageFailed : BOOLEAN,
   git : {{}, {"push"}, {"commit", "pr"}},
   envBlocked : BOOLEAN, verificationRequired : BOOLEAN,
   verificationSatisfied : BOOLEAN, executionSucceeded : BOOLEAN,
   publishRequired : {TRUE}, publish : PublishFactSets,
   acceptance : AcceptanceFacts, repairs : 1..2, maxRepairs : {2},
   reentryRequired : {FALSE}, reentryTarget : {"continue"},
   reentryExhausted : {FALSE}]
   \cup
  [violations : {{}, {"reported"}}, stageFailed : {FALSE}, git : {{}},
   envBlocked : BOOLEAN,
   verificationRequired : BOOLEAN, verificationSatisfied : BOOLEAN,
   executionSucceeded : BOOLEAN, publishRequired : BOOLEAN,
   publish : {NoPublish}, acceptance : AcceptanceFacts,
   repairs : {0}, maxRepairs : {2}, reentryRequired : BOOLEAN,
   reentryTarget : {"continue", "plan"}, reentryExhausted : BOOLEAN]
=============================================================================
