--------------------------- MODULE DocumentedClaims ---------------------------
(* What the repository's documents, messages and tests say of the workflow,  *)
(* where the code does something else.  ClaimVouched.cfg checks the first.   *)
(* The next three are found violated where its last lines name them instead, *)
(* ExhaustionIsNoSuccess and BlockedIsNotPublished with the constants of     *)
(* Workflow.cfg, and the last with ClaimingVerdicts for Verdicts.            *)
EXTENDS MCWorkflow

(* ARCHITECTURE.md:217 "After each repair, the graph returns to              *)
(* `execution_review`; only after review, verification, and acceptance may   *)
(* publish run again."  A revision counts as verified when the tests that    *)
(* the verification read ran after the repair, and also when a blocked item  *)
(* of those tests excused it.                                                *)
RepublishAfterReview ==
  [][(publishes' > publishes /\ repairCalls > 0) =>
       /\ {"reviewed", "tested", "accepted"} \subseteq vouched
       /\ {"verified", "excused"} \cap vouched # {}]_vars

(* control_plane/recovery.py:139 "Recovered checkpoint is safe to resume     *)
(* from {next_stage}.": the stage a run is resumed at finds what it needs.   *)
ResumeIsSafe == (crashes > 0) => exit # "not_ready"

(* tests/test_recovery_resume.py:42 a checkpoint with status planned resumes *)
(* at "policy".                                                              *)
PlannedResumesAtPolicy ==
  [][(Resume /\ s.status = "planned") => node' = "policy"]_vars

(* lifecycle/policy.py:138 "Repair attempt limit reached; controller must    *)
(* stop automatic repair and finalize non-success.": a run that needs one    *)
(* more repair than the limit allows ends with a report.                     *)
RepairLimitReported == exit # "repair_limit"

(* README.md:166 "If the budget is exhausted, the workflow finalizes with a  *)
(* hard non-success path instead of silently continuing."                    *)
ExhaustionIsNoSuccess ==
  (s.report # None /\ s.loops # <<>> /\ s.loops[Len(s.loops)].target = "finalize")
    => s.report # "completed"

(* lifecycle/policy.py:118 "Publish is forbidden while mandatory verification *)
(* is blocked by missing environment/runtime prerequisites.": what is        *)
(* published passed its verification, or the QA report names nothing that    *)
(* was blocked.                                                              *)
BlockedIsNotPublished ==
  [][publishes' > publishes =>
       ("verified" \in vouched \/ s.qaReport # "blocked")]_vars

(* ARCHITECTURE.md:223 "If repair attempts are exhausted, failed checks are  *)
(* verified/accepted as non-success instead of causing an unbounded repair   *)
(* loop.": publication whose checks failed does not end in success.          *)
FailedChecksAreNoSuccess ==
  (s.report = "completed" /\ s.publish # None) => PublishOk(s.publish)
=============================================================================
