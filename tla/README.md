# A TLA+ model of the artifact workflow runtime

`forgemind` runs a software task through a fixed graph of stages. Each stage
asks a language model, an OpenHands agent or a command runner for something,
stores what comes back in a shared state, and a controller decides which stage
is next. The modules here model that controller - what it asks, keeps and
decides, and what it does after a crash - and the parts around it that keep
state or run concurrently: the call through OpenHands, the artifact store, the
contract gateway with the strategy advisor, the planner, the tables every work
packet is held against, and the terminal interface. The answers of the outside
are inputs, chosen freely from small sets.

Source paths below are relative to `src/src/artifact_workflow_runtime/`.

## 1. The system

### 1.1 Components

| component | state it keeps | operations | what would be wrong |
|---|---|---|---|
| Stage graph and stages (`graph/`, `stages/`) | none of its own: reads the workflow state, returns an update | 22 stage nodes, one router each, and `dispatch` | a stage reached without its inputs; a changed workspace published without review, tests, verification and acceptance; execution without permission |
| Workflow state and checkpoints (`models/state.py`, `state/checkpoints.py`) | 40-odd optional fields, a status, histories of decisions | merge an update, validate it against the promises of the status, write it as an artifact | a status that promises a field a re-entry cleared |
| Recovery (`control_plane/recovery.py`, `controller/`) | the latest checkpoint artifact | derive the stage to resume at, start the graph there | a resume that skips a check or cannot go on |
| Runtime kernel (`control_plane/kernel.py`, `agent_retry.py`) | none | routing, lifecycle facts, acceptance contract and obligations, retry | acceptance without evidence, more retries than the budget |
| Lifecycle machine and policy (`lifecycle/`) | none | one transition per event, six policy queries, two policy engines and a refusal | the engines disagree; publish or repair outside the gate; an unavailable engine that lets things pass |
| Re-entry budget (`control_plane/loop_policy.py`) | the history of loop decisions in the workflow state | evaluate one question | a budget exceeded, a denied re-entry granted later |
| Decomposition (`decomposition/`) | packets and their statuses | plan, validate, select, update status, decide progression | a packet run before its dependencies, a need without a packet, a plan called complete that is not |
| Strategy (`strategy/`) | the active strategy in the workflow state | checkpoint: signals, advice, validation, governor, arbitration | a failed run that does not repair; advice from a refused reply; a checkpoint never decided |
| Contract gateway (`contracts/`, `llm_backend/openai_compatible.py`) | the replies of one call and the record of it | ask, judge, ask for a repair, answer or refuse | unbounded repair; an answer that is not the reply accepted; a record that omits repairs |
| Final report (`reports/finalizer.py`) | none | status and text from the whole state | a success the facts do not carry |
| Policy gates and tables (`policy/`, `openhands_adapter/stage_gate.py`) | an alias table, a registry, access lists, a permission catalog | read a name as an action, hold a packet against the lists of its stage | a name that one table forbids and another allows; a built packet that is refused |
| OpenHands adapter, client, runner (`openhands_adapter/`) | a conversation on a server, a connection, the event ids read | start, follow events, fetch history, gate the result, ask for the hand-off | a stage that goes on while the agent works; a stale text taken for the answer; a call that never returns |
| Artifact store (`artifacts/`) | artifact files, `index.json`, the index in memory | load, write, register, replace the index | an index that names a missing file; a checkpoint written and not found |
| Terminal interface (`tui/app.py`) | what the panes show, whether a run is on, the current conversation, the inputs | key handlers, background workers, message handlers | two runs side by side; a message sent to another conversation than the one shown; evidence not listed |
| Freshness gate (`freshness/`) | none | is research required, is it satisfied | stale evidence accepted |
| QA planner and runner, environment (`qa/`, `environment/`) | none | select commands, run them, reconcile prerequisites | tests counted that did not run |
| Evidence, observation, context, done contract (`evidence/`, `observation/`, `context/`, `done_contract/`) | none | collect and compile | text; see 6 |
| CLI, runtime factory, routing of models, evaluation harness, legacy publisher | - | wiring, I/O, offline scoring | not modelled |

### 1.2 How they interact

*Between stages nothing is concurrent.* The graph driver calls one stage at a
time. A stage reads the merged state, passes its readiness gate
(`graph/stage_gates.py`), calls the outside, and returns an update. The
checkpoint wrapper merges, validates and stores the update before the router of
the stage, a function of the merged state, names the next stage. What makes this
part hard is that *four loops* run through the same stages and share their
fields -

1. agent retry: `review -> execute`, for a producer without a usable result;
2. packets: `review -> execute`, for the next packet of the plan;
3. repair: `review`, `qa_review` or `post_publish_verify -> repair -> review`;
4. re-entry: `qa_review` or `acceptance` back to `research`, `observe`,
   `build_context`, `obligations` or `plan`, which clears what lies downstream -

and that a crash can happen in any of them, after the outside has already acted.

*Inside a stage the call to the agent is a protocol.* The adapter holds the
packet against the tables, starts a task on the server, polls it, follows the
event stream of the conversation over a connection that breaks and replays,
posts a follow-up for the machine-readable hand-off to one address after
another, and follows the stream again. The server and the agent run meanwhile.

*Every stage writes artifacts* through a store that keeps the index in memory
and rewrites all of it. The controller opens a store, the terminal interface and
a second process may open another over the same directory.

*The terminal interface* is an event loop with background workers (a run, loads
of conversations, sends) that post messages; starting a run cancels the other
workers. It learns of a run through its events, and when the run ends it reads the
artifact directory that is entered then, which can be edited during the run.

*At a strategy checkpoint* the governor's rules compute a baseline, the advisor
makes one call through the contract gateway, and the arbitrator takes the advice
or the baseline.

`PROJECT.json` lists the hazards with their lines.

## 2. Modules

| module | models | proofs |
|---|---|---|
| `Lifecycle` | the policy of `runtime.rego`, of the Python fallback and of the refusal, over the facts and the violations they report themselves; the transition of each event. Constant operators only | |
| `LifecycleMachine` | one question to that machine, over any facts | `LifecycleProofs` |
| `PipelineLoop` | the history of re-entry decisions and its four budgets | `PipelineLoopProofs` |
| `Decomposition` | packet selection, status and progression. Constant operators only | |
| `PlanBuilder` | which packets the planner emits, over rounds of planning and re-entry | `PacketProofs` |
| `Workflow` | the stage graph, state, readiness, checkpoints, crashes, resume; extends `Lifecycle` and `Decomposition`, instantiates `PipelineLoop` on the history in its state | `WorkflowProofs` |
| `AgentCall` | abstract: one reply to a call, with evidence only after the hand-off | |
| `OpenHandsRun` | the call as client, connection, server and agent perform it; implements `AgentCall` | `OpenHandsProofs` |
| `CheckpointLog` | abstract: a log of artifacts; recovery reads the last checkpoint of its task | |
| `ArtifactStore` | files, index, temporary file and memory of several stores, step by step; implements `CheckpointLog` | `ArtifactProofs` |
| `PacketPolicy` | alias table, registry, permission catalog, access lists, action policy and the gate of a stage packet | `PacketProofs` |
| `ContractCall` | one call of the direct model: replies, judgements, repairs, record | |
| `StrategyAdvice` | the checkpoints of a run: signals, governor, validator, arbitration; extends `ContractCall` | `StrategyProofs` |
| `Cockpit` | the terminal interface: keys, workers, message queue, panes | `CockpitProofs` |
| `MCLifecycle`, `MCPipelineLoop`, `MCWorkflow`, `MCOpenHandsRun`, `MCCockpit` | values for TLC | |
| `DocumentedClaims` | sentences about the workflow that the code contradicts | |

Definitions marked "Faulty" stand next to the definition they are a wrong
version of; they show that a property notices that mistake, and nothing else
uses them.

### 2.1 How state and actions correspond to the code

*`Workflow`.*

- `s` is the `WorkflowStateSnapshot`, reduced to the fields that a decision
  reads. `None` is an absent field; a field whose content decides nothing is
  `Made`. `s.loops` is `pipeline_loop_decisions`, `s.repairs` the repair
  attempts, `s.retries` the agent retries, `s.decision` the `next_stage` of the
  last controller decision - the only one of that list that is read.
- `node` is the stage the router chose; `exit` says how the run stopped: with a
  report, with the exception of a readiness gate, of a checkpoint validation, of
  the publish node or of the adapter's repair budget, or with a crash.
- A stage node, its merge, its checkpoint and its router are one action (`Fill`,
  `Commit`). No other process reads the state in between, and a checkpoint is
  written after each node, so `s` is always the last checkpoint.
- `CrashBeforeCall` and `CrashAfterCall` stop the process while a stage runs:
  its update is lost, and a call to the agent or the publisher has happened in
  the second case. `Resume` starts the graph at `ResumeStage`, from a crash as
  from any exception.
- `repairCalls`, `publishes` and `vouched` are history variables: the calls that
  reached the outside, and which checks the workspace has had since an agent
  last changed it. `vouched` is emptied by the agent's calls, gains "reviewed"
  by a passing review, "tested" by the QA execution, "verified" by a passing QA
  review of tests that ran after the change, "excused" by one that did not pass
  and was put down to the environment, "accepted" when the acceptance gate opens.
  No guard reads them.

*`OpenHandsRun`.*

- `log` is the conversation's event list on the server, an event its position;
  `todo` and `queue` are what the agent has still to emit in its turn and the
  messages it has still to take up. A turn is a script out of `FirstTurns` or
  `FollowupTurns`.
- `pc`, `round` and `attempt` are where `OpenHandsAgentServerRunner` and the
  adapter stand; `r` holds the locals of the loop over events (latest text,
  terminal status, signs of work), `seen` the known event ids that make a
  follow-up pass over events of the first run, `conn` and `pos` the websocket
  and how far it has been read.
- `Receive` is one event through the whole loop body: the filters, the text, the
  error, the terminal status and the break. A reconnect reads from the first
  event, since the client asks for `resend_all`. `GraceEnds` is the wait after a
  terminal event without text, `ReadHistory` the fetch over REST behind it.
- `broken` records which faults happened; only properties read it, so that each
  says under which faults it holds.

*`ArtifactStore`.* A store's addition is three steps, as the code performs three
writes: the file, the temporary index, the replacement. `Open` loads the index
and starts empty where it cannot be read, which is what the code's exception
handler does. A process dies between any two steps. `Recover` chooses the
checkpoint of a task by its time, then by its place in the index. `shared`
records whether a second store was open or an index was misread.

*`PacketPolicy`.* The tables are the code's, name by name, because the property
is about spellings; a packet is what the gate reads of it. It starts as one of
those the stages build, and `Allow`, `Forbid` and `Omit` edit it: the distance
of a caller from the built packets.

*`ContractCall` and `StrategyAdvice`.* A reply is how the gateway judges it;
`record` is the `ContractResult` with its `repair_attempts` and repair replies.
A checkpoint is three steps, because the call is awaited: `AskAdvice`,
`AwaitAdvice` and `Arbitrate` or `FallBack`; `DecideAlone` where the mode has no
advice or there is no backend. `Stage` is any stage of the run that leaves a
result, with the checkpoint it makes due.

*`PlanBuilder`.* A packet is its type and its position; `Plan` is `plan_node`,
`Complete` one packet executed and reviewed, `Reenter` the clearing of a
re-entry. `worked` is a history variable.

*`Cockpit`.* `workers` are the background tasks, `queue` the application's
messages. A `Press...` action is a key handler and what it starts; an `On...`
action is a message handler, whole. `PressRun` cancels the other workers, as the
exclusive worker group does. `dir` is the content of the `#artifact-dir` input,
which `EditDir` changes at any time; a run writes to the directory entered when
it began (`homes`), and its report is listed from the one entered when the report
is handled (`FilesHere`). `broken`, `wiped` and `strayed` are history variables:
a load or a send was lost since the last choice, which the code reports on no
pane; a reset cleared the evidence list during the run; and so it did and the
report was then listed from another directory.

### 2.2 Abstractions

- Artifacts, events, prompts, texts and identifiers are left out. Where the code
  searches words in a text (the trigger of a re-entry, "published" in a
  verification, a blocker in a command's output) the model takes the answer as a
  field of the record the outside returns.
- An execution result has its own success flag, status, failure (none, or a
  producer failure that may or may not be retried), git actions, blocker, checks
  and whether files changed; `Executions`, `Verifications` and `PublishResults`
  in `Workflow` say the same for each answer.
- Plans are told apart by whether they change the repository, whether they ask
  for tests and for publication, and whether their family works on the world
  (`world`: a repository, a host, a cluster or a network; the one family that
  does not is `documentation_only`). The evidence gate asks for an observation by
  the family and not by what the plan changes, so the two are independent in
  `PlanRecords`. Test levels are not told apart: an environment blocker blocks
  the obligation to test.
- A verification lacks evidence, or setup (`gap`); "setup" stands for a missing
  setup step and for a missing integration, smoke or end-to-end level, which QA
  review and acceptance both read. What only the QA report says - that an item
  was blocked - is `QaReports`; the QA review reads it, and acceptance does not.
- `Govern` in `Workflow` is the governor without advice (`rule_based`): what
  advice may change is in `StrategyAdvice`. The completion status that a reply
  may name for itself is left out of `CompletionStatus`, the check of the form of
  the last transition out of `Valid`, the packet's own forbidden actions out of
  `PromptForbids`.
- The lifecycle facts may carry violations of their own
  (`control_plane_violations`), which the fallback repeats and Rego never reads.
  `Lifecycle` has them; `lifecycle_facts`, the only caller, sets none, so
  `FactsOf` has the empty set.
- Of the strategies only `repair_only` changes a decision of the stages;
  `Workflow` calls the others "default", `StrategyAdvice` keeps all six.
- `acceptance` is entered with an execution result; the graph reaches it only
  through `qa_review`, which requires one. That `publish` texts may raise a
  re-entry trigger is left out, as nothing asks after a publication.
- `verify_node` and `execution_review_node` exist in the code and are not wired
  into the graph; they are not modelled.
- The step limit of the graph library (25 by default, none in the fallback of
  `graph/compat.py`) looks to the workflow like a crash before a call.
- `OpenHandsRun` keeps one conversation; a run into an existing conversation and
  the reuse of a sandbox are left out. A text is a work report, a hand-off or a
  complaint of the transport; the words the result gate searches are these
  kinds.
- The gate's checks of capability name, output list, attempt and attached
  evidence do not depend on names and are left out of `PacketPolicy`.
- `Workflow` takes the reply of `AgentCall` as its input `Outcomes`, and what
  `CheckpointLog` promises as its variable `s`; `StrategyAdvice` and
  `PlanBuilder` refine what `Workflow` abstracts to "repair_only or not" and to
  packet chains. The composition is by these interfaces: one state space of all
  of them would be out of TLC's reach.

## 3. What the runs check

| run | question | bounds | states |
|---|---|---|---|
| `lifecycle` | do the two engines agree, do publish and repair keep to their gates, does a missing engine close them | every Boolean fact, with and without a violation reported in it, 1 or 2 attempts of 2, each event and engine | 204,800 |
| `pipeline_loop` | are the budgets kept, is a denial final | 3 sources, 3 triggers with 2 targets, limits 4/2/2/2, histories of 5 | 271,453 |
| `workflow` | the gates of a run without crashes | four plans, two packets, three of the four routes, every policy verdict, approval, gathering and QA report, 8 agent outcomes, 7 verdicts and 4 publish results; 1 repair, 1 retry, budgets 2/1/2/2 | 399,902 |
| `crashes` | what a crash costs, and whether the four loops end | one crash at any stage, before or after its call, or one resume after an exception; 2 repairs, 1 retry, budgets 1/1/2/2; outcomes include the one that loops | 30,845 |
| `openhands` | one call, its text and its end | 4 scripts of work and 3 of hand-off, 2 addresses, 2 polls, one broken connection, each other fault at any time | 716,022 |
| `artifacts` | index and files, and the log of checkpoints | 2 stores, 2 tasks, 3 artifacts, 2 crashes, 2 instants | 1,375,476 |
| `packets` | do the tables agree where it matters | the 7 packets the stages build, and every packet two edits away | 165,272 |
| `cockpit` | what the screen shows | 2 conversations up to symmetry, 2 directories, 2 runs, 2 workers, 1 waiting message, 1 artifact per run | 2,986,012 |
| `strategy` | are checkpoints decided, and rightly | each mode, 2 tasks, every result, 1 repair of a reply, 1 repair of the run | 438,558 |
| `plan_builder` | are plans valid and complete | 6 strategies, 4 complexities, every set of needs, 2 rounds | 350,131 |
| `claim_vouched`, `claim_retrieval` | two sentences of the repository | see 4 | violated |

*Why these bounds.* A budget shows its off-by-one when it can be reached and
overrun: in `workflow` one repair leads back to review and a second is refused, in
`crashes`, which is about the count, two allow a repair of a repair and the refusal
of a third; the fourth route, observation without research, is that of `crashes`;
each of the four re-entry limits is the one that denies in some history of
`pipeline_loop`; two packets have a first and a dependent one. Two crashes of a
workflow would repeat what one shows, since a resumed run depends on the
checkpoint alone; the store needs two, one per store. One broken connection
replays the whole stream once, in either round; a second replays the same
events. Two addresses are one that fails and one that answers. Two conversations
are the selected one and the other - nothing else tells them apart, so they are
interchangeable -, two runs the old report and the new, two directories the run's
and another. Two edits of a packet are enough to add a name and drop the guard against it. Each
outcome in `MCWorkflow` is there because one branch of a stage needs it, each
script in `MCOpenHandsRun` because one exit of the loop does (text before the
end, text after it, no text, complaint). The policy engine answers as the
fallback does in `workflow`: what happens when it does not is `FailsClosed` in
`lifecycle`, over all facts.

### 3.1 The properties

*Lifecycle and budgets.* `EnginesAgree` - what the fallback allows Rego allows,
and what Rego allows the fallback refuses only for a violation the facts report
themselves. `FailsClosed` - a missing engine closes every gate. `PublishIsGated`,
`RepairIsGated`. `ReentriesBounded`, `DenialIsFinal` - no order of questions
exceeds a budget or revives a denial.

*The workflow.* `PublishIsVouched` - publication only of a revision that was
reviewed, tested, verified and accepted since an agent last touched it, where one
thing stands in for a passed verification, as in the code: an item of the QA
report that was blocked. That this is possible is shown in section 4.
`PublishAsPlanned` - and only where the plan asks for it, of a successful
execution, with the tests the plan asks for and no missing environment named by
the execution or the verification. `ExecutePermitted` - execution only on the
*current* plan's permission and evidence, though re-entries replace plans.
`CompletedIsEarned` - the first rule of the report that matches calls a changed
repository completed only if the execution changed it, failed in nothing and left
git alone, past review, tests, verification (or what excuses it) and acceptance,
and with the tests and the publication the plan asks for. Two things the code
accepts remain, where the plan asks for no tests: a partial execution, and an
excused verification. `GatesNeverRaise` - the readiness gate, the checkpoint
validation and the publish node, which raise, never do in a run without crashes,
whatever was cleared. `FollowsLoopBudget` - `Workflow` implements
`PipelineLoop`: its history of decisions changes only as that module allows,
from any of the stages that write it. `RepairsBounded`, `PublishesBounded` - the
calls that reach the outside, crashes included. `ProducerFailureNotRepaired` -
an agent that returned nothing usable is never sent to repair. `Termination` -
every run, and every resumed one, ends or takes for ever one loop that the code
does not bound (3.2).

*The call.* `ImplementsCall` - one reply, with evidence only after the hand-off,
under every fault. `FailureIsReported` - a call without evidence names a failure
the retry policy knows. `EndIsOwn` - a replayed stream does not end the
follow-up by the status of the turn before. `NoWorkAfterReturn` - no stage goes
on while the agent still works. `NewestTextTaken` - no text that its turn had
replaced is returned. `CallReturns` - the call ends.

*The store.* `IndexedHasFile` - whatever dies when, the index names existing
files. `ImplementsLog` - as long as one store writes at a time and reads its
index, the directory is a `CheckpointLog`: what was recorded is found, the last
of its task is read.

*Packets.* `NothingForbiddenIsAllowed` - no agent starts with a packet that
allows a name its prompt or the guards of its kind forbid, over four independent
lists. `TablesNest` - what a started packet allows, the registry allows, and no
permission grants more than the access list. `BuiltPacketsStart` - of the
packets the stages build only the retrieval's is refused.

*Strategy and plans.* `FailureMeansRepair`, `RefusedAdviceChangesNothing`,
`OnlyDriftIsRepaired`, `AnswerIsTheValidReply`, `RecordIsComplete`,
`CheckpointIsDecided`; `PlansAreValid`, `NeedsArePlanned` - a need goes without
a packet only where the cut at five packets, a repair or the one packet of a
simple task explains it.

*The interface.* `RunningIsTrue` - one run at most, and the flag says so in any
order of resets, cancellations and late results. `TranscriptIsOfSelection` - at
rest the pane shows the conversation the next message goes to.
`EvidenceIsListed` - the artifacts of a run are listed twice, by its events and
from the directory when the report comes; a report comes without them only if a
reset and an edited directory defeated both.

*A re-entry that never happens.* In a run without crashes the re-entry of
`acceptance` is never taken: it asks the question that `qa_review` has just had
answered "continue", with the same evidence and one decision more against the
budget.

### 3.2 Fairness

- `Workflow`: `WF_vars(Stage)`: the graph driver runs the next stage as long as
  there is one, and a stage returns. It says nothing of which answer comes, so
  termination does not rest on the agent's luck. Crashes and resumes carry no
  fairness.
- `OpenHandsRun`: `WF_vars(Server)` and `WF_vars(Client)`: the server settles
  the start task and the agent brings each turn to its end; the coroutine runs
  on. Faults carry none. That the agent ends its turns is an assumption about
  the outside: the code has no deadline for a stream that stays open and silent,
  and the hazard says so.
- `StrategyAdvice`: `WF_vars(Checkpoint)`: a call ends at the latest by its
  timeout.
- `Cockpit` has none: its properties are safety. That a run ends is not claimed,
  because the call it awaits may wait for ever on a silent stream.

*The loop without a bound.* An execution that stays `partial` with a generic
blocker (`Stuck` in `MCWorkflow`) passes the review, the progression under
`repair_only` selects the same failed packet, and no budget counts the loop.
`FailedPacketAgain` names the state at which it turns, and `Termination` says
that a run which does not end comes back to it for ever. The run `crashes` has
that outcome among its answers.

*What crashes break.* `PublishIsVouched`, `ExecutePermitted`, `GatesNeverRaise`
and `CompletedIsEarned` hold without crashes and not with them; the reasons are
`claim_vouched` and `ResumeIsSafe` in the next section.

## 4. Sentences that the code contradicts

Two are runs and end with a behaviour against the sentence.

| run | sentence | what happens |
|---|---|---|
| `claim_vouched` | ARCHITECTURE.md:217, after each repair review, verification and acceptance come before publish | the checkpoint before a repair is resumed at `qa_review`, because its strategy checkpoint appended a decision with that name; the QA report of before the repair is read again and the changed workspace is published without a review or a test |
| `claim_retrieval` | `tests/test_runtime_action_registry.py:45`, the packet of the retrieval "Must not raise." | the packet allows `inspect_release_notes` and `inspect_package_registry`, which registry and catalog know and the alias table the gate reads does not: the packet is refused |

The others are definitions of the modules. To see one violated, put its name in
place of the properties of the cfg.

| definition | cfg, module | sentence | what happens |
|---|---|---|---|
| `ResumeIsSafe` | `ClaimVouched.cfg`, `DocumentedClaims` | `control_plane/recovery.py:139`, "safe to resume" | a re-entry clears the plan in the update of `qa_review`; a crash before the next checkpoint resumes at `qa_review`, which needs the plan |
| `PlannedResumesAtPolicy` | `ClaimVouched.cfg`, `DocumentedClaims`, as PROPERTY | `tests/test_recovery_resume.py:42`, a planned checkpoint resumes at policy | the test's snapshot has no controller decision; those of `plan_node` have one, and it names `plan` |
| `RepairLimitReported` | `ClaimVouched.cfg`, `DocumentedClaims` | `lifecycle/policy.py:138`, past the limit the run finalizes non-success | that query is asked after a publication only; the reviews send the run to `repair`, where the adapter raises |
| `ExhaustionIsNoSuccess` | `Workflow.cfg`, `DocumentedClaims` | README.md:166, an exhausted budget ends in a hard non-success | without an acceptance decision the report uses the verification, and a passed one of a plan that changes nothing is "completed" |
| `BlockedIsNotPublished` | `Workflow.cfg`, `DocumentedClaims`, as PROPERTY | `lifecycle/policy.py:118`, "Publish is forbidden while mandatory verification is blocked by missing environment/runtime prerequisites." | a blocked item of the QA report excuses a verification that did not pass; the facts of the publish gate come from the execution and the verification, so the revision is published |
| `FailedChecksAreNoSuccess` | `ClaimVouched.cfg`, `DocumentedClaims`, with `Verdicts <- ClaimingVerdicts` | ARCHITECTURE.md:223, with no repair left failed checks are a non-success | a refused transition does not evaluate acceptance again, and the old acceptance says "completed" if the verification already called the change published |
| `WaitsForTerminal`, `CollectsItsAnswer` | `OpenHandsRun.cfg`, `MCOpenHandsRun` | `openhands_adapter/runner.py`, "wait for terminal status", "collect its answer" | a stream that closes in order ends the run with the text so far; the follow-up falls back to the newest text of the whole history, the first turn's |
| `EmptyRunIsNoEvidence` | same | `openhands_adapter/result_gate.py`, empty terminal runs are not "converted into operational evidence" | an empty first run leaves a diagnostic, which is text and no transport error, so the follow-up is sent; its hand-off alone then makes the call succeed. The sentence holds of the first answer by itself, not of the call |
| `TimeoutIsNotReady` | same | `openhands_adapter/client_core.py`, timed out waiting for READY | the answer of the last poll is looked at one iteration later, which does not come |
| `StoredIsIndexed` | `ArtifactStore.cfg`, `ArtifactStore` | `artifacts/__init__.py`, each fact is persisted "as a file plus an index record" | another store writes its own memory over the index |
| `TablesAgree` | `PacketPolicy.cfg`, `PacketPolicy` | `policy/registry.py:18`, the tables "cannot drift" | the spellings that `claim_retrieval` is about |
| `EvidenceIsOfTheRun` | `MCCockpit.cfg`, `MCCockpit` | `tui/app.py:606`, the evidence of the run | the files of the directory are listed, those of earlier runs too: the index it looks for is not the one the store writes |
| `RejectionAfterRepairRepairs` | `StrategyAdvice.cfg`, `StrategyAdvice` | `strategy/governor.py:64`, the reason of the rule: acceptance failed after repair | the rule asks for statuses no acceptance has |
| `ImplementedOnce` | `PlanBuilder.cfg`, `PlanBuilder` | the planner's tests: completed work is not planned again | a re-entry clears the plan before the planner reads from it what was completed |

Worth knowing besides: a replayed stream that closes before it is read through
leaves the older text; a stream given up early lets the follow-up be ended by
the status of the turn before; in the interface a late load changes the
selection, and the current conversation need not be the run's.

## 5. What is proved

Every invariant and every safety property that a run checks is also a theorem,
for every value of the constants within the named assumptions of the modules
(types, limits in `Nat`, `None` outside the sets it stands beside). One
assumption says more than that, and it is about the outside: `TurnsAssumption` of
`OpenHandsRun`, that a turn of the agent has one end and no work after it. The
theorems about ends and texts use it.

*`LifecycleProofs`*: for all facts, not those of a run, and whatever violations
they report themselves - what the fallback allows Rego allows, and the fallback
refuses more for those violations only (`EnginesAlwaysAgree`); hence the engines
route alike where the facts report none, which is what `lifecycle_facts` builds,
and where they report some Rego still publishes and repairs wherever the fallback
does (`RoutesAlwaysAgree`, by a lemma that the transition reads nothing but the
answers); publish and repair only through their gates (`PublishAlwaysGated`,
`RepairAlwaysGated`); a missing engine closes both (`AlwaysFailsClosed`).
`TypesKept` is the type of question, answers and route.

*`PipelineLoopProofs`*: for any limits, sources and triggers and any length of
the history - the type (`TypeCorrect`), that only the first `GlobalLimit`
decisions re-enter (`ReentriesAlwaysEarly`), the four budgets
(`BudgetAlwaysKept`), and, if the policy engine always answers, that a denial
stays one (`DenialAlwaysFinal`). These are theorems of `History`; model checking
follows it up to `MaxDecisions`, which is `Spec`, and `CheckedIsHistory` says so.
The budgets count positions in a growing sequence: a lemma bounds the count after
an append by the count before plus one, and a re-entry is appended only when the
count is below its limit. Denials rest on an invariant that a denied source and
trigger has an exhausted budget; budgets only grow.

*`WorkflowProofs`*: four groups, each with an invariant of its own.

- *What reaches the outside.* `RepairsAlwaysBounded`: at most the limit of
  repairs plus one per crash. `RepairsBounded` is not inductive, as it does not
  relate calls to the attempts counted in the checkpoint. `RepairInv` does:
  calls exceed attempts plus resumes by nothing, or by one while a crash has cut
  off an attempt below the limit and the run is not resumed.
  `PublishesAlwaysBounded`: `PublishInv` adds that a run at a stage from which
  publication can be reached is one below the limit; a publication leaves that
  part of the graph, the repair that leads back adds a call, a resume a crash.
- *Types.* `TypesKept` is `TypeOK`, in every run, crashes included. `TypeInv`
  gives each of the fields its exact set and holds through every merge
  (`FillTyped`), clearing (`ClearTyped`) and resume.
- *The gates of a run that nothing cut off.* `GateInv` says for each stage what a
  run that stands there brings: the fields its readiness gate asks for, those the
  status promises, the verdicts and approvals that let it through (`Permitted`),
  which checks `vouched` holds and what the execution and the verification must
  say for that (`Vouched`), that the contract is the current plan's and no older
  publication is left (`Planned`), and what an acceptance in the state has found
  met (`Judged`). One lemma per stage carries it from the stage to its
  successors; a clearing goes back only to stages that ask for what it left. From
  it follow `NoGateRaises`, `CompletionIsEarned`, and, with the action that
  publishes or executes, `PublicationIsVouched`, `PublicationIsPlanned` and
  `ExecutionIsPermitted`. The first two are stated of the states before the first
  crash, the others, which speak of steps, of runs without one (`MaxCrashes = 0`).
  The restriction cannot go: with a crash they are false (`claim_vouched`).
- *Failures and budget, crashes included.* `UnusableIsNeverRepaired`: an
  execution that returned nothing usable is never handed to repair. `ProducerInv`
  says that such a run is at review, at its retry or at the report, and, if it
  crashed, would resume at review. `BudgetFollowed`: `Workflow` implements
  `PipelineLoop`, step by step - stages other than `qa_review` and `acceptance`
  leave the history alone, these append what `Ask` or `PreferRepair` appends, and
  a resume takes it from the checkpoint. `RunsKeepTheBudget` carries
  `BudgetAlwaysKept` over.

*`StrategyProofs`*: for any bound on the repairs of a reply, any modes and tasks -
only drift is repaired and a bounded number of times (`CallsAreBounded`), an
answer is the accepted reply (`AnswersAreValid`), the record counts all
(`RecordsAreComplete`), by an invariant that relates the phase of the call to the
last reply, the number of replies to the attempts, and the record to both. A
checkpoint on a failed run repairs (`FailuresRepair`) and refused advice changes
nothing (`RefusalsChangeNothing`): case distinctions over the governor's rules
and the validator's, which share no code. `AdviceIsAlwaysContracted` joins the
two halves; `TypesKept` is the type.

*`ArtifactProofs`*: `IndexedFilesExist`, for any number of stores, artifacts,
crashes and misread indexes. `IndexedHasFile` is not inductive, as a store
replaces the index by what it holds in memory: `FiledInv` says that index,
temporary file, every memory and every artifact being added name existing files,
and files are never removed. `TypesKept` is its first part. `LogImplemented`:
until two stores have been open at once or an index was misread, the store
implements `CheckpointLog`. `SoleInv` says what makes it so: the index is in the
order of time, the one open store holds what the index says, and between
`Register` and `Replace` one record more, no older. `Replace` then is `Record`,
every other write a stutter; and recovery, which looks for the newest time and
then for the last position, finds the last position of all.

*`OpenHandsProofs`*: for any scripts, faults, addresses and polls -
`FailuresAreReported` and `CallImplemented`, the refinement of `AgentCall`.
`TextInv`: each text the client holds is one of the log; `CallInv`: an answer
exists only where the call is over, and it is the gate's judgement of a text of
the log, so a usable one is a hand-off. Every step maps to `HandOver`, `Reply` or
a stutter. `TypesKept` adds the types of control, reading and answers. The
properties about turns rest on five invariants together (`ReadInv`): after the
end of a turn its script holds no second end and no work (`TurnInv`, from
`TurnsAssumption`); while no message is posted twice there is at most one turn
for each round (`StartInv`); what was seen is the conversation up to some event,
since every connection reads from the start (`SeenInv`); a run that was read
through is over only after an end, and the second round has seen the end of the
first (`RoundInv`). `EndsAreOwn` and `NothingWorksOn` follow. `NewestIsTaken`
needs `NewestInv` besides: which text a connection has taken, compared with those
before and behind it in the log. Each holds under the faults its property names.

*`PacketProofs`*: for any strategies and rounds every plan is one to five packet
types, and the repair alone under `repair_only` (`TypesKept`); hence the
validator accepts it (`PlansAlwaysValid`), and the fallback behind a refusal is
never taken for a plan of the rule-based planner. `NeedsAlwaysPlanned`: the plan
is followed through its concatenations and the cut at five, and a re-entry starts
from no completed packet. Of the gate: `NothingForbiddenStarts` - none of the
names that prompt and guards forbid is a spelling of an action its stage may
perform, but for the writing commands of an observation, which the gate names
itself; `TablesAlwaysNest` - no spelling stands for two actions, and what the
registry adds or normalizes makes no second reading; `BuiltPacketsAlwaysStart`.
The lemmas are about packets of any names, the theorems hold for any number of
edits.

*`CockpitProofs`*: for any number of runs, workers and messages and any order of
keys, cancellations and late results. `BusyIsTrue`: `OneRun` counts the run in
flight and its result in the queue together: never both, one of each at most, and
the flag says whether there is one. `ReportsListEvidence`: `Reported` adds that
the report on the screen is never of the run in flight, that the result that
waits is of the last run, and that files are of runs that were started; `Told`
that while no reset met the run in flight each of its artifacts is listed or named
by an event that waits in front of the result.
`SelectionIsShown`: that no answer is on its way is a condition of the property;
`Settled` says that either one is, or one was lost, or the pane shows the
selection, and each handler selects what it shows.

*Only model-checked*: liveness under fairness (`Termination`, `CallReturns`,
`CheckpointIsDecided`) and whatever would need ENABLED, which
are outside the prover. The two claims of section 4 are false, and their runs
show it.

The Boolean case distinctions of `Lifecycle` and `PipelineLoop` are written with
IF instead of CASE where a proof expands them. `ArtifactStore` picks the newest
checkpoint by the set of its positions, not by sorting and selecting from a
sequence, which would need induction over data.

## 6. Not modelled

- The QA runner and the environment provider run commands and read their text;
  `Workflow` takes whether tests ran and whether the environment blocks.
- The done contract, capabilities and families compile requirements out of
  texts; `Workflow` keeps that the contract was made.
- The decision whether research is needed (`freshness/`) reads words of the
  task; `Routes` stands for it. The external policy engine's verdict on a plan
  is `PolicyVerdicts`.
- The collection of evidence, observation and context is in the model as the
  packets it asks with; what was collected is input.
- The command line, the runtime factory, the routing of models, the evaluation
  harness (offline) and the legacy git publisher (not on the path of the graph)
  keep no state a stage reads.

## 7. Plan

1. `RevisionGate`: the abstract promise of publication - change, review, test,
   verify, accept, publish - that `Workflow` implements without crashes, and the
   part of it that survives them.
2. `QaRun` with the reconciliation of the environment, the freshness decision
   and the done contract: decision procedures, each against a reference
   definition over bounded inputs.
3. A run into an existing conversation and the reuse of a sandbox in
   `OpenHandsRun`.
4. Proofs: the refinement of `RevisionGate`; the dependencies of packets that
   `Decomposition` keeps; what of `PublishIsVouched` survives a crash at a stage
   that has not called the outside.
