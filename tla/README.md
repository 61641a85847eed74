# Verification of Open Hollywood's story workflow

TLA+ models of the parts of Open Hollywood that decide whether a story survives
its own execution: the durable run controls, the worker with its database
threads, the human decision and the handoff, the review loop that turns an
approved Blueprint into canonical scenes, what the application makes of the
specialists' answers, the calls to their models, the settings they depend on,
the event log, and the benchmark campaigns. TLC checks the models on small
instances; TLAPS proves their safety properties and two refinements for every
instance (section 5); liveness is left to TLC.

Paths below are relative to `src/`. *Services* are
`apps/api/open_hollywood_api/services/`, *workflows* are
`engine/open_hollywood_engine/workflows/`.

## 1. The system

One process serves a FastAPI application and runs a workflow worker on the same
event loop. Two things are durable, both in SQLite: the application's tables
and LangGraph's checkpoints. Every application transaction runs in a thread
(`asyncio.to_thread`), so a cancelled task can leave a transaction behind that
still commits. SQLite has one writer at a time, but a transaction that has only
read holds no lock.

| Component | State | Operations | Talks to |
|---|---|---|---|
| Run controls (`services/run_controls.py`, `workflow_commands.py`) | `workflow_runs`, `workflow_run_controls` | pause, stop, budget, resume, retry; `before_node`, `execution_boundary` | API clients; the worker (wake, cancel) |
| Worker (`apps/worker/.../runtime.py`) | loop task, active tasks, wake event | start, freeze inputs, claim, execute, cancel, stop | both services; run rows |
| Blueprint service (`services/blueprint_workflow.py`, `workflows/blueprint_graph.py`) | run row, checkpoint, `human_decisions` | execute, recover, retry child, resume, fork, approve | graph, executor, controls |
| Blueprint executor (`services/blueprint_model_executor.py`) | `agent_invocations`, artifact versions | replay, start, complete, fail | model gateway |
| Cancellation (`services/workflow_cancellation.py`) | tracked specialist tasks | cancel and join | both executors |
| Production service (`services/production_workflow.py`) | run row, checkpoint | handoff, execute, recover, retry at the checkpoint, complete, fail | graph, executor, controls |
| Production graph (`workflows/production_graph.py`, `production_contracts.py`) | `ProductionGraphState` | draft, dialogue, critique, continuity, adjudications, Story Bible update, accept | executor |
| Dialogue subgraph (`workflows/dialogue_graph.py`) | dialogue fields of the same state | brief, perform, evaluate | production graph |
| Production executor (`services/production_model_executor.py` and the `production_*` modules beside it) | `agent_invocations`, artifact versions | replay by fingerprint, choose a model, generate, normalise, commit, fail | gateways, Story Bible reducer |
| Writer fulfilment (`services/production_fulfillment*.py`) | snapshots in `request_settings` | project, pin, verify | production executor |
| Story Bible reducer (`engine/.../artifacts/story_bible.py`) | - (pure) | apply an update | production executor |
| Model profiles (`services/model_profiles.py`, `engine/.../models/profiles.py`) | `model_profiles` | list, configure, activate | settings page; worker |
| Gateways (`engine/.../models/ollama.py`, `openai.py`, `routing.py`) | - | generate, within a call budget | providers |
| Event log and stream (`services/workflow_events.py`, `event_stream.py`) | `workflow_events` | append; page and follow by cursor | every writer; API clients |
| Workspace (`services/workspace.py`) | projects, intake, artifacts | create a story, delete a project, read | API clients |
| Campaigns (`scripts/evaluation_harness.py`, `services/evaluation_*.py`, `agentic_benchmark.py`) | Blueprint and story runs, review packets, the report file and its lock | prepare, package, approve, run batches | both services; operators |
| Context compiler, exports, secrets, web client | - | text, files, configuration, user interface | - |

What is hard here: transactions of cancelled tasks that commit late; a check and
the write it guards in two transactions; parallel nodes of one super-step that
share a run row; a crash between a committed output and its checkpoint; commands
and decisions that arrive at any of these points or twice; state that is carried
over from an earlier unit, pass, revision or attempt; findings that pass through
several partitions and foldings before a verdict; charges that may have been
made though no answer came. `PROJECT.json` lists each such hazard at its line
with the properties that would catch it.

What makes the components correct: calls follow the graph; finished means
complete; evidence of finished work is never lost; a persisted result is not
paid for twice; a budget is overrun by no more than what was in flight; every
run comes to rest; a stop ends the execution it meets; a production or a child
exists only by a decision; what is accepted was reviewed as it is; no finding
falls between two foldings, and no repair is asked for in words nobody gave; the
Story Bible means what the answers said; a pass of dialogue integrates its own
turns; a prompt goes only where its role may; a reader of the log misses nothing.

## 2. The modules

| Module | Models |
|---|---|
| `RunControls` | the three tables and every `RunControlStore` transaction |
| `WorkflowRuntime` | extends it with the worker, the services' execution steps, the node tasks, the threads left behind, and the process |
| `StoryLife` | one project from its intake to its production: claims, decisions, forks, handoff, deletion |
| `SceneProduction` | the production graph over the executor's persisted outputs |
| `StoryCanon` | what a production promises of its canon (abstract) |
| `DialogueRounds` | the dialogue passes of one production |
| `ContinuityRechecks` | the continuity reports of one scene's revisions |
| `CriticReviews` | the critiques of one scene's revisions |
| `StoryBible` | answers, deltas and the snapshot, scene after scene |
| `ModelProfiles` | presets, their completeness and the routing of roles (operators) |
| `ModelCalls` | the calls of one task: model, gateway, charge, retries |
| `WriterHandoff` | the evidence all calls of one writing task share |
| `ModelPresets` | the preset rows under concurrent requests, and the worker that freezes one |
| `EventLog` | appends, pages and streams |
| `EventFeed` | what the log promises to those who follow a run (abstract) |
| `Campaign` | a benchmark campaign of several processes |
| `MCWorkflowRuntime`, `MCSceneProduction`, `MCServices` | instances for TLC |
| `WorkflowRuntimeProofs`, `SceneProductionProofs`, `StoryLifeProofs`, `ContinuityRechecksProofs`, `ModelCallsProofs`, `CampaignProofs` | the theorems about the module each is named after: inductive invariants and proofs |
| `PartsProofs` | the theorems about `WriterHandoff`, `ModelPresets`, `EventLog` and `MCSceneProduction` |
| `ServicesProofs` | the theorems about `StoryBible`, `CriticReviews`, `DialogueRounds` and `MCServices` |

`MCSceneProduction` and `MCServices` hold several components that share no
state. A variable `part`, chosen in the initial state, says which of them a
behaviour is about, and the others do not move: one run explores the sum of
their state spaces, not the product.

### RunControls and WorkflowRuntime

One action is one `session_factory.begin()` block, or one step of the event loop
between two awaits.

* `rows[r]` is the row of run `r`. `seeded` and `skipped` are what a retry child
  starts with: the nodes whose artifacts it inherited, and the nodes its entry
  point passes over although the source had no artifacts of them. `synced` says
  that `checkpoint_id` is set.
* `done[r]` is the set of nodes in the LangGraph checkpoint of `r`;
  `invocations` and `controls` are the append-only tables.
* `exec` is the execution the worker awaits, with the phase it is in
  (`Begin`, `Recover`, `Launch`, `ExecutionBoundary`, `SyncCheckpoint`, `Finish`,
  `FailRun`, `Settle`); `task[n]` is the program counter of node `n` of the
  running super-step, from `node_started`'s two transactions (`CheckNode`,
  `StartNode`) through the call (`StartCall`, `Answer`, `SaveCall`, `FailCall`) or
  a replay (`Replay`) to `CompleteNode`.
* `orphans` are the transactions whose task was cancelled. Each commits later
  (`OrphanCommit`) or never, if no thread had taken it (`OrphanNeverRan`; a
  `start` is the second half of a thread that is already running and always
  commits).
* `Raise` is the first exception of a super-step: siblings are cancelled, their
  recorded calls are failed and joined (`AbortCall`), their threads become
  orphans. `CancelExecution` is `task.cancel()`; while the execution joins
  specialist calls, the cancellation is swallowed by `finish_cleanup` and the
  first exception goes on.
* `Shutdown` cancels and awaits the active task, and the process exits when its
  threads have ended (`Exit`); `Crash` drops everything volatile. `Restart` puts
  every RUNNING run back to PENDING.

A production's review loop is unrolled to a linear plan of nodes here; the loop
itself is `SceneProduction`. Loading a task, looking for its persisted result
and starting a call are three transactions in the code; the first two only read
what no other task of the run writes, so they are merged into `Replay` and
`StartCall`. The usage of a run is its number of model calls: tokens, cost and
wall clock pass through the same comparison (`projected_budget_limits`), graph
steps through none. Commands that the code rejects leave no trace (their record
is rolled back) and are no actions.

### StoryLife

`run` has a row for the story's Blueprint, for each child a fork may make, and
for the production of each (its id is derived from the Blueprint's). `thread` is
the latest LangGraph checkpoint of a Blueprint, `asked` the last interrupt its
clients have seen, `decision` both the `human_decisions` row and what the client
sends. An *executor* is the worker or a request that delivers a decision; it
takes one step between two awaits and keeps what it read before in its `view`.
Clients may deliver a decision again after a failure, and, for the actions in
`Overlapping`, while it is still being handled. A crash ends every executor; a
stop, a retry and the deletion of the project come at any time the code admits
them. The specialists of a graph are one piece of work that succeeds or fails.

### SceneProduction, StoryCanon and DialogueRounds

* `outputs` are the succeeded invocations with what they wrote; a version is its
  index. The pair written by a Story Bible update is one version. `live` is
  FALSE once a late cancellation has failed the invocation (section 4).
* `cp` is the checkpointed `ProductionGraphState`, `hand` the output the running
  node has and has not yet checkpointed.
* A task is its operation, unit, revision and input versions; this is what the
  fingerprint identifies, and `Replayable` looks for it (`_replay`).
* A critique passes, asks for a revision, or has blocking issues, all in the
  categories an adjudicator may overrule or not; a continuity report is clear, or
  blocks with or without a non-world contradiction. Nothing else in the contents
  decides control.
* Every `SceneProductionStateError` of the graph is a disjunct of `StateError`.
  No reachable state raises one (`NoStateError`), so no action fails that way.
* The dialogue subgraph is one step here, of any number of its own steps.
  `DialogueRounds` is the subgraph: the checkpoint it shares with the production
  is the state `speech` that each pass finds from the pass before. The service
  configures no dialogue pass today (`services/production_workflow.py:198-214`);
  the production graph accepts them, and the repository's tests use them.

`StoryCanon` promises that scenes become canonical one after the other, each
entered in the Story Bible and then accepted, never changed or withdrawn, and
that a complete production has them all. `SceneProduction!Canon` maps it to
the accepted units and the scenes of the current Story Bible.

### What the application makes of answers

`ContinuityRechecks`, `CriticReviews` and `StoryBible` have one action per
answer of a specialist (with the refusals, retries and adjudications the code
has), and the normalisation as operators in the order the code applies it. Prose
is the set of excerpts it contains; an allegation is a source with a text; an
issue is a category, a severity and what it says. What wording only affects
wording is left out. A bound caps what one answer may contain. Where the code
collects a selection of a list in a new list and only asks which entries are in
it (`_materialize_thread_changes`, `_new_prohibitions`), `StoryBible` has the
family of the entries selected, by their position in the answer.

### ModelProfiles, ModelCalls, WriterHandoff and ModelPresets

`ModelCalls` is one task under a frozen preset: `StartInvocation` chooses the
model from the preset and the latest failure, the gateways may refuse before
anything is sent, reject, lose, refuse or answer, and the service may crash or
be shut down in between. `place` is where the prompt has been, `billed` what a
provider charges whether the application learns it or not.

`WriterHandoff` is one writing task of a revision, in the steps of its threads:
select (or find pinned) the evidence, look for a result, verify and insert,
answer, complete. Threads of cancelled executions stay behind as in
`WorkflowRuntime`. `AuditChanges` edits the critic's stored record; nothing in
the application does that, but the code defends against it and its tests do it
(`tests/api/test_production_fulfillment.py:354`, `:465`).

`ModelPresets` splits a request of the settings page where SQLite lets another
in: a SELECT before the first write takes no lock.

### EventLog and Campaign

The log is the table: a set of rows, read by run and in the order of their ids.
An event is inserted under the write lock and seen once its transaction commits;
a follower reads pages, then a stream that polls, yields batches and breaks, and
comes back with the id of the last event it has received. `EventFeed` promises
that what a run has published stays where it is and only gets longer at its end,
and that what a reader has received is a beginning of it that only gets longer,
until the run is removed with its story. `EventLog!Feed` maps it to the
committed rows and what clients have seen; `ReadersMissNothing` is the part of it
that readers see. A campaign is a set of
processes that read the report, work, and merge the result into the report under
a lock file; operators package, review and approve Blueprints meanwhile.

## 3. The runs that pass

| Run | Instances | Shows |
|---|---|---|
| `controls` | a Blueprint with a parallel pair, a join and a retry child, budget 1; or a production of two steps, budget 1 or 3, one crash or shutdown; two commands of any kind, two attempts | `TypeOK`, `WorkFollowsGraph`, `CheckpointHasEvidence`, `FinishedMeansComplete`, `SequentialBudget`, `SuccessIsUnique` |
| `queue` | a Blueprint and a production in one queue, a stop, failures, one crash or shutdown, a provider that may stay silent; super-steps of one node | `NoStrandedRun`, `RunsComeToRest`, `StopEndsExecution` |
| `scenes`, parts `reviews`, `losses` | two units, one revision each, retries; a dialogue pass and one lost or cancelled output | `AcceptedReviewed`, `CanonicalBible`, `HistoryIsExact`, `StepsWithinEnvelope`, `AdjudicationIsLast`, `NoStateError`, `CanonSpec` (refinement of `StoryCanon`), `ScenesEnd` |
| `scenes`, part `calls` | local, cloud and hybrid presets with every kind of model name, two attempts in each of two executions | `ChargesAreBounded`, `PromptsStayOnDevice`, `EscalationSurvivesLoss` |
| `scenes`, part `writers` | eight records of a critic, any change between them, two executions of two attempts, threads left behind | `WritersShareEvidence` |
| `scenes`, part `presets` | two editors with three requests, the worker | `StoriesRunTheDefault` |
| `scenes`, part `events` | two writers, two runs, three events, a follower with pages of one and batches of two | `FeedSpec` (refinement of `EventFeed`) |
| `services`, parts `life ...` | one story and two children, two decisions, one fault: a decision delivered again while it is handled; a fork against an approval; decisions in turn over two reviews | `StoriesAreDecided`, `ApprovalIsFinal`, `HandoffSettles` |
| `services`, parts `campaign ...` | three cases, two processes, two attempts, one process lost: reviews with one process; concurrent batches | `ReviewedApproval`, `SuccessPaidOnce`, `ReportKeepsSuccess` |
| `services`, part `rechecks` | a claim, a rule, a shortcut and a requirement, two excerpts, two blockers per report | `NoBlockerForgotten`, `UnchangedProseGainsNothing` |
| `services`, part `critic` | one anchor, seven audits, four kinds of issue, two reviews, two findings per answer | `NothingReportedIsLost`, `UnmetRepairStays`, `AcceptedMeansSettled` |
| `services`, part `bible` | one character and a stranger, one thread, three scenes, two entries of a kind per answer | `KnowledgeOfScenes`, `RulesOfAnswers`, `ThreadsKeepTheirHistory` |
| `services`, part `dialogue` | minimum 1 or 2, maximum 1 to 3 rounds, two passes | `IntegratesThisPass` |

`PartsTypeOK` and `ServicesTypeOK` are the type invariants of all parts.

**Bounds.** `MaxCommands` and `MaxCalls` end the append-only tables of the
runtime, `MaxCrashes`, `MaxLosses` and `MaxFaults` the faults, `MaxExecutions`,
`MaxWriting` and `MaxAttempts` the times work is taken up again, `MaxRounds`,
`MaxScenes`, `MaxPasses`, `MaxReviews`, `MaxRequests` and `MaxEvents` the length
of what repeats. Each is the least at which every pair that interferes occurs:
two commands (pause and resume, stop and retry); a parallel pair with a join;
one revision, which separates the first, the last and the only review; two units
or passes, which separate what is shared from what is reset; two executions, the
least with a thread left behind by the first; three scenes, so that a thread is
introduced, resolved and named again; three events in two runs, so that another
run's event lies between two of the follower's. Retries of a failed production
are unbounded. The parts `reviews` and `losses` divide the work: the former
has no losses, the latter lets the second unit pass its reviews. The blueprint
instance of `controls` has no crash, which the production instance and `queue`
have. `CHECK_DEADLOCK FALSE`: a worker without work idles, a complete production
or campaign stops, and a bound ends what repeats.

**Fairness.** `SilentSpec` assumes that the event loop, the worker's loop and the
thread pool keep running while the process is up, and that a process that went
down is started again; it holds no provider to an answer. `Fairness` of
`WorkflowRuntime` adds that a provider call ends, which the timeout of each
node's policy enforces (`_node_policy`). `LifeFairness` says the same of the
worker and of the handlers of requests that were made; no client owes a
decision, and no fault must happen. `ScenesEnd` assumes only that the running
execution takes its next step; nobody has to retry.

**Mutants.** Each property has a mutant in `PROJECT.json`: an operator next to
the definition it replaces, marked *Mutant*, that changes it as a plausible bug
would. The property is violated under the same configuration.

## 4. Where the code and its documentation differ

Each of these runs ends in a counterexample.

* `stop_lost` (`StopIsFinal`): the run is claimed, its execution reads RUNNING and
  starts `_recover_interrupted_run` in a thread; a stop commits CANCELLED and cancels
  the task; the thread commits PENDING, and the worker claims the stopped run
  again.
* `pause_lost` (`PauseHolds`): after recovery a production is PENDING while it
  executes. The check of a node passes, a pause is APPLIED at once because the
  run is PENDING, and the second transaction of the node start writes RUNNING.
* `success_lost` (`SuccessPreserved`): a cancellation between the commit of a
  result and its return to the node runs `_fail_invocation`, which writes FAILED
  over SUCCEEDED. `CheckpointHasEvidence` is what holds: once the node is in the
  checkpoint, nothing takes its evidence.
* `decision_stuck` (`DecisionRetriable`): a decision whose execution is lost after
  the graph took it is refused when it is delivered again, because the open
  interrupt is now the next one.
* `report_race` (`ReportKeepsSuccess`, with a process lost inside the lock): two
  processes find the same stale lock; the second removes the one the first has
  just taken. Without such a loss the property holds (`services`).
* `critic_retry` (`RetriesCanPass`): a refused review with an issue of an
  assignment category retains it for the retry; keeping it breaks one rule, not
  keeping it another.
* `rule_recheck` (`KeepingIsAdmitted`): a World Rule blocker that a recheck keeps
  is rebuilt from the persisted report, which no longer has the violation kind
  that the contract demands of it.
* `dialogue_minimum` (`MinimumRoundsHeld`): a pass inherits the completion reason
  of the pass before, and its first round ends it.

Five observations without a run of their own. `before_node` reserves nothing, so
the parallel nodes of one super-step pass the same check and overrun a budget
together; and each thread that a stop leaves behind between its check and its
insert may record one call more. `SequentialBudget` is what holds: one call, for a
run of single-node super-steps that was not stopped. A failed node fails the run
and cancels its parallel siblings, but a sibling's `node_started` is already in its
thread (`services/blueprint_workflow.py:113`): when that commits late it sets the
failed run RUNNING, and nothing executes the run until the next start of the
process. `NoStrandedRun` is therefore about single-node super-steps. "Atomically select one complete
preset" (`services/model_profiles.py:150`) is checked before the first write of
its transaction, so an incomplete preset can become the default; the worker then
waits instead of freezing it, which is what `StoriesRunTheDefault` says. A
shutdown that closes a call as `cancelled_execution` hides an earlier
`continuity_recheck_stagnated` from the next attempt, while a crash does not:
`EscalationSurvivesLoss` is about the crash. And "The same decision UUID can be
retried safely" (`apps/api/README.md:129`) does not hold of a revision delivered
again before the first delivery has set the run RUNNING: both requests find the
decision recorded and the run PAUSED, and both resume the graph; when the result of
one is approved, the next step of the other sets the approved run RUNNING. A fork
may overlap so, as its child is made once. `services` and `ApprovalStays` therefore
admit an overlap of forks only; with `Overlapping = {"revise"}` TLC finds
`ApprovalIsFinal` violated.

## 5. What is proved

TLC's runs show the properties on the instances of section 3; the theorems below
hold for every value of the constants that satisfies the named assumption of the
module (`RunsAssumption`, `GraphAssumption`, `BoundsAssumption` and
`AttemptsAssumption`; `ProductionAssumption`; `StoryAssumption`;
`RecheckAssumption`; `RatesAssumption`; `HandoffAssumption`;
`CampaignAssumption`; `BibleAssumption`, `CriticAssumption`, `DialogueAssumption`,
`PresetAssumption` and `LogAssumption`). These say what kind of value a constant is, and that names
which stand for different things differ; they bound nothing. The bounds on
faults, attempts and commands are constants too, so a theorem holds for any
number of them. A theorem that assumes more says so here.

Each module has an inductive invariant, `IInv` or one of its own name (the runtime
has four, each resting on those before), which TLC checked on the configurations of
section 3 before it was proved; the theorems follow from it. Every safety invariant,
action property and refinement of the passing runs is stated by a theorem, two of
them under an assumption that is named there. `PartsCompose` and `ServicesCompose`
carry them over to the compositions that the runs `scenes` and `services` check:
whichever part a behaviour is about, each component is one of its own specification
in it.

### WorkflowRuntimeProofs

`TypeCorrect`, `CallsFollowGraph` (`WorkFollowsGraph`) and `FinishIsComplete`
(`FinishedMeansComplete`), from `Invariance`: `Spec => []IInv`. None of the three
is inductive alone. That a run is finished only when complete depends on the
execution being in `boundary`, `sync` or `finish` only when no node is left to
run, and on an *orphaned* `finish` of such an execution that commits after the
worker has gone on to something else. `IInv` therefore adds:

* `UnbornUntouched`, `CallsHaveRuns`: a run no retry has created yet is PENDING
  without a pause reason, and no call is recorded for it;
* `ExecutionFollows`: past the graph, every node of the executed run is
  checkpointed, and an idle worker executes nothing;
* `OrphansFollow`: what a late thread may still commit remains allowed: a
  recorded call had its inputs, a late `finish` belongs to a complete run.

The argument has two halves. Every store transaction is a *store step*: it never
shrinks a checkpoint or the artifacts of an existing run, creates calls only
with their inputs, and finishes only complete runs (one lemma per transaction).
Store steps keep the store's invariant (`StoreStepKeepsInv`) and whatever is
claimed of executions and orphans (`InputsStay`, `DoneStays`). Then each action
of the runtime moves `exec`, `task` and `orphans` so that the claims remain
(one lemma per action, combined in `NextKeepsInv`). The one fact about the graph
is `NothingReady`: if no node of a graph is ready, all are done, because a node
of least stage among the missing ones would be ready; a super-step plan never
stalls.

`EvidenceStays` (`CheckpointHasEvidence`) rests on `EvidenceInv`, which says whose
call is whose: a task that has called works on a call of its own node in the
executed run (`TasksInv`); a late thread that saves or fails a call never writes
that of a live task, and one that fails a call writes where no success is or will
be (`OrphanCallsInv`); a result in hand is that of a succeeded call
(`ResultsInv`). So a success that the checkpoint rests on is never overwritten:
what `_fail_invocation` writes late, and what a cancelled task closes, belongs to
nodes that are not checkpointed. Most transactions are *quiet* (`Quiet`: they make
no call, decide none and leave budgets and artifacts alone), and one lemma covers
them all (`QuietEvidence`).

`BudgetHolds` (`SequentialBudget`) and `SuccessOnce` (`SuccessIsUnique`) are about
runs whose super-steps have one node and that were not stopped (`Lone`), and rest
on `LoneRunsInv` as well. For these, one task exists at a time (`OneTask`, because
two nodes that are both ready are of the same stage). Its cancellation is the only
way a thread of it can be left behind, and only a stop or a shutdown cancels
(`CancelsInv`). After a shutdown the process exits only when its threads are gone,
so a thread of such a run is late only while the process is stopping, and there is
one of a kind at most (`LoneInv`). Hence whoever is past its check is within the
budget (`BudgetInv`), and where a call may still succeed none has succeeded yet
(`OpenInv`). For a stopped run the argument fails: a stop cancels while the process
goes on, and a late transaction may put the run back in the queue (`stop_lost`),
where it is executed beside the threads it left behind.

`NothingStranded` (`NoStrandedRun`) is about these runs as well. Only the start of a
node makes a run RUNNING besides its claim, so `LeftInv` says where one may still
happen: a late `node_started` of such a run exists only while the process is
stopping, and the next start begins without threads. The other half is that an
execution leaves its run only when the run is something else: in `signal`, `failed`
and `settle`, and beside a node that was turned away, somebody has read or written
another status (`Ending`), and nobody who could start the run again is left. A
cancelled execution is of a stopped run, or of a process that is stopping.

### SceneProductionProofs

`AcceptedOnlyReviewed`, `BibleIsCanonical`, `HistoryExact`, `NeverRefused`
(`NoStateError`), `AdjudicatedLast`, `EnvelopeIsEnough` (`StepsWithinEnvelope`),
`TypeCorrect`, and the refinement `ImplementsCanon` (`Spec => CanonSpec`).

`IInv` says what each node may rely on: which unit and revision it is at and in
which order the nodes come (`Position`), that the draft, the critique and the
report the checkpoint names were made for this very task and decided what the
route to the node presupposes (`DraftInv`, `CritiqueInv`, `ReportInv`,
`PassedInv`, `PreviousInv`), how many reviews of the unit are in the shared
history (`HistoryInv`), how far the canon is ahead of the accepted scenes
(`CanonInv`), and how many super-steps the position costs at most (`StepsInv`).
The part that is easily forgotten is what lies *beside* the checkpoint: an output
in hand (`HandInv`) or persisted and not yet checkpointed (`BehindInv`) is of an
earlier unit, an earlier node of this one, or the very task of the current node.
Without it a replay could hand a node the output of a task the checkpoint has not
reached. Outputs only grow (`Grows`), so what is known of a version stays true;
each node's step then re-establishes the facts of the node it leads to. The
refinement follows from the same invariant: `accept` is the step that accepts the
scene entered last, `story_bible_update` the one that enters a scene, and every
other step leaves both alone.

### StoryLifeProofs

`LifeTypes`, `OnlyDecidedStories` (`StoriesAreDecided`) and `ApprovalStays` (the
action property `ApprovalIsFinal`). `LifeInv` follows an
executor through its steps: what it holds in its view at each place
(`PlacesInv`), that a decision's row says what was delivered and that one that is
being handled was recorded (`DecisionsInv`), that nothing of a deleted story is
left but the executors that will find it gone (`DeletedInv`), and that a run
exists, and an executor is about to create one, only if a decision says so
(`DecidedInv`).

`ApprovalStays` assumes `Overlapping \subseteq {"fork"}`, without which TLC finds it
violated (the last observation of section 4). Its invariant `StoryInv` is about who
*steers* the story, that is, who may still change its status: there is at most one
such executor, or several deliveries of one fork that have not gone on
(`SteeringInv`). The case that needs the work is a request that records its decision
while somebody else steers: what the other one knows of the thread (`Steered`), that
clients only answer what they were asked (`AskedInv`) and that one decision is
recorded per interrupt show that both hold the same decision, so that it is a fork
(`SharedInv`). While the story is approved nobody steers it.

### ModelCallsProofs

`CallTypes`, `ChargesBounded`, `PromptsStay`, `EscalationSurvives`. The calls of a
task are a sequence of which only the last is ever touched, except that an
execution first closes what it finds RUNNING, and that can only be the last as
well (`OpenInv`). So each property has to be shown of a call when it starts and
when it settles (`Sound`). The charge needs arithmetic with unknown rates
(`PayableInv`: what the gateway lets through costs at most the budget whatever is
cached), the escalation that the latest telling failure is the same before and
after an execution that was lost (`RoutesInv`).

### PartsProofs

* WriterHandoff: `HandoffTypes`, `EvidenceIsShared` (the action property
  `WritersShareEvidence`). A call is started only after a comparison with the stored
  audit; that the evidence *is* what the audit says needs that evidence is only ever
  a projection of the audit it names, with the writer, in the store and in threads
  left behind.
* ModelPresets: `PresetTypes` and `DefaultsRun` (`StoriesRunTheDefault`), for any
  number of editors. Each write to the presets clears the others' default in the
  same transaction, so at most one is ever there, and the worker takes it only when
  it is complete.
* EventLog: `LogTypes`, `ReadersMiss` (`ReadersMissNothing`) and the refinement
  `ImplementsFeed` (`LogSpec => FeedSpec`), for any number of writers, followers,
  runs, pages and batches. One transaction writes at a time, so the rows it has not
  committed have greater ids than all others (`IsTable`); hence a commit only adds
  to the end of what a run has published (`CommitKeeps`), a rollback takes nothing
  from it, and an id that is assigned again was never seen in a run that is left
  (`NextIdIs`). `LogInv` says that what a client has received, what is on its wire
  and what is in its stream's batch are together a beginning of its run, and that
  every cursor is the last event of what it stands for; `ListContinues` is the step
  from a cursor to the rows after it. Two ascending sequences of which one has the
  other's members up to some point are compared at the first place where they differ
  (`AscendingPrefix`), which takes the place of an induction over sequences.
* `PartsTypes` (`PartsTypeOK`), from the types of the parts by `PartsCompose`.

### ContinuityRechecksProofs, CampaignProofs

* `RecheckTypes`, `NothingForgotten` (`NoBlockerForgotten`), `NothingGained`
  (`UnchangedProseGainsNothing`), for every catalog of sources. The invariant is
  that the blockers of a stored report have distinct ids, all in its history, and
  that only an enforced requirement is ever missing; nothing checks this when a
  report is stored.
* `CampaignTypes`, `OnlyReviewedApproved` (`ReviewedApproval`), `ToldOnce`
  (`SuccessPaidOnce`) and `ReportedStays` (`ReportKeepsSuccess`), for every number
  of processes and cases. `ApprovalInv` ties what a process is about to approve to
  the packet it was reviewed in, `TellingInv` what the report of a process says of
  a story to the story's run, `LockInv` who may write the report to who holds its
  lock. `ReportedStays` assumes `CrashInLock = FALSE`, that no process is lost while
  it holds the lock; with such a loss the property is false (`report_race`).

### ServicesProofs

One section per module.

* StoryBible: `BibleTypes`, `ThreadsKeep` (the action property
  `ThreadsKeepTheirHistory`), `KnowledgeIsKept` (`KnowledgeMeansWhatWasSaid`, which
  `KnowledgeOfScenes` checks) and `RulesAreEnough` (`AnswersWithinTheRulesApply`,
  which `RulesOfAnswers` checks). An update replaces a thread only by one of the
  same identifier, and the reducer compares the two. Who knows what rests on
  `FactsInv`: a canonical fact is of a scene that was accepted, so the identifiers
  that the facts of the next scene get are new, and a name that the answer declares
  cannot come to mean an older fact. A name declared twice is the last one's
  (`GreatestNat`), and the snapshot has one state per character, because the
  validation asks for distinct ones. That an answer within its rules passes all
  three gates rests on `EntriesInv`: a thread has one entry, and a resolution
  exactly when it is resolved. Therefore what materialisation copies of the thread
  it finds is what the reducer compares it with (`ThreadsApply`), and a repeated
  resolution is recognised as an echo (`ContractMet`). `EntriesInv` is kept by the
  very contract that `ThreadContract` states, applied to the answers before.
* CriticReviews: `CriticTypes`, `ReportsAreKept` (`NothingReportedIsLost`),
  `RepairsStay` (`UnmetRepairStays`) and `AcceptedIsSettled`
  (`AcceptedMeansSettled`), for every assignment, every vocabulary of issues and any
  number of reviews. What a critique says is what its answer found, and the repairs
  it found unmet, put in some order (`CritiqueSays`, with `SomeOrder` for the order
  of a finite set). Later critiques change nothing about earlier repairs
  (`TestsGrow`), and a finding that a link folds into a repair is of the same kind
  and leaves the repair unmet (`LinkedRepairs`). The adjudication is the case that
  needs the work: it rewrites the critique that the repairs are read from, so what
  it releases has to be accounted for before (`AdjudicationKeeps`).
* DialogueRounds: `DialogueTypes` and `PassesIntegrate` (`IntegratesThisPass`).
  `PassInv` says, at each node, how many turns and evaluations this pass has made
  (`Within`, `Speaking`), that each is of this pass and of its round (`RoundsOf`),
  and how many steps they cost.
* MCServices: `ServicesTypes` (`ServicesTypeOK`), `KnowledgeStays`
  (`KnowledgeOfScenes`) and `RulesHold` (`RulesOfAnswers`), by `ServicesCompose`,
  which also gives StoryLife the fairness of its own specification.

### What is only model-checked

* Liveness under fairness, which is out of the prover's reach: `RunsComeToRest`,
  `StopEndsExecution`, `HandoffSettles`, `ScenesEnd`.
* The properties of section 4, of which TLC shows counterexamples.

## 6. What is not modelled

* The contents of prompts, schemas and diagnostics; the evidence catalogues and
  certificates of findings beyond what excerpt they cite; advisory findings.
* Request bodies and response parsing of the gateways, and the checks of
  OpenAI's model specifications: an outcome of the call. Discovery of the models
  a provider offers only reads.
* Token, cost and wall-clock usage of a run (one comparison with the number of
  calls); the active interval that parallel nodes share.
* `approve_agentic_cases`, which only the repository's tests call; scoring,
  evidence archives and the review tools of the campaigns.
* The workspace's readers, exports and rendering, the context compiler, secrets,
  migrations, and the web client with its generated code: they change no state
  of a workflow, or are pure functions of text.
* The composition of the parts: an answer of `CriticReviews` is a verdict in
  `SceneProduction`, and a call of `ModelCalls` an answer in `WorkflowRuntime`, by
  abstraction and not by a checked refinement.

## 7. Plan

Present: the runtime, the story's life, the production graph with its abstract
canon, the reviews, the Story Bible, the dialogue, the calls and their settings,
the event log with its abstract feed and the campaigns, with proofs of the safety
properties of all of them. Next, in order of importance:

1. A parallel super-step in `queue`, with the claim that holds there: a run left
   RUNNING by a failed execution is one whose sibling started late.
2. That an answer of `CriticReviews` and `ContinuityRechecks` is a verdict of
   `SceneProduction`, as a checked refinement.
