# RAO: models and proofs

TLA+ models of the recursive agent harness (`src/recursive_agent_harness`) and of its
training pipeline (`src/recursive_agent_training`, `src/examples`), the TLC configurations
that check them on small instances, and TLAPS proofs about them. Paths below are relative to
`src/`.

| module | models | proofs |
| --- | --- | --- |
| `SyncFlywheel` | the synchronous training flywheel: one process, its disk, its crashes | `SyncFlywheel_proofs` |
| `PolicyChain` | what the flywheel promises, without files, processes or failures | (the refinement is in `SyncFlywheel_proofs`) |
| `TaskTree` | what a run of the harness promises whoever reads its trace | (the refinement is in `RecursiveAgent_proofs`) |
| `PeriodicTraining` | the driver around the flywheel: milestones, training and evaluation processes | `PeriodicTraining_proofs` |
| `RoundCollection` | how a round collects its groups: tasks, worker threads, model replicas | `RoundCollection_proofs` |
| `BatchCompilation` | from frozen rollouts to a batch: judge, rewards, advantages, audit | `BatchCompilation_proofs` |
| `RecursiveAgent` | one run of the harness: the tree of agents, its limits, its timeout | `RecursiveAgent_proofs` |
| `WebServices` | the search and page tools: cache, semaphore, threads, rate limiter | `WebServices_proofs` |
| `AsyncCoordinator` | the asynchronous trainer: bounded queue, staleness, close | `AsyncCoordinator_proofs` |
| `ReproductionMatrix` | the command that trains, evaluates and reports all conditions | `ReproductionMatrix_proofs` |

Each has a module `MC...` with the constants of the instance TLC checks, and one `.cfg` for
each run. `PROJECT.json` lists the components, the runs, a mutant for each property, the map
from definitions to source lines, the hazards of the code with the properties about them, the
findings and the theorems. Begin with `PolicyChain` and `SyncFlywheel`, or with `TaskTree` and
`RecursiveAgent`.

Check an instance with `tlc -config MCSyncFlywheel.cfg MCSyncFlywheel`, prove a module with
`tlapm SyncFlywheel_proofs.tla`.

## 1. The system

A *policy* drives a tree of *agents*: a node thinks, calls tools, answers, or launches
children that do the same, within the limits of an `AgentConfig`. Training runs that harness
many times for each task, scores every node of every tree, compiles the scores into one
optimizer batch and publishes a new adapter; round after round, with everything a restart
needs on disk.

```
 periodic driver --> SyncFlywheel.run -----------------------------------> disk
 (examples/)             | snapshot, publish                 latest.json, run_manifest.json,
                         v                                   rounds/round_NNNN/...
                    collect_group x tasks (asyncio, semaphore)
                         | one rollout each
                         v
                    HarnessRunner -> RecursiveAgent tree -> policy, tools, CodeAct, web
                         |
                         v
       verify_and_score_group -> compile_optimizer_batch -> audit -> optimizer step
```

### Components

**Synchronous flywheel** (`flywheel.py`). *State*: `latest.json`, `run_manifest.json`, one
directory per round with its manifest, batch, adapter and optimizer state; in memory the
target, the publication, the manifests, the runtime (adapter, optimizer, version counter).
*Operations*: recovery, open or resume, snapshot, load runtime, and per attempt archive,
collect, freeze, compile, audit, step, save, publish, index, record. *Hard*: a crash between
any two writes, retries in the same process, an exception after a write, files changed
between check and use. *Correct when* what `latest.json` names is complete and intact, each
policy is exactly one step from the previous one, no round is counted that is not published,
and restarts always get on.

**Recursive agent and execution tree** (`agent.py`, `tree.py`, `budget.py`, `runner.py`).
*State*: the tree with each node's status, children and depth, the global node budget, each
agent's counters, draft answer and child results. *Operations*: one per action type, the two
launches, timeout, cancellation. *Interaction*: all nodes of a run share one asyncio loop and
one budget; a parent awaits `gather` over its children. *Hard*: interleaved siblings that
check shared limits, cancellation anywhere, exceptions in some nodes. *Correct when* the
limits hold, results and tree agree, nothing runs on behind a finished parent, and a run ends
by its limits alone.

**Group collection and rollout records** (`grouping.py`, `rollout.py`, `flywheel.py:326-395`).
*State*: tasks in flight, a semaphore, the records of a round directory. *Hard*: one group
fails while the others run; incomplete groups. *Correct when* a failed round leaves no task
writing and a complete group has exactly its rollouts, all by the policy of the snapshot.

**Rewards, advantages, weights, compilation, admission** (`rewards.py`, `advantages.py`,
`weighting.py`, `compilation.py`, `validation.py`, `admission.py`). Functions over the groups
of a round, between whose refusals a round is collected again. *Hard*: rewards that one
function computes and another audits, the edges of the baseline (groups of two, equal
rewards, a delegation bonus next to an answer). *Correct when* only work that succeeded is
rewarded, a batch without an advantage is always recognised, and one that has something to
learn from is never sent back.

**Verifiers and judge** (`verifiers/`). *State*: counters of retries and failures, the root
result of each rollout. *Hard*: retries, and one verdict or failure that is kept and answers
for every node of its rollout. *Correct when* a judge that gives up never becomes a reward and
no verdict is passed on to another tree.

**Asynchronous coordinator** (`coordinator.py`). *State*: a bounded queue and its counters; the
policy version is the answer of a function it is given. *Hard*: producers at a full queue,
groups put in behind the end, a version that moves at any time. *Correct when* no group is
lost by a graceful end, the counters say what became of each, and nobody waits for ever while
`run()` lives. How fresh a group is when it is optimized is not the coordinator's to promise:
it asks for the version once, before it awaits compilation and optimizer.

**Web services of DeepDive** (`domains/deepdive.py`). *State*: a file cache, a semaphore, a
rate limiter shared by threads. *Hard*: two misses of one key, cancelled calls whose threads
go on, sleeping outside the lock, failures before and after the counted attempts. *Correct
when* no permit is lost, each attempt has its own place at the limiter, the counters say what
became of each attempt, and every call ends.

**Hugging Face runtime** (`hf_policy.py`, `hf_flywheel.py`). *State*: model slots with locks
and semaphores, a generation counter, an adapter and its optimizer. *Hard*: a generation that
runs on in its thread after its task was cancelled. *Correct when* a slot serves one
generation at a time and no training starts under a running generation.

**CodeAct environment and policy** (`codeact/`). *State*: locals, deferred launches, a count
of actions. *Hard*: `gather` over deferred launches, a block that fails half way. *Correct
when* one block gives exactly one harness action.

**Periodic training driver** (`examples/run_periodic_deepdive_training.py`). *State*: its own
manifest, the flywheel's two files which it reads. *Hard*: the counter it decides on lags
behind the publications after a crash. *Correct when* every milestone is evaluated with the
policy of that milestone and no target is ever behind the published rounds.

**Reproduction matrix driver** (`examples/run_reproduction_matrix.py`,
`examples/build_reproduction_report.py`). *State*: a directory of trainings, evaluations and
joined results. *Hard*: commands with other arguments or another source in the same directory,
an evaluation interrupted half way, results that are copied because two conditions share them,
four pieces of code that decide by themselves what fits. *Correct when* a report that is
accepted is about the whole experiment, no row is of another training and all rows are of the
same controls, and when a restart gets there unless what was kept is refused for good.

**The rest**: the action schema and tools of the harness, its policies and prompts, the
configuration and its hash, data sets and downloads, evaluation and metrics, the other domains
and the mini flywheel, the command-line examples and the readiness report. `PROJECT.json` says
of each what is modelled or why it is not.

The hazards of this code, each at its line, with the properties about it or the reason why
there is none, are the list `hazards` of `PROJECT.json`.

## 2. The models

### SyncFlywheel

The disk (`latestFile`, `runFile`, `manifest`, `files`) outlives the process; everything else
is memory and is lost by `Halt`. `pc` names the next file write or await of `run()` and
`_run_round()`, so that a crash falls between any two writes.

| state | code |
| --- | --- |
| `latestFile` | `latest.json`, a `LatestPublication`; `NoPublication` when it is missing |
| `runFile` | `run_manifest.json`: its status and `completed_rounds` |
| `manifest[r]` | `round_NNNN/round_manifest.json`; `"absent"` and `"bare"` are no directory, no manifest in it |
| `files[r]` | `adapter/`, `optimizer.pt` and `optimizer_batch/batch.json` of the round |
| `latest`, `run`, `round`, `attempt`, `memo` | the locals of `run()` and `_run_round()` |
| `weights`, `moments`, `version` | the adapter, the optimizer state and its version counter in the runtime |
| `retryable` | the exception being handled is a `ZeroAdvantageBatchError` (or its subclass) |

A weight file is the sequence of batches it was trained on, and stands for its SHA-256 too:
the base model is the empty sequence, a damaged file is one no training produces, and
equality is equality of checksums. Everything from a rollout to `batch.json` is one abstract
batch number that is never drawn twice, for two samplings differ; `RoundCollection` and
`BatchCompilation` say what happens in between. What `_run_round` writes is
otherwise complete, and the actions keep the order of the code: `ArchiveIncomplete`,
`MakeRoundDirs`, `WriteCollecting` before the `try`; `Freeze` to `IndexPublication` inside
it; `RejectBatch`, `RaiseInRound`, `WriteFailedManifest`, `WriteFailedRun` for its handler and
the retry loop; `RecordProgress` after it; `Begin` to `SnapshotRound` for recovery and the
decision what to do.

Left out: configuration hashes (they always match), metrics, paths, a run directory without
its `latest.json`, and a `latest.json` or manifest whose JSON is damaged (each is written to a
temporary file and renamed, so a crash leaves the old or the new one).

### PolicyChain

The abstract specification: the newest published policy is a sequence of batches that grows by
one fresh batch at a time. `SyncFlywheel` implements it under the refinement mapping
`chain <- latestFile.adapter` (`ChainSpec`). It is where a reader should begin.

### RecursiveAgent

| state | code |
| --- | --- |
| `status`, `attached`, `parent`, `depth` | the nodes of the `ExecutionTree` |
| `allocated` | `GlobalBudget.allocated_nodes`, which also numbers the nodes |
| `agent[n].phase` | where the coroutine of the node is: before its policy call, in a tool, in `gather` |
| `agent[n].steps`, `.invalid`, `.toolCalls`, `.draft`, `.children` | the locals of `run` |
| `agent[n].launch` | the tasks of the launch it awaits and what has become of each |
| `run` | whether `HarnessRunner` still waits, and how the run ended |

One asyncio loop runs all nodes, so an action is the code between two awaits. The policy is
the environment: it may answer anything that `allowed_actions` lets through, or something
invalid. Answers are abstracted to whether there is a draft. `Timeout` and `Cancel` are one
step each, for `mark_unfinished` runs after every coroutine of the run has been cancelled, and
no cancelled node writes to the tree. Left out: texts, trajectories, redaction, the export of
the trace, the file and calculator tools.

### TaskTree

The abstract specification of that: four variables, and steps that say what a trace can show.
A task is given a child while it runs and within the limits of depth and children (`Spawn`); it
ends once, when its children have (`End`); the root's end is the run's, and only an exception
of the root ends the run otherwise (`Escape`); a run that is given up settles exactly the tasks
that had not ended (`Stop`). `RecursiveAgent` implements it under `Task <- Nodes`,
`children <- attached` (`TreeSpec`): agents, policies, launches, results and budgets are how
the promise is kept and do not occur in it. What the trace cannot show, that the results a
parent goes on with are those of its children, is `ResultsMatchTree`.

### PeriodicTraining

The driver composed with `SyncFlywheel`, of which it is an instance with the targets of the
schedule (`Flywheel`). The driver's own memory is `stage`, `milestone` and `known`
(`current_completed_rounds`); on disk it has the evaluations and reads the flywheel's files.

| state | code |
| --- | --- |
| `stage` | which statement of the loop over the schedule it is at, or waits at |
| `milestone` | the index of `target` in `milestones(rounds, interval)` |
| `known` | `current_completed_rounds`, read when the driver starts and after each training |
| `evaluations[i]` | how many of its three files `evaluations/step_NNNN` has, and the adapter evaluated |

The driver waits for each process it starts, so their steps never interleave: a training
process is started by `Begin` and ends in the three ways the flywheel has, of which only a
return from `run()` lets the driver go on; an exception, a refusal or a kill ends both. The
driver passes `--resume` exactly when `run_manifest.json` exists, hence `RejectRestart` has
no place here. A round that is not published when its milestone is evaluated raises in the
code; `PublicationFound` is that check, and `TrainedMeansPublished` says it never fails.

An interrupted evaluation keeps the files it wrote until the next start archives the
directory, which is `StartEvaluation`. Left out: the dry run, an `--interval` or `--rounds`
changed between two starts, the tasks and rollouts evaluated, `periodic_schedule.json`.

### RoundCollection

What `SyncFlywheel` sees as one abstract step from an attempt to its frozen groups. It has no
disk beyond the raw files of the attempt; a crash is the business of `SyncFlywheel`.

| state | code |
| --- | --- |
| `attempt`, `phase` | the attempt of the round; which await or statement of `_run_round` it is at |
| `group[g]` | the task of `collect_task`: at the semaphore, collecting, its file written, raised, cancelled |
| `tree[r]` | a rollout of the group's `gather`, and whether its record is complete |
| `call[r][b]` | a generation its nodes await: none, its thread blocked on the lock of the slot, generating |
| `turns[r]` | how many of its generations have been answered |
| `strays[s]` | threads of replica `s` nobody waits for: how many wait for its lock, whether one generates |
| `excused` | history: the attempts given up for another one although a group was incomplete |

`asyncio.to_thread` starts a thread that no cancellation stops. `Submit`, `TakeLock` and
`Generated` are a generation's life; `TimeOut`, `RaiseInRollout` and `CancelGroups` end its
caller at any point of it, and `Withdraw` makes strays of the threads that go on. A stray
still takes the lock (`StrayTakesLock`) and holds it until `StrayEnds`. `AcquireGroup`,
`WriteGroup`, `RaiseInGroup` and `FailToWrite` are a group; `CancelGroups`, `FailRound` and
`CloseLoop` are the handler of the `gather` over the groups; `Freeze`, `CompileRound` and
`Train` the rest of the round. Between a group that raises and the handler that runs next on
the loop, another group may still write its file; `NoWriteAfterCancel` begins with the
handler. `Verdict` tells how the round refuses a batch: the first group, in
order, that is incomplete or without a reward decides. A complete one without a reward is
collected again, an incomplete one fails the round; so an attempt with an incomplete group is
excused if a group before it had no reward.

Left out: the bound of the default executor (every generation has a thread), the answers of a
root before it branches, the contents of a record, and the verifier, which is
`BatchCompilation`: `CompileRound` takes any outcome of it. A rollout's turns are forgotten
when it has settled.

### BatchCompilation

The next part of the same step: complete groups go in, a batch or a retry comes out.

| state | code |
| --- | --- |
| `verifier` | a judge for each node, or the lazy root proxy (`build_verifier`) |
| `node[n]` | of each collected node: how it ended (its own answer, the step limit, another fallback), was a turn truncated, does it pass its guard |
| `evaluation[n]` | its success signal, with `"error"` for a judge that gave up |
| `cache` | `root_results` of the proxy, by rollout id, which has the attempt in it |
| `tries`, `givenUp`, `givenUpBefore` | failed requests of this call; `terminal_failures` of the judge, now and at the start of the attempt |
| `unanswered` | history: nodes whose last request failed |

`_verify_trees` judges the nodes one after the other, so the next node is a function of the
state (`NextNode`). `RuleOut`, `JudgeAnswers`, `JudgeFails` and `Propagate` are what happens to
one. When all have a signal, `CompileRound` scores, compiles and audits the round in one step
and trains, collects again or fails. `Reward`, `Baseline`, `Advantage`, `Trainable` and
`Audit` are operators. Rewards are integers in units of 1/`Unit` and advantages in units of
1/(`Unit` x (`GroupSize` - 1)), so nothing is rounded.

Two things one may not expect: `UntrustedRewardBatchError` is a `ZeroAdvantageBatchError`, so
what the audit refuses is collected again and not reported as a failure; and a node that ran
into its step limit never earns credit itself but may be pushed up by the delegation bonus of
a child that succeeded, which is why `CreditIsEarned` speaks of the children too. A node for
which the harness answered for another reason (too many invalid actions, a fallback answer of
the policy) is never trained on.

Left out: the weight of a sample, which is 1 or the inverse frequency of its depth by
`weighting.type`, on which no decision depends; that a node is one sample for each of its
turns, all with the node's advantage and weight; tokens and log probabilities, the importance
ratio, `RootProxyVerifier` and the remote judge, which no program of the repository builds.

### WebServices

| state | code |
| --- | --- |
| `call[c]` | a tool call on the event loop: before its cache lookup, at the semaphore, in `to_thread`, over |
| `queue`, `permits` | the waiters and the value of the `asyncio.Semaphore` |
| `thread[c]`, `attempt[c]`, `query[c]` | its worker thread, its attempt, the further queries it has sent |
| `delay[c]`, `nextAllowed` | how long the thread still sleeps; `_next_allowed` of the limiter, both from now |
| `cached` | keys with a file in the cache |
| `disabled` | the calls of a search service that no provider is configured for |
| `sent` | history: queries sent since the last tick |
| `metrics` | the service counters |

`Hit`, `Reject`, `Miss`, `Acquire`, `Finish` and `Cancel` run on the loop; `Refuse`, `Begin`,
`Send`, `SendCandidate`, `Succeed`, `Fail`, `Retry` and `Discard` in threads, where only the
limiter and the counters are shared. Not every call that raises is counted: one `Reject`ed
before the cache (an empty query, an address that is not public) or `Refuse`d by a disabled
provider is counted nowhere, and one whose answer could not be written to the cache (`Finish`
with `"unsaved"`) as a success. `CountersAddUp` says what the counters do tell. `Cancel` takes
a call away wherever it is: at the semaphore, having it, or with its thread running, which then
goes on without a permit. Time is relative: `Tick` is one interval of the limiter, and a thread
whose sleep is over acts before the next one. Reading a page is a search without further
queries.

Left out: the network, HTML and what an address is refused for; a thread that the executor has
queued and not yet started, which could still be cancelled (there is always a free thread); the
two counters of one failure are added in one step.

### AsyncCoordinator

| state | code |
| --- | --- |
| `version`, `behavior[g]`, `staleness[g]` | what `current_policy_version()` answers; the policy a group was collected with; the distance written into its nodes |
| `group[g]`, `queue`, `closing` | where a group is, `rollout_queue`, how far `close()` is |
| `consumer`, `current` | where `run()` is and with what |
| `stats` | `CoordinatorStats` |
| `late` | history: groups put in behind the `None` of `close()` |

`Publish`, `Collect`, `Submit`, `Block`, `Close` and `BlockClose` are the policy and the
producers and, as no program of the repository drives the coordinator, external; `End`,
`Reject`, `Accept`, `Compiled`, `Optimized` and `Raise` are `run()`, between its awaits. A put
that has been woken up must find room again, so others may overtake it. `Publish` may come at
any time, between the check of a group's staleness and its optimizer step too, so no property
claims that the group is still fresh there.

### ReproductionMatrix

| state | code |
| --- | --- |
| `step`, `todo` | the statement of the command, what it still has to go through |
| `rounds`, `tasks`, `controls` | its arguments; `controls` stands for the others and the program's source, all that the join compares |
| `published[t]` | rounds training `t` has published, the flywheel seen from outside |
| `begun[t]` | its `manifests/preflight.json`: the config and data it was begun under (`Binding` of the controls) |
| `settled` | the trainings whose `run_manifest.json` counts what they have published |
| `periodic` | the last periodic evaluation of the other driver is there |
| `result[c]` | what the evaluation directory of a condition holds, and the controls it was made under |
| `evaluated[key]` | the conditions that may serve others as a copy, by training and config |
| `joined` | the rows of `joined_results.json` |

`Start` begins a command, `StartFull` with the arguments of the experiment and `StartOther`
with others, in the same directory. `Train`, `TrainingRefused`, `Trained`, `Skip`, `Prepare`,
`Copy`, `Evaluate`, `Unpublished`, `Join`, `ControlsDiffer` and `Report` are its statements;
`TrainingFails` and `Kill` interrupt it. An evaluation that was interrupted is `Partial` and is
set aside, one that gave up a call of the judge or of a tool (`gaveUp`) is complete.
`PeriodicCommand` is the periodic driver, run to its end on the training of `Periodic`; the
report asks for its last evaluation, and the matrix never runs it.

What fits is decided in four places, by different rules. `_prepare` refuses to go on with a
training under another config or other data (`Resumable`), and the flywheel a target behind
its publications. `_evaluation_complete` looks at counts only (`Complete`). `_join_results`
compares the controls of all rows (`SameControls`), and with `--require-75` the report looks at
counts, at calls that were given up, and for the periodic evaluation (`Evidence`). So a command
can get stuck for good:

- an evaluation that gave up a call is complete for the driver, which never makes it again,
  and refused by the report;
- a full evaluation made under another action profile or by another source is complete too,
  and refused by the join beside rows made under the controls of the experiment;
- a training begun with another action profile is refused by every later full command.

`AcceptedInTheEnd` excepts these and nothing else, and presumes that the periodic evaluation
is made. And a command with more rounds than the last one keeps its old evaluations, since
policy versions are not compared: `AcceptedIsComplete` promises an evaluation of some
published policy of the right training, and no more.

Left out: `--execute-training` without evaluations, more rounds than the experiment has, and a
periodic driver that runs beside a command. That the rounds of a training are continuous and
admitted, and that no published round gave up a call of the judge, which the report looks at
too, is what a publication is in `SyncFlywheel` and `BatchCompilation`.

## 3. The runs

`CHECK_DEADLOCK` is `FALSE` where the system really stops: a run of the harness or a round
that has ended, a flywheel whose newest publication is damaged and which refuses every start,
an accepted report, and a coordinator whose `run()` has ended, at which producers may wait for
ever. In the liveness run of the flywheel nothing is damaged and deadlock is checked, as it is
for the periodic driver and the web services. The states are distinct ones.

| run | question | result |
| --- | --- | --- |
| `flywheel_safety` | do the files stay consistent, and the flywheel an implementation of `PolicyChain`, whatever goes wrong? | holds |
| `flywheel_live` | does a driver that restarts it get every round? | holds |
| `periodic` | does the driver, deciding on a counter that lags, evaluate every milestone with its own policy? | holds |
| `round_collection` | do groups and replicas stay apart when rollouts time out, raise and are cancelled? | holds |
| `batch_compilation` | is everything in a batch judged and earned, and is a round trained on when it has something to learn from? | holds |
| `agent_wide` | do the limits hold when one node launches more than it may? | holds |
| `agent_deep` | do results, tree and statuses agree in every interleaving, is the tree one that `TaskTree` allows, and does a run end without its timeout? | holds |
| `agent_raise` | is a failure always data? | violated, see *Findings* |
| `web_services` | do permits, places and counters survive cancellation and failure at any point? | holds |
| `web_rate` | is there one query per interval? | violated, see *Findings* |
| `coordinator` | is no group lost, and does nobody wait for ever, whenever the policy moves? | holds |
| `matrix` | is an accepted report the whole experiment, and is there one in the end? | holds |

**Flywheel.** `IndexedComplete`, `OneStepPerRound`, `TrainedFromPublication`,
`ProgressRecorded` and `RefusalMeansDamage` relate the files and the memory of the process;
`IndexedRoundsKept` says that published rounds are final; `ChainSpec` is the refinement.
*Bounds*: three rounds are a first round (from the base model), one with a predecessor, and
one after a round whose predecessor is itself published, and every target up to three is
asked for at any time, also one that is behind. `MaxFaults = 3` allows for instance a crash
before `latest.json` is written, a second one during recovery and a damaged file, or two
rejected batches and an exception in the second attempt; `MaxAttempts = 2` has a first, a
last and a retried attempt. `Batches` has one batch for each round and each fault: a batch
drawn is published or lost to a fault.

`AllRoundsPublished` assumes `WF_vars(Step)`. Within a run that is what a process does: each
step is the next statement. Between runs it is the driver or the operator who starts the
flywheel again, which `examples/run_periodic_deepdive_training.py` and the resume instructions
of the README are for. No fairness is asked of a fault, at most `MaxFaults` of them occur, and
no file is damaged, since a damaged publication stops the flywheel for good by design.

**Periodic driver.** *Bounds*: three rounds with an interval of two give the milestones 2 and
3, the first two rounds away from the start and the second the appended last round. Two
faults suffice for what the properties fear: a crash between `latest.json` and
`run_manifest.json` and another one before the driver has caught up, or one in training and
one in the evaluation that follows. Only optimizer states are damaged: an adapter damaged
after its round is evaluated as it is, for `publication_for_target` checks its existence
alone. `NeverBehind` is the property that makes the restarts work. The counter may lag behind
the publications, but never by so much that the next milestone lies behind them, because a
training process is never given a target beyond that milestone. `AllEvaluated` assumes
`WF_vars(Progress)`: the driver's statements and the processes it waits for get on, and
someone starts it again after each of the at most `MaxFaults` faults.

**Collection.** `SlotExclusive` is about the lock of a replica, `TrainsOnWholeGroups` about
what a training step may find in the groups and in the threads, `NoWriteAfterCancel` about the
siblings of a group that raised. *Bounds*: two groups of two rollouts on two replicas, so that
rollouts of different groups share each replica; the first rollout of the first task makes
two generations, one after the other or at once, so that a rollout can lose one and still wait
for another; two attempts, so that strays of the first meet the second. An attempt excused
with an incomplete group does occur. 232,347 states. `RoundEnds` assumes weak fairness of the
threads together and of the loop: a generation ends, since it has a token limit, and the loop
runs what is ready. It holds without fairness of a timeout.

**Batch.** `NothingMissing` and `CreditIsEarned` are about what reaches the optimizer,
`AuditAgreesWithVerifier` about two pieces of code that must judge alike, `SignalIsTrained`
about the refusals: what has something to learn from gets past all of them. *Bounds*: two
groups of two rollouts, the smallest with a leave-one-out baseline; one tree has two children,
so that a delegation bonus of 0, 1/2 and 1 occurs; in the first group a node may have hit its
step limit, have been answered for otherwise, be truncated or fail its guard, in the second
nothing is wrong before the judge. One retry, two attempts: a cache entry of the first attempt
meets the second. Failed trajectories are trained on, which is the configuration that has
negative advantages. 981,794 states. No fairness: that the round ends is the subject of
`RoundCollection`.

**Agent.** *Bounds*: `agent_deep` has four nodes at depths 0 to 2, so a child may have
children of its own while its sibling runs, and a fifth node is always refused. `agent_wide`
has depth 1 and a launch of up to three subtasks with `max_parallel_children` of 3 above
`max_children_per_node` of 2, so only the cut of the launch keeps siblings, which do
not see one another's results, within the limit. Step, tool and invalid-action limits of 1 or
2 have every guard both true and false. 344,325 states in `agent_deep`: a launch, a nested
launch, a refusal by depth and one by the budget all occur.

`RunEnds` assumes weak fairness of each node's own steps: the model call and the tool
return in the end. Neither the timeout nor an exception has any fairness: the property shows
that the step limit alone ends every run, and that no node waits for another that waits for
it.

**Web services.** *Bounds*: three calls for two permits, so that one waits; two of them have
the same key, so that both may miss before either has an answer; two queries are
long and send one further query each; one retry. The cache starts empty or full, the search
service has a provider or none. 261,480 states. `CallsEnd` assumes weak fairness of each call
on the loop, of each thread (`urlopen` has a timeout), of the semaphore's wake-ups and of time.
No call is assumed to be cancelled.

**Coordinator.** *Bounds*: four groups for a queue of two, so that two producers and `close()`
wait at once; the version moves once, with `MaxStaleness = 0`, so groups are rejected and
accepted and the version moves at every point of either. 95,947 states. `Drained` assumes weak
fairness of a put that finds room, of a waiting `close()` and of `run()`; nobody has to
collect, submit, close or publish. The groups are not declared symmetric because a liveness
property is checked.

**Matrix.** *Bounds*: the conditions M1, M2, M4 and A1 are one without training, one with its
own and two that share an evaluation; two rounds and two tasks stand for 75 and 50, so that a
command may ask for fewer of either; besides the controls of the experiment there are another
source, which every training accepts, and another action profile, which is another config too.
Two faults and two other commands: a command with other controls that trains or evaluates, one
that undoes its traces or adds others, and a kill in each. 578,192 states. `AcceptedInTheEnd`
assumes `WF_vars(Command)`: the full command is started again until its report is accepted.
Nobody has to run the periodic command; the property presumes that it was.

**Mutants.** For each property of each passing run `PROJECT.json` names a definition and a
changed form of it (an operator just before it, marked *Mutant*), a plausible bug of that code
under which TLC finds the property violated.

### Findings

`agent_raise`: `README.md:326` and `docs/architecture/inference-plan.md:2504` say that failure
is data and not a crash. The code turns exceptions of the policy call, the tool function and a
child's whole run into results. What a node raises between them is outside those guards. The
trace has a root that raises while it records its first action: `append_action` dumps it to
JSON (`agent.py:268`), which fails if its arguments or metadata have no JSON form. In a child
the same exception is a failed result; at the root it leaves `HarnessRunner` without a result
and without a trace. The dump of a tool's observation (`agent.py:102`) is another such place.

`web_rate`: `docs/论文完整复现实验任务计划.md:660` says of the search that it has QPS=1. The
code waits at the rate limiter once for each attempt (`domains/deepdive.py:234`). A query of
more than 36 words is sent (`:239`), and up to four queries derived from it, until one finds
something (`:244-255`), and the Crossref lookups (`:260`) follow without another wait.

## 4. The proofs

Each module's `_proofs` module proves its type invariant and its safety properties for every
value of the constants that satisfies the assumptions, which are named in the module. The
pattern is the same everywhere. The properties are not inductive: each speaks of a few states,
and what leads there depends on what the processes hold on the way. `IInv` is their
strengthening, `InitInv` and one lemma for each action or group of actions show that it is
inductive (theorem `Consistency`), and the properties follow. Action properties are shown for
one step from a state that satisfies `IInv`.

**`SyncFlywheel_proofs`** proves every safety property of `flywheel_safety`, the refinement
`ImplementsChain` among them. `TypeOK` is not inductive: `round` stays within `0 .. MaxRounds`
only because a process in a round has a target ahead of it (`Bounds`); lemma `Typing` proves
the two together. `IInv` adds:

- `Session`: until it publishes, what the process loaded is what the disk says;
- `Indexed`: `latest.json` is the last of an unbroken series of published manifests, and at
  most one published manifest lies beyond it;
- `UnindexedOnlyThere`: that one exists only before recovery or around the write of
  `latest.json`, which is why archiving a round never moves a published one away;
- `Memo`, `Loaded`, `Saved`: what the copy of the manifest, the adapter, the optimizer state
  and the version counter hold at each control point; `Loaded` says that an exception that
  will be retried left the weights where they were, and that weights loaded from a damaged
  file cannot pass the second check of the snapshot;
- `DiskDrawn`, `MemoDrawn`: weights consist of batches that were drawn, so a damaged file is
  none of them and a new batch is in none of them.

The lemmas follow the actions: a process that has ended (`HaltedConsistent`), a step that
leaves publications alone (`PublicationsKept`), one that rewrites the manifest of the current
round (`RoundRewritten`), one that advances `latest.json` (`PublicationAdded`), and
`PublishManifest` by itself in `ConsistentStep`. The refinement needs only
`PublicationSteps` (what a step can do to `latest.json` and the manifests) and
`NextCheckpoint`. `OneBatchPerRound` counts the steps a published policy has taken;
`AdaptersStayIntact` says that adapters nobody damages are those their manifests describe.

**`PeriodicTraining_proofs`** builds on those. The flywheel inside the driver is an instance of
`SyncFlywheel` whose targets are the schedule's; its theorems are had for these
targets by instantiating its proofs (`Proved`, `FlywheelSuited`, `SameActions`), and
`DriverSteps` says that a step of the composition is one of the flywheel, none, or a fault
elsewhere. `Turns` and `Reach` are the driver's own part: no round is published beyond the
first milestone the counter has not reached, because a training process is only ever given
that milestone. From it follow `TargetsAreAhead` and `TrainedIsPublished`.
`EvaluatesTheMilestone` holds if no adapter is damaged, as in the run.

**`RoundCollection_proofs`**: `OneGenerationPerSlot`, `StepsOnWholeGroups`,
`RaiseStopsWriting`. A rollout that has ended awaits no call (`Awaited`), and
`StraysHaveCauses` keeps for each stray the reason it exists: a rollout of this attempt that
timed out or was cancelled, or an attempt that was excused. The lemmas on data are about
remainders and products: which rollouts share a replica. `NeverStuck` is the safety half of
`RoundEnds`: until the round has ended, a thread, a rollout, a group or the round can go on
(`GoesOn`), and no timeout is needed for it. Threads that wait for a lock wait for one that
generates (`LocksAreHeldByThreads`); a running rollout has a call that waits or generates, a turn
left, or nothing left but to end (`RunningCanMove`); and if no group runs, the first that waits
gets a permit (`CollectingCanMove`), the groups being numbers. It needs `Underway` beside
`IInv`: while groups are collected none is cancelled, and the rollouts of a group that has its
permit have started. `TurnsAssumption`, that a rollout asks its policy at least once, is the
code's: the loop of an agent begins with a policy call.

**`BatchCompilation_proofs`**: `JudgedInFull`, `EarnsItsCredit`, `AuditTrustsVerifier`,
`TrainsOnASignal`. `Asked` says that a node whose last request failed is the one being asked
about or was given up, `ByProxy` where the signals of the proxy come from, `Admitted` what the
audit saw, `Evidence` that nothing is a success that is ruled out without the judge and that a
judge given up on in this attempt has left an `"error"`, and `Fresh` that the proxy has cached
nothing yet of rollouts to come: these two are why the audit and the verifier agree.
`NextIsTodo` shows that `NextNode` is a node (by least numbers, the order being lexicographic),
and `Frozen` that the verdict of the audit is not changed by the step that acts on it.
`RewardHasSource` turns a positive reward into a success of the node or of a child.
`TrainsOnASignal` needs what sums come to, the baseline being the sum of a function over a set.
The provers cannot instantiate an induction over sets, so the lemmas take the least number at
which a sum would differ (`LeastNumber`, `AllNumbers`, `AllParts`). A root that succeeded is
worth more than any that did not (`RewardBounds`), the delegation bonus being at most
`DelegationLambda` (`MeanIsBounded`); where rewards differ, some root is above its baseline
(`SomeRootGains`); and a positive advantage in a batch without missing signals is all the
compiler and the audit ask for (`AuditAdmits`).

**`RecursiveAgent_proofs`** proves all safety properties of the two runs. `Books` gives each
child of a node a place: the index of its result, or that index plus the number of the task
that still runs. Places differ and are at most `MaxChildren`, which bounds the children
(`PlacesBoundChildren`) although siblings do not see one another. `NoNodeLeftRunning` takes
the least node that would still run after the end: its parent, a smaller one, would too.
After a timeout or a cancellation no agent is left, and the bound is carried over with the
tree, which no longer changes (`Over`). `ImplementsTree` is the refinement: what ends
by itself has no child that runs (`EndIsPromised`, from the invariant of the state after the
step), a child starts as the next absent node below a running one (`StartIsPromised`), and the
other steps leave the tree alone.

Liveness cannot be proved here; what `RunEnds` rests on besides fairness can. `Effort` counts
the passes of an agent's loop and, within a pass, the tasks that have started. `WorkBounded`
bounds it by `MaxSteps` and `MaxSubtasks`; `Advances`: each step of a node adds to its own work
and takes nothing of another's; `NeverStuck`: while the run goes on it is some node's turn, the
greatest running node's, whose launch no child is left in; `TurnsLast`: a turn stays until it
is taken. Finitely many steps, always one to be taken, and none that can be taken away: with
weak fairness of the nodes' steps, the run ends.

**`WebServices_proofs`**: `SemaphoreHolds`, `OnePlaceEach`, `CountersBalance`. The queue is an
injective sequence of exactly the calls that wait (`Waiting`); permits and calls that hold one
add up (`Permits`); retries are counted by a set of pairs of call and attempt in a product
(`Books`), whose size bounds them; each answer, stored or not, is a success or a hit
(`Answers`). The safety half of `CallsEnd`: `NeverStuck` says that a call that waits for the
semaphore finds a permit, or calls that hold them all, whose threads can move or sleep;
`CallsAreBounded` that the work for a call (`Effort`) and every sleep are bounded; `Advances`
that each step adds to the work of a call, or is a tick, which shortens every sleep.

**`AsyncCoordinator_proofs`**: `GracefulEnd`. `Holding` says what the consumer has in hand,
`BehindClosed` that what lies behind the `None` of `close()` is late, `Counted` that each group
that is settled was counted once. The safety half of `Drained`: `NeverStuck` (a full queue is
not empty, and a closed one holds its `None` until `run()` returns, `ClosedIsMet`) and
`TakesInTurn` (each step of `run()` brings what is queued nearer to its turn and no put gets in
front of it; `Turns` counts three steps for each place). Which of several waiting puts gets the
next place is not ordered, so that a single put gets in at all is left to TLC, which checks it
for as many groups as the run has.

**`ReproductionMatrix_proofs`**: `AcceptedReportIsComplete`. `Sources` says that each complete
directory is of its own condition's training, also when it is a copy, because the condition
copied from has the same key (`Standin`); `Joined` that nothing changes in the directories
between the join, which compares the controls, and the report.

Only model-checked:

- liveness (`AllRoundsPublished`, `AllEvaluated`, `RoundEnds`, `RunEnds`, `CallsEnd`,
  `Drained`, `AcceptedInTheEnd`): fairness and `ENABLED` are out of the prover's reach. Proved
  of `RunEnds`, `RoundEnds`, `CallsEnd` and `Drained` is that nothing waits for ever for want
  of a step that could be taken, and of `RunEnds` and `CallsEnd` that there are finitely many
  to take. The arguments that combine these with fairness are in words, above.

`FinalStatusKept` is stated and proved (`EndsAreFinal`) but checked by no run of its own: it is
part of `TreeSpec`.

## 5. Not modelled

- *CodeAct* (`codeact/`): a block is run by a restricted Python interpreter and may do
  anything between two tool calls; what a model said of it would be assumed of the
  interpreter. Its outcome, one action, is an action of `RecursiveAgent`.
- *Policies and prompts*: the environment of `RecursiveAgent`, which may answer anything.
- *Configuration, configuration hash, task windows of a round, data sets, splits, downloads,
  model admission*: pure functions or sequential file processing, with no state between calls
  and nothing concurrent. The models take their results as constants.
- *Weights of samples* (`weighting.py`) and the split of a node into turns: arithmetic of one pass
  over a batch, on which no decision of the modelled code depends.
- *Tensors and statistics*: sampling, seeds, the CISPO loss, means and bootstrap intervals are
  floating point, out of TLC's reach.
- *Readiness and canary scripts, other domains, mini flywheel, command line examples*: read-only
  checks, demonstrations and argument parsing.
- *The texts* in every part that is modelled: answers, trajectories, traces, reports.

Eight hazards of the list have no property, each with its reason in `PROJECT.json`. They are of
three kinds: they lie in a part named above, they are what the code does in every history
with nothing in the repository that promises the opposite (a run manifest that says *failed*
during a retry, an adapter of a milestone that is checked for existence only, a group whose
staleness is not asked for again), or they need a configuration that changes between two starts.
