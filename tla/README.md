# Formal model of AgentCVR

AgentCVR has three parts: an inference agent (`src/agent_system`), data
synthesis scripts (`src/data_synthesis`), and a fork of verl (`src/verl`) that
trains the agent by reinforcement learning. Most of the concurrency, and most
of what is hard to test, is in `verl/verl/experimental/fully_async_policy`:
a rollouter, a trainer, a message queue and a parameter synchronizer, each a
Ray actor, running at the same time. That is the core
modelled here; around it are the tool agent that is trained, the trainer's
checkpoints, the agent at inference time with its benchmark drivers, and the
generators that make its data.

Paths below are relative to `src/verl/verl/experimental/fully_async_policy/`
unless they start with `src/`.

## 1. Inventory

### Fully asynchronous training (modelled)

| Part | State | Operations | Correct when |
| --- | --- | --- | --- |
| `message_queue.py` MessageQueue | sample deque, validation deque, version, `running`, counters, consumers asleep on the condition | put_sample, get_sample, put/get_validate, update_param_version, clear_queue, shutdown | FIFO, each entry delivered once or counted as dropped; no lost wakeup |
| `fully_async_rollouter.py` FullyAsyncRollouter | pending_queue, cancel_queue, active_tasks, `paused`, `running`, `monitor_loop_trigger`, staleness, version, one asyncio lock and condition | feeder, processor, one task per sample, monitor, main; remote: pause, update_param_version, resume | no sample duplicated or left behind, staleness bounded, no generation during a weight transfer, no deadlock |
| `fully_async_trainer.py` FullyAsyncTrainer | batch, local_trigger_step, version | collect a batch, train, trigger a synchronization, log validation, final synchronization | trains on samples no staler than promised; ends |
| `param_sync.py` ParameterSynchronizer | last update and resume references | sync_weights, wait_last_valid | weights change only while generation is stopped |
| `checkpoint_engine.py`, `fsdp_workers.py`: the weight transfer | per rank: buckets, a double buffer, a thread and its socket | sync_rollout_weights_by_checkpoint, update_checkpoint | no half of the buffer written while it is loaded; every parameter loaded once, in one version, before anyone returns |
| `fully_async_main.py` task runner | the two futures | initialize, run both fits, clear the queue | first weights before any sample; ends |
| `agent_loop/agent_loop.py`, `vllm_rollout/vllm_async_server.py` | server `paused`, cancel events, partial outputs | generate, cancel, resume | an interrupted request is reported as cancelled, a late one bounces |

The rollouter, the trainer and the synchronizer interact by Ray calls (some
awaited, some not: `sync_weights` leaves `update_param_version` and `resume`
running when it returns), by the queue, and by three booleans and a counter in
the rollouter that four coroutines and three remote calls read and write, some
of them outside the lock. All the hazards of the core come from there.

### The rest

| Part | State and operations | Hard behaviour | Correct when | Model |
| --- | --- | --- | --- | --- |
| Tool agent loop (`src/verl/verl/experimental/agent_loop/tool_agent_loop.py`) | AgentState machine, token lists and masks, turn counters, tool instances | calls run concurrently, fail, overtake each other; lengths and limits cut anywhere | mask, logprobs, lists of images and response stay together; every instance released | `ToolAgentLoop` |
| Checkpoints of the PPO trainer (`trainer/ppo/ray_trainer.py`, `utils/checkpoint`) | files per step, role and rank; tracker; rotation lists; dataloader position | a crash between or inside any two writes or removals; restart | what the tracker names can be resumed from; batches in order, one epoch lost at most; work saved in time | `TrainerCheckpoint` |
| Video tools (`src/verl/verl/tools/video_analysis_tools.py`) | class-wide semaphore and session | retries under a semaphore, a shared session closed by one user | every call answered, one session, none kept closed | `VideoTools` |
| Agent executor (`src/agent_system/agent_executor.py`, `qwen_agent.py`) | histories, turn counter | nested retries (3 format x 5 API), errors answered as text, one executor for all questions | history alternates, nothing leaks to the next question | `AgentExecutor` |
| Drivers (`src/agent_system/run_tasks`) and parsers (`utils/answer_parse.py`) | results, logs | scoring retries, answers of any shape | only the master's answers score; each question ends with a result | `BenchmarkDriver` |
| Data synthesis (`src/data_synthesis`) | thread pool, output files, failed-task report; phases and their timeline | malformed model answers, workers that raise | every task has a file or is reported; the answer orders the timeline | `SortTimeline` (the timeline) |
| Reward loop (`src/verl/verl/experimental/reward_loop`) | token buckets, semaphore, router load | rate limits under concurrency | rates respected, nobody starved | - |
| One-step-off trainer, transfer queue | one batch in flight | overlap of generation and training | at most one version of lag | - |
| protocol.py, seqlen_balancing.py | pure functions on batches | edges: zero, uneven sizes | inverse operations, equal partitions | - |
| single controller, workers, models, kernels, third-party, VLA | GPU, file system and Ray code | - | outside the scope of these models | - |

`PROJECT.json` lists every component with its status, and every hazard with its
line and the properties that watch it.

## 2. Plan

Done, in this order:

1. `MessageQueue`, `SampleStream`, `MessageQueueLog` and its proofs.
2. `Rollouter` and `FullyAsync`: the composition of rollouter, queue, trainer,
   synchronizer and service, with safety and liveness; proofs of its safety.
3. `PartialService`: requests, cancellation, pause and resume on several
   servers, and the agent loops that stitch an interrupted response together,
   shown to implement `GenerationService`, with proofs of all its safety.
4. `ToolAgentLoop`: the state machine with concurrent calls, lengths and
   limits, with proofs of its safety.
5. `AgentExecutor` and `BenchmarkDriver`, with proofs for both.
6. `VideoTools`, `SortTimeline`, with proofs for both.
7. `TrainerCheckpoint`: crash and restart, with proofs.
8. `WeightTransfer`: the ranks of a synchronization, with a proof.

Left, by value:

1. The token buckets of the rate-limited reward manager, and the thread pool
   of the data generators.
2. The checkpoint of the fully asynchronous trainer, by composing
   `TrainerCheckpoint`'s file protocol with `FullyAsync`.

## 3. Modules

| Module | Models |
| --- | --- |
| `MessageQueue` | the queue actor; one action per method, `get_sample` is two (sleep, leave) |
| `SampleStream` | abstract: what the queue promises, a log and a cursor |
| `MessageQueueLog` | the queue with arbitrary callers and a record of what was put and got; its properties and the refinement of `SampleStream` |
| `Rollouter` | the rollouter actor, coroutine by coroutine, and the generation service as one request per sample |
| `FullyAsync` | trainer, synchronizer, task runner, composed with `Rollouter`; the properties of the whole |
| `FullyAsync_proofs` | proofs about the composition, for all constants |
| `GenerationService` | abstract: what partial rollout promises the rollouter |
| `PartialService` | worker, agent loops and vLLM servers behind that promise, and the refinement |
| `PartialService_proofs` | proofs for every number of servers, samples, loops and pauses |
| `ToolAgentLoop` | one trajectory of the tool agent, with its concurrent calls |
| `ToolAgentLoop_proofs` | proofs for every length, limit and number of calls |
| `VideoTools` | `_call_simulator_api`: semaphore, shared session, retries |
| `VideoTools_proofs` | proofs for every number of calls, permits and retries |
| `AgentExecutor` | `run_agent_loop` and the retries of the calls below it |
| `BenchmarkDriver` | the drivers' question loop over one executor, with parsing, scoring and logs |
| `BenchmarkDriver_proofs` | proofs for every number of questions, turns and retries |
| `SortTimeline` | how a chronological-order task is assembled from a model's phases |
| `SortTimeline_proofs` | proofs for every list of phases |
| `WeightTransfer` | `update_checkpoint` on every rank, with its thread, over two kinds of collective calls |
| `Channels_proofs` | proofs about `MessageQueueLog` and `WeightTransfer`, what goes either way between rollouter and trainer |
| `TrainerCheckpoint` | training loop, checkpoint files, rotation, crash and resume |
| `TrainerCheckpoint_proofs` | proofs for every number of ranks, steps and crashes |

Definitions marked `mutant:` are plausible bugs (a dropped guard, an off-by-one,
a missing notification). No specification uses them; each is what a property is
tested against, by putting it in the place of the definition beside it.

### How coroutines are modelled

The rollouter is one asyncio event loop. An action runs one coroutine from a
suspension to the next, so what asyncio makes atomic is atomic here, and
nothing else is. `_should_pause_generation` reads the queue's size with a
blocking `ray.get`: the loop stops, but the queue does not. Where such a
coroutine continues without suspending, the stretch is cut and `cpu` names the
coroutine that keeps the loop; no other coroutine of the actor runs meanwhile,
other actors do.

`asyncio.Lock` is first-in first-out: `lockQ` is its holder followed by its
waiters, and acquiring a free lock does not suspend. `condition.wait()`
releases the lock (`idleCond`, `submitCond`); `notify_all` makes the processor
ready (`...Woken`), and it then queues for the lock again. A drain loop holds
the lock across `asyncio.wait` (`reapWait`), and `pause()` holds it across its
gather: both facts matter.

Where each place of the code is:

| Code | Model |
| --- | --- |
| `self.active_tasks` | the samples with `task[s] # "none"`, and `unreaped` finished ones |
| a task | `task[s]`: new, request (sent), generating, generated / cancelled / error, put (awaiting the queue), acked, none |
| `self.lock`, `self.condition` | `lockQ`, `proc = "idleCond"` / `"submitCond"` |
| `rollout_sample` local to the processor | `held` |
| `done_tasks` local to the processor | `bound` (whether it was ever assigned) |
| program counters | `proc` with `why` (which drain loop), `monitor`, `main`, `rpc`, `trainer`, `sync` |
| `param_version` tags of a sample | `startVer` (set when its task first starts), `doneVer` |
| the three remote calls | `rpc`: the synchronizer makes them one after the other |

Two of asyncio's orders are used: the feeder's task is created before the
processor's (`AtTop`), and coroutines made ready by the end of one remote call
run before the next remote call, a network round trip away, arrives
(`LoopDrained`).

Samples are numbers. Prompts, tokens, rewards, metrics, the contents of
validation results, and the counters that only feed statistics are left out of
`FullyAsync`. One service flag stands for the servers' and the workers'
cancellation, and one request for the generations of a sample; `PartialService`
is the detailed account of both. The weight transfer is one step
(`WeightTransfer` is its detailed account), a training step is one step. Timeouts (the monitor's ten seconds) are nondeterministic.
`test_freq = 0` is excluded by an assumption.

### Partial rollout (`PartialService`)

`generate_for_partial` waits outside its lock, so its two halves are the steps
`Bounce`/`Open` and `Wake`. `cancelled` is the set of requests whose event is
set and `generated` those whose generation ended; both may hold when `Wake`
runs, and then the generation wins (line 115). `entries` counts the keys of
`cancel_event` and `req_output`. `answer[l]` is the loop's AgentLoopOutput; a
token carries its position, the version of the weights that wrote it and
whether it ends the answer, which is all that stitching can get wrong.
`reported` is the rollouter's `current_param_version`, the label a sample gets
when it is submitted: between `SyncWeights` and `UpdateVersion` it is behind the
weights. `Submit` is possible while the weights change, since a monitor may have
lifted the rollouter's pause by then (section 6); only while `pause()` itself
runs, with its lock held, is it not. A failed
loop leaves the others of its group running (`gather` without
`return_exceptions`); the refinement mapping hides what those still answer.

### The tool agent (`ToolAgentLoop`)

A token is the thing it stands for (prompt, generated, the message of call i,
an image of it, a user's message), so that alignment and order can be stated.
The calls of an answer advance independently through create, execute and
release (`_call_tool`); `ProcessTools` is what `asyncio.gather`'s caller does
afterwards, in one stretch without an await. A parsed call is good, or bad (an
unknown tool, or arguments that are not JSON). Creating, running and releasing
an instance may each raise. The first two are answers; a release that raises
ends the gather, and with it the trajectory, while the other calls run on
(`ReleaseRaises`, and `At` in the state "raised"). A result may bring a list of
images: `images` keeps how many each list brought, and the transcript has one
placeholder per list. What the model's processor makes of a list that does not
hold one image is external; `Unsupported` lets it raise. The engine's own limit,
on prompt plus answer, is `MaxTokens` and `Refuse`.

### The agent at inference time (`AgentExecutor`, `BenchmarkDriver`)

Everything runs in one thread: each action is the stretch up to the next HTTP
request or return. `reply` is what the parser makes of the master's text,
`posts` counts HTTP attempts, `attempt` the format retries of a turn. An
answer is its JSON shape and the letter in it; the executor's own texts are
answers too, because the drivers cannot tell them from the master's. The task
is a variable chosen at the start: "choice" stands for CC, NC, PI and PEA,
"uav" for MOC and MSR, "interval" for FSA, "open" for CCQA. The `Read`
operators say what each parser finds in an answer of each shape.

### Data synthesis (`SortTimeline`)

`SortTimeline` keeps the ids a model wrote, right or wrong, and looks phases up
as the code does: the first with the id, else the one at that index.

### The weight transfer (`WeightTransfer`)

Each rank has its main thread (`pc`) and, with overlap, its `req_thread`
(`thread`); `channel` is the REQ/REP socket between them, on which a request
and its reply alternate. `rounds` is `global_buckets` in the order of the two
nested loops. A bucket is the names of its parameters and the version of the
rank that owns it; what a rank loads is the content of a half of its buffer
under the names of the metadata it was sent, so that a bucket received over
another, or metadata of another bucket, shows in `loaded`. A broadcast or a
barrier returns on a rank when every rank has made as many calls (`AllIn`);
the order of GPU streams below that, which `synchronize` settles, is external.
The next synchronization calls the ranks when the rollout ranks have returned:
`param_sync.py` 112 does not wait for the actor ranks, which may still be in
the last one. A load may raise: in the thread it ends the thread, without
overlap it ends the call.

### Checkpoints (`TrainerCheckpoint`)

Weights are the sequence of batches they were trained on, each with the launch
(`life`) it was trained in: a checkpoint mixed of two launches is visible. A
file is Missing, Torn (half written) or whole. Rotation, each rank's shard,
the role's barrier, `data.pt` and the tracker are steps, so a crash may fall
between any two of them, and `Damaged` lets it fall inside one: some of the
paths removed, some of the shards half written. `Restore` is
`_load_checkpoint`. The dataloader is a library; after a checkpoint at the end
of an epoch it may resume at the end or at the beginning (`ResumedAt`).
`override` is `trainer.total_training_steps`, which replaces the number of steps
the epochs have. After its last checkpoint a run still logs that step
(`StepEnds`) before it ends; a job that ended, or that could not load, is
launched again like one that crashed (`Crash`). The
removal of the previous launches' files by an operator, remote file systems
and asynchronous saves are left out.

## 4. Runs

| Run | Bounds | Shows |
| --- | --- | --- |
| `queue_log` | capacity 2, 2 consumers, 4 puts | types, no lost wakeup, refinement of `SampleStream`, every entry leaves |
| `synchronous` | 5 samples, 2 steps per synchronization, staleness 0, 1 failure | types, on-policy training |
| `stale` | 7 samples, staleness 1, no partial rollout | at most one sample over the budget, staleness bound, nothing dropped or left behind, the drains exclude each other, the processor survives, a pause is lifted early once at most |
| `partial` | 3 samples, 2 concurrent, staleness 1, partial rollout, 1 failure | the pause holds, no duplication, validation logged, training ends unless the monitor lifts a synchronization's pause |
| `livelock` | 4 samples, 1 concurrent, partial rollout | violation: training need not end (section 6) |
| `partial_service` | 2 servers, a group of 2 loops, responses of up to 2 tokens, 2 pauses, 1 failure | responses are whole and their versions reported but for one, one version per request, the leak is bounded, the pause ends, `GenerationService` is implemented |
| `agent_tools` | response length 7, 3 calls of which 2 are executed, messages of up to 2 tokens, lists of up to 2 images | one consistent transcript, no instance left, format over the whole trajectory, room to answer |
| `video_calls` | 3 calls, 2 permits, 2 attempts, 2 lost connections | one session, not kept closed; every call answers |
| `benchmark_tasks` | 2 questions, 2 turns, 2 attempts everywhere, 4 kinds of task | dialogues alternate, logs are the question's own, answers count, the summary is reached |
| `sort_numbered` | up to 3 phases, 4 ids, 2 durations | the timeline has no gap, the answer restores the order |
| `weights` | 2 actor and 2 rollout ranks, 3 parameters of sizes 1 or 2, buckets of 2, 2 updates, 1 load that raises | the halves are kept apart, nobody returns before all is loaded, undisturbed updates end |
| `checkpoint` | 2 ranks, actor and critic, 2 epochs of 2 batches, 3, 4 or 5 steps asked for, save_freq 3, keep 1 or 2, 2 crashes or later launches | the tracked checkpoint is whole, batches in order but for one epoch lost, work saved in time, rotation bounded per launch, training ends unless the tracker is torn |

The bounds are small but not trivial. Capacity 2 lets the queue be empty, half
full, full, and evict; 4 puts fill it twice. `PendingCap` 2 in `synchronous`
and `partial` makes the feeder block (128 in the code; the code puts samples in
a loop and waits when full, whatever the number). In `stale` it is 8, above
`MaxConcurrent` as in the code's configurations, which is what
`ProcessorSurvives` speaks of; there the pause of a synchronization is lifted
early in some behaviours, so that `StaleLiftOnly` has something to say. With
`PendingCap` 3 the same constants drop a sample, and `NothingLeftBehind` is
false (section 6). The trained samples span at
least two, mostly three, synchronizations, so every flag is set, cleared and
set again; the staleness lag reaches its bound.

In `partial_service` a response of two tokens can be interrupted before its
first token, between the two and at its end; two pauses interrupt a resumed
request again, and the group lets one loop finish before the other. Three
calls with a limit of two exercise the cut of the parallel calls, and every
response length up to 7 lets a tool message just fit or just not. Three calls
on two permits make one wait, so that a successor session can be created while
one is being closed. Two questions are the least for something to leak from
one to the next. Three phases are the least for a permutation that is not its
own inverse, which tells "position of a step" from "step at a position", and
ids 0 and 3 beyond the range force the fallback. `save_freq` 3 is not a
multiple of the epoch's 2 batches: checkpoints fall inside an epoch, at its
end, and after the last step; two crashes hit a resumed life again. Three steps
end the training with a batch left, which a finished job launched again will
train on; five are more than the epochs have, so that the loop ends without a
last step. In
`weights` two actors own two and one of the parameters, so that, with their
sizes, one rank has as many buckets as the other or one more, a bucket is just
full or one too full, and two or three rounds use each half again; the second
update starts while ranks are still returning from the first.

Where a program ends, a stuttering step says so and deadlock is checked.
`CHECK_DEADLOCK FALSE` is in four configurations whose systems may really
stop: a trajectory ends (`agent_tools`), all calls are answered
(`video_calls`), all samples are complete (`partial_service`), the last update
is over or a load has raised (`weights`, where `UpdatesEnd` says that it stops
nowhere else).

### Fairness

The ready queue of an event loop is first-in first-out, so a coroutine that
becomes ready again and again runs, even if the lock or the loop is taken in
between: strong fairness for each coroutine of the rollouter. Other actors
(queue, synchronizer, trainer, servers) run on their own: weak fairness. The
engine finishes the requests it accepted (weak fairness of the service); a
generation may fail, but need not. The monitor wakes up again and again.
In `MessageQueueLog` only the consumers are fair.

`PartialService`: the handlers, the workers and the steps of a pause get on
(they are ready coroutines, or awaited calls); the engine need not generate a
single token, and `PauseEnds` holds all the same. `VideoTools`: the session has
a total timeout, so a request ends one way or another, the semaphore's waiters
are served in order, and close() returns. `BenchmarkDriver` is one thread whose
requests time out: weak fairness of its next step. `WeightTransfer`: both
threads of every rank get on (they are threads of the operating system, and
the collective calls return when all ranks are in them); loads need not raise.
`TrainerCheckpoint`: the trainer's work goes on while it is alive; crashes are
not fair and are bounded, so that the claim is about what follows the last.

## 5. Proofs

`Channels_proofs` proves, about the message queue and for every capacity, set of consumers, set of
entries and bound, that `LogSpec` implies `[]LogTypeOK`, `[]NoLostWakeup` and
`ImplementsStream`. The inductive invariant `LogInv` adds `Accounted` to them:
the queue is, entry by entry, the part of the log beyond the cursor, and the
cursor is the sum of the three counters. Without it neither the capacity
argument (`QueueFull` is "Window entries outstanding") nor the identity of the
delivered entry follows. `StepInv` has one lemma per operation; eviction at
capacity is the case that needs the shift of indices (`TailShifts`). The
assumptions are `CapacityAssumption` and `BoundsAssumption`, evaluated by the
runs.

`FullyAsync_proofs` proves twelve theorems for every number of samples,
threshold, capacity and bound on failures, from `RolloutAssumption` (evaluated
by every run of `FullyAsync`) and the hypotheses named below.

* `Types`: `Spec => []TypeOK`. It is not inductive by itself. The processor
  comes back from `asyncio.wait` and releases the lock without looking at it;
  that there is a lock to release is `HolderInv`: a coroutine suspended inside
  `async with self.lock` is the head of `lockQ`. The two are proved together
  (`Invariant`), one lemma per coroutine.
* `DrainsExclude`: the processor's drain loop and `pause()` both replace
  `active_tasks` after an await, and never at a time. It follows from
  `HolderInv`: both would be the head of `lockQ`.
* `PauseHoldsWithPartialRollout`: no weights are transferred under a running
  generation. `PauseInv` says why: weights are transferred only while the last
  call made is the pause; from its gather on the servers are paused; once it
  has gathered nothing generates, and afterwards a request can only bounce.
  The rollouter's own `paused` appears nowhere in it: without partial rollout
  the theorem fails (section 6).
* `NeverDuplicated`: a sample is in one place and trained on at most once.
  `Whole` counts a sample's places; nearly every step moves a sample or loses
  it (`Shrinks`, one lemma per kind of step, over how `Append`, `Tail` and
  eviction change the count of entries of a sequence). Only the feeder adds,
  and `Located` says that what it adds was nowhere: numbers past `fed` have no
  place.
* `WithinBudget`: `BudgetPlusOne`. `Budgets` relates what is outstanding to the
  staleness counter at each of the places where the counter or the count
  changes: the processor took its sample below the threshold, or went to sleep
  in `pending_queue.get()` below it; while `update_param_version` awaits the
  queue's size its partial sum covers what is running. That no sample is
  submitted meanwhile is `HolderInv` again, and it is why the excess is the one
  sample in the processor's hands.
* `ValidationAlwaysLogged`: `ValidationLogged`. `ResultsTaken` counts the
  results in the queue and the one that is due (`PutDue`): at most two between
  `sync_weights` and the next `_log_validation_data`, at most one elsewhere,
  none when training is over. That the synchronizer waits for the calls of the
  last synchronization before it starts the next (`CallPhase`) makes it hold.
* `SynchronousIsOnPolicy`: `OnPolicy`, if `StaleAllowance = 0`. `Synchronous`
  has ten parts; the first to read is `Room`: what the trainer has had since
  staleness was last counted and what is outstanding are together at most
  staleness, which is at most max_required_samples. So when the trainer has had
  a whole batch of every local step nothing is outstanding (`OutstandingWhenSettled`),
  the version changes with nothing under way, and `Tagged` and `Current` carry
  it from the task to the batch.
* `ProcessorAlwaysSurvives`: `ProcessorSurvives`, whose condition is
  `MaxConcurrent < PendingCap` and that no generation raised. `done_tasks` is
  assigned when the first task is reaped; until
  then the processor must not find active_tasks emptied by someone else.
  `FirstBurst` says that it cannot: it keeps the event loop from its first step
  to its first wait, `pending_queue` being filled before it starts (`Ready`)
  and not running dry under it (`Burst`). In the code `pending_queue` has 128
  places and at most 16 samples run per server: the condition holds for up to
  seven servers, or when max_required_samples is below 128. Without it TLC
  finds the processor reading `done_tasks` unassigned (section 6).
* `LiftedOnlyStale`: `StaleLiftOnly`, for all constants. `TriggerOff` says that
  `monitor_loop_trigger` is off from the return of `pause()` to `resume()`, so
  no monitor decides to lift the pause meanwhile; one that had decided before
  does it when it gets the lock, and then sleeps.
* `NothingIsLeft`: without partial rollout, under the same hypothesis, and
  while no generation has raised and nothing was dropped, `NothingLeftBehind`.
  `Finished` and `EndIsLast` say why: the processor finishes when no task lives
  and starts none afterwards, `put_sample(None)` follows, so nothing follows
  the None; the trainer takes it last.
* `SynchronousLosesNothing`: if moreover `StaleAllowance = 0`, nothing is
  dropped either. A sample being put is one of the outstanding ones `Room`
  bounds; for the None, which is not, `DoneTaken` has kept a place since "DONE"
  was counted like a sample. With staleness allowed it is false in general: TLC
  finds a dropped sample for N = 5, one sample per step and two stale ones
  allowed. The sample `BudgetPlusOne` admits makes the difference.
* `StalenessAlwaysBounded`: without partial rollout, `StalenessBound`. A sample's
  lag is settled when it is put: the trainer takes at most max_required_samples
  more before it reaches it. `Ahead` says so in samples rather than versions
  (the k-th sample the trainer takes, of `InTime(e, k)`), which is what makes it
  inductive: a step that collects leaves `TrainedOn` plus the batch plus the
  place in the queue as it was. When the sample is put, `Recent` knows that it
  is of the rollouter's version or of the one before, as `pause()` gathered all
  older tasks, and `VersionLags` how far the rollouter's version is behind the
  trainer's. The last of them is two when the trainer goes on before
  `update_param_version` runs; nothing older than the rollouter's version is
  left then (`Gathered`). staleness_threshold is rounded up for a reason: with
  it rounded down the bound is false in general. TLC finds a sample three
  versions behind with two samples per step, one step per synchronization, one
  stale sample allowed, two running at once and up to three places in `pending_queue`,
  after the monitor lifted the pause of a synchronization (section 6).

`PartialService_proofs` proves the four safety claims of `partial_service` for
every number of servers, samples, loops, pauses and failures and any lengths,
from `ServiceAssumption`. The invariant has one part per loop:

* `RequestOf` ties a request to the answer it is for: it starts from the tokens
  that answer has, and its sample is served or failed. `OutputOf` says that what
  the engine wrote continues them, and `AnswerOf` that a cancelled answer has
  not reached its end. That is what an interruption has to preserve
  (`AnswerContinued`), and `ResponsesWhole` is little more than their sum.
* `OneVersionOf` is `OneVersion`. The rollouter's pause is no argument for it, as
  samples may be submitted while the weights change. `Unserved` is: until they
  have, no request of a live sample is open and no call has an answer that grew,
  for all servers are paused and turn requests away (`Syncing` says by phase which are, and how `reported` stands to
  `version`). A failed sample's loops may well see two versions; they are
  excluded there and in `SpanOf`, which is where the one version of difference
  comes from: `reported` is at most one behind.
* `LeakBounded` counts (`KeysOf`): entries, plus the requests that may still
  leave their keys behind in this pause (`MayLeak`), are at most the open
  requests plus the allowance of the pauses so far. A new pause renews the
  allowance before any request is cancelled.
* `ServiceImplemented` maps `Bounce` and `Wake` to `Extend`, by as many tokens
  as the answer grew, all of this call's version (`OneVersionOf` again); the
  steps of a pause and of the engine are invisible, but that of the weights,
  which is `NewWeights` because no call has written anything (`Unserved`).

`BenchmarkDriver_proofs` proves `Alternates` and `LogsKeptApart` for every
number of questions, turns, format, chat and tool retries and every kind of
task, from `ExecutorAssumption` and `DriverAssumption`. `DialogueAlternates`
is inductive only together with `ToolsObserved` (the dialogue has reached the
observation of every logged call) and `InStep` (the executor's query is the
driver's question): a log is the executor's state at the moment it is saved,
and what keeps it apart from the next is that `init_agent_state` empties both
histories before the query changes. `AnswersAlwaysCount` adds the results: what
the driver judges is what the master said or one of the executor's own texts,
and the parsers of choices and intervals score none of the latter; what the
master answered in the shape it was asked for is in the logs of its question.

`SortTimeline_proofs` proves `TimelineContiguous` for any ids, and
`AnswerIsRight` if the phases are numbered as asked. `Stitched` is the
invariant: each segment so far shows the phase looked up for its step, and the
step's position is on record. `PhaseOfNumbered` is where the numbering is
needed; without it the lookup still yields a kept phase (`PhaseOfType`), which
is why the timeline is contiguous in any case.

`TrainerCheckpoint_proofs` proves, for every number of ranks, epochs, steps and
crashes, any save_freq and any numbers of checkpoints to keep:

* `TrackerAlwaysWhole`. `Inv` says why: one lineage is in all weights
  (`SameWeights`), what the save in progress has written equals them
  (`Writing`), the last of the paths to be rotated is never the tracked one
  unless a role keeps just one (`Protected`), and so the tracked files stay
  what they were when the tracker was written (`Tracked`). `Protected` is the
  part that is not obvious: rotation knows nothing of the tracker, and is right
  only because it removes the oldest paths and the tracked one is the newest of
  this launch, or belongs to a launch whose paths are forgotten.
* `AlwaysInOrder`: `PassesWhole` from the same invariant, as a lineage in order
  stays in order when data.pt's position is the one its last batch reached. Its
  other half, that the epoch counter is at most one pass ahead, needs `InEpoch`,
  which relates epoch, position and length of the lineage: the epoch is computed
  anew from the step at every launch, so a lost epoch is not lost twice.
* `AlwaysFinalSaved` and `TypeCorrect`: these need `Bounds`. `Counted` ties the
  step to the lineage, `AtTheEnd` says that a step past the last is saved when
  it is logged, and `Beyond` counts such steps: one for each later launch.
* `AlwaysSavedInTime`: `SavedInTime`, that a crash costs less than save_freq
  steps (`Timely`), that the last step is on disk, and that a finished run is
  trained on by at most one step per launch; a launch resumes from what the
  tracker names, so the bound carries over from launch to launch.
* `RotationAlwaysBounded`: `RotationBounded`. What this launch wrote for a role is
  on its manager's list, or is being written (`Own`, `Known`); shards that
  earlier launches left end with a batch of theirs (`Aged`).

About the weights, `Channels_proofs` proves `HalvesApart` for any number of ranks,
parameters and updates, any sizes and any number of loads that raise. The
invariant `PendingIsLast` says that metadata on the way to the thread, or
being loaded, are those of bucket `gidx - 1`, and that the main thread has then
not got past the wait for the reply of bucket `gidx`: the buffer is written in
the other half (`Alternate`). The collective calls play no part in it, so the
buffers are safe however far the ranks drift apart.

They do for `TransferAlwaysWhole`, `TransferWhole` under the same generality.
It comes in two halves.

* The plan. `RoundsPlanned`: the rounds that `register_checkpoint` and the loops
  of `update_checkpoint` make of any sizes carry every parameter once and no
  bucket overflows. `PlacedWell` is the step: one more parameter is one more
  cell of one actor's buckets (`Grown`), whether or not it opens a bucket. The
  three loops are recursive functions; `Iterates` shows that such a function
  exists and `FollowersAgree` that it is the one `CHOOSE` picks, which tlapm
  needs as lemmas before it can say anything about `upTo`.
* The protocol. `TransferInv` gives a rank's number of collective calls as a
  function of its update and its place in it (`Progress`, `Made`): `Calls` for
  each update. `Met` says that no call has returned before all ranks made it.
  Together (`Lexical`, numbers of calls compare like pairs of an update and a
  place) they give `Carried`: when a broadcast returns, the bucket's owner is in
  the same update and has put it on the wire (`OnWire`). `Held` follows it
  through the half of the buffer and the metadata, `LoadedUpTo` into what is
  loaded. `ReturnedIsLoaded` is the same comparison for the last barrier: who
  has returned has made all the calls of the update, so the rollout ranks have
  too, or are in the next one.

`VideoTools_proofs` proves `SharedSession` for any finite set of calls.
`SessionInv` is the heart of it: until a session is closed, the class holds the
only one there is; afterwards it may hold a closed one, but then a call is still
in `close()`, whose end makes the class forget whatever it holds. That a call
opens one session at most is a count of the calls that got a permit
(`OpenedInv`), which needs the queue to hold each waiting call once (`QueueInv`).

`ToolAgentLoop_proofs` proves `TranscriptAlwaysConsistent`,
`EveryInstanceReleased` and, if `ModelLength >= PromptLength + ResponseLength`
(what a configuration has to satisfy for the prompt and the longest response
to fit), `AnswersAlwaysFit`, for every length, limit, number of turns and of
concurrent calls. `Story` is the invariant: the mask marks exactly what the
model wrote (`Tokens`, `LastMark`), the lists of images are those of the messages
(`Imaged`), an instance is held only by a call under way or by one whose release
raised (`Calling`), the turns are those of the transcript (`Turns`), and each state of
the machine has its own relation of lengths to limits (`Room`). `Messages` is a
fold over the calls; `FlattenSteps` and `CountUp` say what one more call adds,
by the least counterexample (`WFMin`), where the library's induction theorems
cannot be used.

Only model-checked: liveness, as TLAPS does not handle fairness.

## 6. What the models found

Found by a run:

* **A livelock** (`livelock`). The comment on the monitor says its second
  function is "Trigger rollout recovery". The monitor reads
  `monitor_loop_trigger` and the thresholds before it waits for the lock
  (`fully_async_rollouter.py` 640-644). Queued behind `pause()`, it lifts the
  pause after `pause()` returns. The processor submits the sample it holds to
  servers that are still paused; it bounces into `cancel_queue` while its
  finished task is still in `active_tasks`, and `update_param_version` (216-218)
  counts it twice. The staleness count is then at the threshold with nothing
  outstanding: `_should_pause_generation` stays true, the queue is empty, the
  trainer waits, and the monitor never recovers. `TerminatesUndisturbed` shows
  that without such a lift training ends.

Met while modelling, each stated by the model or by a property's exception:

* The same lift without partial rollout starts a generation while weights are
  replaced; with it the servers' own flag bounces the request (`PauseHolds`).
  `StaleLiftOnly` says that it is the only one, and happens once.
* A sample submitted during such a lift is labelled with the version before the
  synchronization (500). If its request arrives after `resume()` its tokens
  are one version newer than the `param_version_end` reported with them
  (`SpanCoversTokens`).
* `done_tasks` can be read unassigned (`fully_async_rollouter.py` 439) if
  `pending_queue` has room for no more samples than run at once: TLC finds it for
  five samples, one per step, two stale ones allowed and
  `MaxConcurrent = PendingCap = 2`.
* `put_sample`'s docstring (`message_queue.py` 76) says it returns whether the
  sample was put; the code (94) always puts it, and False says another was lost.
* The sample the processor holds when `update_param_version` resets the count
  belongs to nobody: `BudgetPlusOne` says the excess is never more than one.
* `put_sample` evicts when the queue is full, "rarely happens" its comment says
  (`message_queue.py` 79). With staleness allowed no failure is needed for it:
  the extra sample of `BudgetPlusOne` is enough. Whether it happens depends on
  the thresholds and on `PendingCap`; `NothingLeftBehind` is about thresholds
  where it does not.
* After DONE the processor does not look into `cancel_queue` again
  (`fully_async_rollouter.py` 460): a sample interrupted then is lost.
* A request cancelled before its first token leaves its keys in `cancel_event`
  and `req_output` (`vllm_async_server.py` 106): `LeakPerPause` bounds them.
* `PartialToolAgentLoop` builds AgentData without `video_data`
  (`partial_tool_agent_loop.py` 107), which the class requires: every sample raises.
* `test_freq = 0` divides by zero at the end of training
  (`fully_async_trainer.py` 290), though the rollouter guards against it.
* `get_sample` returns None after shutdown, which its caller unpacks as a pair.
* A checkpoint of the asynchronous rollouter forgets the samples in flight; the
  code says so (252-256).
* A session created by another call during an awaited close() is overwritten by
  the reset that follows and never closed (`video_analysis_tools.py` 127); and
  retries on a closed session are refused before they are sent (103, 129).
* `parse_agent_output_json_list` finds an option letter in the executor's own
  error text (`answer_parse.py` 177): a run that failed may score.
* `parse_json_interval_string` raises on the list its prompt asks for
  (`answer_parse.py` 207), and the question is lost with its logs.
* CCQA's content-filter branch calls a method that does not exist
  (`run_CCQA_agent.py` 188).
* The sort generator's lookup by `phase_id` falls back to an index
  (`generate_full_dataset_sort.py` 208-211) and may show a phase twice; and a
  worker that raises there loses the report of all failed tasks (299).
* A load that raises in the transfer's thread is reported nowhere
  (`checkpoint_engine.py` 468): its main thread waits for the reply, all other
  ranks for the next collective call, and `sync_weights` for them, with the
  rollouter paused. `TransferWhole` shows that at least nobody goes on with
  partial weights.
* With `max_ckpt_to_keep = 1` the tracked checkpoint is removed before the new
  one is written (`fsdp_checkpoint_manager.py` 205-213): a crash in between
  leaves nothing to resume from.
* The tracker is opened with "w" (`ray_trainer.py` 1017) under a comment that
  calls it atomic (1004): a crash then leaves it empty, and no launch gets
  past it by itself.
* Rotation forgets the paths of earlier launches. "Rotates old checkpoints,
  keeping at most `max_ckpt_to_keep`" (`fsdp_checkpoint_manager.py` 190) is
  therefore true of what one launch writes (`RotationBounded`), and not of the
  directory: TLC exceeds it with one crash.
* A checkpoint at the end of an epoch is resumed in the next one (`ray_trainer.py`
  1338) with a dataloader that may be exhausted, and that epoch then passes
  empty: its batches are skipped. `OneEpochEmpty` says that it is one at most
  however many restarts there are; if it is the last, training ends without a
  last step, its last validation and its last checkpoint. What remains saved
  then is what `LossBounded` says.
* If `total_training_steps` is set below what the epochs have (437-438), a
  finished job that is launched again trains one step past it, and saves it,
  every time (`OneMorePerLaunch`): the step is counted on before the limit is
  looked at.
* A list of several images in one tool result gets one placeholder
  (`tool_agent_loop.py` 342-344) while each of its images is sent along
  (357-363); one of only None gets a placeholder and no image. `ImagesMatch`
  therefore counts lists.
* A tool's release that raises is not caught (`tool_agent_loop.py` 490-492): the
  trajectory raises, and the other calls of the answer run on unobserved. They
  still release their instances (`NoInstanceLeft`).

## 7. Not modelled

* The rate-limited reward managers (token buckets over real time and a
  load-counting router), the one-step-off trainer, the transfer queue (an
  external package), the checkpoint engines of `src/verl/verl/checkpoint_engine`:
  not on the path this repository's training scripts take.
* Server choice in the agent loop manager: a static heap of counters.
* `protocol.py`, sequence balancing, advantages and losses: numeric or tensor
  functions; what they get wrong is in numbers a small integer model lacks.
* Single controller, engines, workers, kernels, models, vendored and VLA code:
  GPU, Ray and library code without a protocol of its own at this level.
* Left out in detail: the deque's own `maxlen` (`message_queue.py` 37), which
  never acts behind the explicit eviction; failures of `save_logs`, which it
  swallows (`agent_executor.py` 131-132), and missing keys of a malformed
  question file, which end the driver (`run_CC_agent.py` 63-74); the return of
  the validation put inside `update_param_version`, which is one step with it.
* Of the modelled parts: the Megatron checkpoint manager and asynchronous
  saves, the weight transfer without the checkpoint engine, the perception
  handlers' frame extraction, the thread pool and the other timelines of data
  synthesis, prompts and metrics. `PROJECT.json` says for each component what
  is left out.
