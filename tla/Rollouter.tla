----------------------------- MODULE Rollouter ------------------------------
(***************************************************************************)
(* The FullyAsyncRollouter actor (fully_async_rollouter.py): the feeder,   *)
(* the processor, one task per sample in flight, the monitor, the main     *)
(* coroutine, and the three remote calls pause, update_param_version and   *)
(* resume, all sharing one asyncio event loop and one asyncio lock; and    *)
(* the generation service they call (agent loop workers, vLLM servers).    *)
(*                                                                         *)
(* An action runs a coroutine from one suspension to the next.  Where a    *)
(* coroutine reads other actors twice without suspending, the stretch is   *)
(* cut in two and `cpu' keeps the event loop for it: no other coroutine of *)
(* this actor runs, the rest of the system does.                           *)
(***************************************************************************)
EXTENDS Integers, Sequences, FiniteSets

CONSTANTS
  N,               \* total_rollout_steps: samples fed in the run
  Required,        \* required_samples: samples of one training step
  Trigger,         \* trigger_parameter_sync_step: training steps per sync
  StaleAllowance,  \* int(staleness_threshold * Required * Trigger)
  MaxConcurrent,   \* max_concurrent_samples
  PendingCap,      \* maxsize of pending_queue (128 in the code)
  PartialRollout,  \* async_training.partial_rollout
  MaxFailures      \* bound on generation calls that raise

\* max_required_samples, which is also max_queue_size.
MaxRequired == Required * Trigger + StaleAllowance

ASSUME RolloutAssumption ==
  /\ N \in Nat \ {0} /\ Required \in Nat \ {0} /\ Trigger \in Nat \ {0}
  /\ StaleAllowance \in Nat /\ MaxFailures \in Nat
  /\ MaxConcurrent \in 1..MaxRequired
  /\ PendingCap \in Nat \ {0}
  /\ PartialRollout \in BOOLEAN

VARIABLES
  queue, valQueue, mqVersion, mqRunning, produced, consumed, dropped, waiting,
  pending,         \* pending_queue: sample numbers, then Done
  fed,             \* entries the feeder has put so far, Done included
  cancelQ,         \* cancel_queue
  task,            \* where each sample's task is; "none" when it has no live task
  startVer,        \* param_version_start of each sample, NoVersion before its first task
  doneVer,         \* rollout_sample.param_version of each sample
  unreaped,        \* finished tasks still in active_tasks
  broken,          \* one of them finished by raising
  proc, why, held, \* the processor: where it is, which drain loop, its sample
  bound,           \* the processor's local done_tasks has been assigned
  monitor, main,   \* where the monitor and _streaming_generation_main are
  rpc, rpcVersion, \* the remote call in progress, and its argument
  sizeSum,         \* update_param_version's sum, while it awaits
  paused, running, monitorTrigger, staleness, version,
  lockQ,           \* the asyncio lock: its holder, then its waiters in order
  cpu,             \* the coroutine keeping the event loop, or "free"
  serversPaused,   \* vLLMHttpServerForPartial.paused, of every server
  failures

MQ == INSTANCE MessageQueue WITH
        MaxQueueSize <- MaxRequired, Consumers <- {"trainer"}

mqVars == <<queue, valQueue, mqVersion, mqRunning, produced, consumed, dropped, waiting>>
feedVars == <<pending, fed>>
taskVars == <<task, startVer, doneVer, serversPaused, failures>>
poolVars == <<unreaped, broken>>
procVars == <<proc, why, held, bound>>
flagVars == <<paused, running, monitorTrigger>>
rpcVars == <<rpc, rpcVersion, sizeSum>>
loopVars == <<lockQ, cpu>>
aroundVars == <<monitor, main, rpcVars, flagVars, staleness, version>>

Samples == 1..N
Done == N + 1                       \* the "DONE" string
None == 0                           \* no sample
NoVersion == -1                     \* not yet tagged
End == [id |-> None, start |-> NoVersion, ver |-> NoVersion]   \* put_sample's None

Live == {s \in Samples : task[s] # "none"}
ActiveTasks == Cardinality(Live) + unreaped     \* len(self.active_tasks)

ShouldPauseOnQueue == Len(queue) >= MaxRequired        \* mutant: staleness ignored
ShouldPauseLate ==                                     \* mutant: off by one
  Len(queue) >= MaxRequired \/ staleness > MaxRequired
ShouldPause == Len(queue) >= MaxRequired \/ staleness >= MaxRequired

-----------------------------------------------------------------------------
(* The event loop and its first-in first-out lock.                         *)

Runs(c) == cpu \in {"free", c}
Holds(c) == lockQ # << >> /\ Head(lockQ) = c

\* "async with self.lock": with the lock free the coroutine does not suspend.
Acquire(c) ==
  /\ lockQ' = Append(lockQ, c)
  /\ cpu' = IF lockQ = << >> THEN c ELSE "free"

\* Leave the lock and suspend; leave it and run on; leave it and ask again.
ReleaseAndYield == lockQ' = Tail(lockQ) /\ cpu' = "free"
ReleaseAndRun(c) == lockQ' = Tail(lockQ) /\ cpu' = c
ReleaseAndAcquire(c) ==
  /\ lockQ' = Append(Tail(lockQ), c)
  /\ cpu' = IF Len(lockQ) = 1 THEN c ELSE "free"

\* Keep the lock and suspend.
HoldAndYield == cpu' = "free" /\ UNCHANGED lockQ

NotNotified == proc                       \* mutant: no notify_all
\* condition.notify_all(): only the processor ever waits on the condition.
Notified ==
  IF proc = "idleCond" THEN "idleWoken"
  ELSE IF proc = "submitCond" THEN "submitWoken" ELSE proc

Notify == proc' = Notified

-----------------------------------------------------------------------------
(* Feeder.                                                                 *)

RoomOnly == PendingCap - Len(pending)     \* mutant: the last step is not checked
FeedCount ==
  IF Done - fed < PendingCap - Len(pending) THEN Done - fed ELSE PendingCap - Len(pending)

\* _feed_samples: fill pending_queue as far as it goes, then "DONE" after sample N.
FeedSamples ==
  /\ main # "unborn" /\ cpu = "free"
  /\ fed < Done
  /\ Len(pending) < PendingCap
  /\ pending' = pending \o [i \in 1..FeedCount |-> fed + i]
  /\ fed' = fed + FeedCount
  /\ UNCHANGED <<mqVars, cancelQ, taskVars, poolVars, procVars, aroundVars, loopVars>>

-----------------------------------------------------------------------------
(* Processor: _processor_worker.                                           *)

procFrame == <<mqVars, feedVars, cancelQ, taskVars, poolVars, aroundVars>>

\* feed_task is created first, so the feeder runs before the processor does.
AtTop == proc = "top" /\ Runs("processor") /\ fed > 0
AtTopGoing == AtTop /\ ~paused /\ ~ShouldPause

\* Top of the loop: paused, or too many stale samples, or a full queue.
SeePause ==
  /\ AtTop /\ (paused \/ ShouldPause)
  /\ proc' = "pauseLock" /\ Acquire("processor")
  /\ UNCHANGED <<procFrame, why, held, bound>>

CancelledAgain == cancelQ                 \* mutant: the sample stays queued
CancelledRest == Tail(cancelQ)

\* ... otherwise a cancelled sample comes first, and is not counted again.
TakeCancelled ==
  /\ AtTopGoing /\ cancelQ # << >>
  /\ held' = Head(cancelQ)
  /\ cancelQ' = CancelledRest
  /\ proc' = "reap" /\ why' = "cap"
  /\ cpu' = "processor"
  /\ UNCHANGED <<mqVars, feedVars, taskVars, poolVars, bound, aroundVars, lockQ>>

\* ... otherwise the next of pending_queue; if there is none, sleep in its get().
AwaitPending ==
  /\ AtTopGoing /\ cancelQ = << >> /\ pending = << >>
  /\ proc' = "getWait"
  /\ cpu' = "free"
  /\ UNCHANGED <<procFrame, why, held, bound, lockQ>>

TakePending ==
  /\ \/ AtTopGoing /\ cancelQ = << >>
     \/ proc = "getWait" /\ cpu = "free"
  /\ pending # << >>
  /\ pending' = Tail(pending)
  /\ staleness' = staleness + 1
  /\ IF Head(pending) = Done
     THEN why' = "done" /\ UNCHANGED held
     ELSE why' = "cap" /\ held' = Head(pending)
  /\ proc' = "reap"
  /\ cpu' = "processor"
  /\ UNCHANGED <<mqVars, fed, cancelQ, taskVars, poolVars, bound, monitor, main,
                 rpcVars, flagVars, version, lockQ>>

\* "self.paused = True" by the processor, then the first drain loop.
PauseSelf ==
  /\ proc = "pauseLock" /\ Holds("processor") /\ Runs("processor")
  /\ paused' = TRUE
  /\ proc' = "reap" /\ why' = "pause"
  /\ ReleaseAndRun("processor")
  /\ UNCHANGED <<mqVars, feedVars, cancelQ, taskVars, poolVars, held, bound, monitor,
                 main, rpcVars, running, monitorTrigger, staleness, version>>

DrainingNotAtEnd ==                       \* mutant: "DONE" does not wait for tasks
  CASE why = "cap" -> ActiveTasks >= MaxConcurrent
    [] why = "pause" -> ActiveTasks > 0
    [] why = "done" -> FALSE
\* The condition of the three drain loops.
Draining == IF why = "cap" THEN ActiveTasks >= MaxConcurrent ELSE ActiveTasks > 0

TestDrain ==
  /\ proc = "reap" /\ cpu = "processor"
  /\ IF ~Draining /\ why = "done"
     THEN proc' = "finished" /\ cpu' = "free" /\ UNCHANGED lockQ
     ELSE /\ Acquire("processor")
          /\ proc' = IF Draining THEN "reapLock"
                     ELSE IF why = "pause" THEN "idleLock" ELSE "submitLock"
  /\ UNCHANGED <<procFrame, why, held, bound>>

TasksLeftUnverified == TRUE               \* mutant: not "verified again"
TasksLeft == ActiveTasks > 0

\* Inside the lock: wait for a task if there still is one; if another coroutine
\* emptied active_tasks meanwhile, the old done_tasks is awaited once more.  Without
\* a done_tasks, or with an empty set to wait for, the processor raises.
EnterDrain ==
  /\ proc = "reapLock" /\ Holds("processor") /\ Runs("processor")
  /\ IF TasksLeft
     THEN IF ActiveTasks > 0 THEN proc' = "reapWait" /\ HoldAndYield
                             ELSE proc' = "crashed" /\ ReleaseAndYield
     ELSE IF bound THEN proc' = "reap" /\ ReleaseAndRun("processor")
                   ELSE proc' = "crashed" /\ ReleaseAndYield
  /\ UNCHANGED <<procFrame, why, held, bound>>

\* asyncio.wait returned; awaiting a task that raised ends the processor.
Reap ==
  /\ proc = "reapWait" /\ cpu = "free"
  /\ unreaped > 0
  /\ unreaped' = 0 /\ broken' = FALSE
  /\ bound' = TRUE
  /\ IF broken
     THEN proc' = "crashed" /\ ReleaseAndYield
     ELSE proc' = "reap" /\ ReleaseAndRun("processor")
  /\ UNCHANGED <<mqVars, feedVars, cancelQ, taskVars, why, held, aroundVars>>

\* "while self.paused: await self.condition.wait()", in the idle branch ...
Idle ==
  /\ proc = "idleLock" /\ Holds("processor") /\ Runs("processor")
  /\ IF paused THEN proc' = "idleCond" /\ ReleaseAndYield
               ELSE proc' = "top" /\ ReleaseAndRun("processor")
  /\ UNCHANGED <<procFrame, why, held, bound>>

\* ... and before a sample is submitted.
Submit ==
  /\ proc = "submitLock" /\ Holds("processor") /\ Runs("processor")
  /\ IF paused
     THEN proc' = "submitCond" /\ ReleaseAndYield /\ UNCHANGED <<task, held>>
     ELSE /\ task' = [task EXCEPT ![held] = "new"]
          /\ held' = None
          /\ proc' = "top" /\ ReleaseAndRun("processor")
  /\ UNCHANGED <<mqVars, feedVars, cancelQ, startVer, doneVer, serversPaused, failures,
                 poolVars, why, bound, aroundVars>>

\* notify_all woke the processor: wait() takes the lock again before returning.
Wake ==
  /\ proc \in {"idleWoken", "submitWoken"} /\ cpu = "free"
  /\ proc' = (IF proc = "idleWoken" THEN "idleLock" ELSE "submitLock") /\ Acquire("processor")
  /\ UNCHANGED <<procFrame, why, held, bound>>

ProcessorStep ==
  \/ SeePause \/ TakeCancelled \/ AwaitPending \/ TakePending \/ PauseSelf
  \/ TestDrain \/ EnterDrain \/ Reap \/ Idle \/ Submit \/ Wake

-----------------------------------------------------------------------------
(* One task per sample: _process_single_sample_streaming.                  *)

taskFrame == <<feedVars, procVars, aroundVars, loopVars>>

\* The task starts: the sample is tagged and the generation request leaves.
\* A resumed sample keeps the param_version_start of its first run.
StartTask(s) ==
  /\ task[s] = "new" /\ cpu = "free"
  /\ task' = [task EXCEPT ![s] = "request"]
  /\ startVer' = [startVer EXCEPT ![s] = IF @ = NoVersion THEN version ELSE @]
  /\ UNCHANGED <<mqVars, cancelQ, doneVer, serversPaused, failures, poolVars, taskFrame>>

\* Generation complete: the sample gets the current version and goes to the queue.
SendSample(s) ==
  /\ task[s] = "generated" /\ cpu = "free"
  /\ task' = [task EXCEPT ![s] = "put"]
  /\ doneVer' = [doneVer EXCEPT ![s] = version]
  /\ UNCHANGED <<mqVars, cancelQ, startVer, serversPaused, failures, poolVars, taskFrame>>

\* The queue executes put_sample ...
QueueSample(s) ==
  /\ task[s] = "put"
  /\ MQ!PutSample([id |-> s, start |-> startVer[s], ver |-> doneVer[s]])
  /\ task' = [task EXCEPT ![s] = "acked"]
  /\ startVer' = [startVer EXCEPT ![s] = NoVersion]
  /\ doneVer' = [doneVer EXCEPT ![s] = NoVersion]
  /\ UNCHANGED <<cancelQ, serversPaused, failures, poolVars, taskFrame>>

EndTask(s) == task' = [task EXCEPT ![s] = "none"] /\ unreaped' = unreaped + 1

\* ... and the task, having its answer, is over but stays in active_tasks.
FinishTask(s) ==
  /\ task[s] = "acked" /\ cpu = "free"
  /\ EndTask(s)
  /\ UNCHANGED <<mqVars, cancelQ, startVer, doneVer, serversPaused, failures, broken,
                 taskFrame>>

\* Generation was interrupted: the sample waits in cancel_queue to be resumed.
RequeueSample(s) ==
  /\ task[s] = "cancelled" /\ cpu = "free"
  /\ cancelQ' = Append(cancelQ, s)
  /\ EndTask(s)
  /\ UNCHANGED <<mqVars, startVer, doneVer, serversPaused, failures, broken, taskFrame>>

\* The generation call raised, and so does the task.
RaiseTask(s) ==
  /\ task[s] = "error" /\ cpu = "free"
  /\ EndTask(s)
  /\ broken' = TRUE
  /\ UNCHANGED <<mqVars, cancelQ, startVer, doneVer, serversPaused, failures, taskFrame>>

TaskStep(s) ==
  StartTask(s) \/ SendSample(s) \/ FinishTask(s) \/ RequeueSample(s) \/ RaiseTask(s)

-----------------------------------------------------------------------------
(* The generation service: generate_for_partial, cancel and resume of the  *)
(* servers.  It runs beside the rollouter's event loop.                    *)

serviceFrame == <<mqVars, cancelQ, startVer, doneVer, poolVars, taskFrame>>

NeverBounces == FALSE                     \* mutant: "if self.paused" dropped
Bounces == serversPaused

\* manager.cancel() is at work: a server may be paused already, or not yet.
SomePaused == serversPaused \/ rpc = "pauseCancel"

\* A request finds its server paused and bounces, or its generation starts.
AcceptRequest(s) ==
  /\ task[s] = "request"
  /\ \/ SomePaused /\ task' = [task EXCEPT ![s] = "cancelled"]
     \/ ~Bounces /\ task' = [task EXCEPT ![s] = "generating"]
  /\ UNCHANGED <<serviceFrame, serversPaused, failures>>

CompleteRequest(s) ==
  /\ task[s] = "generating"
  /\ task' = [task EXCEPT ![s] = "generated"]
  /\ UNCHANGED <<serviceFrame, serversPaused, failures>>

\* cancel() set the request's cancel_event before its generation was complete.
InterruptRequest(s) ==
  /\ task[s] = "generating" /\ SomePaused
  /\ task' = [task EXCEPT ![s] = "cancelled"]
  /\ UNCHANGED <<serviceFrame, serversPaused, failures>>

FailRequest(s) ==
  /\ task[s] = "generating" /\ failures < MaxFailures
  /\ task' = [task EXCEPT ![s] = "error"]
  /\ failures' = failures + 1
  /\ UNCHANGED <<serviceFrame, serversPaused>>

\* manager.cancel() and manager.resume() reach the servers and the workers.
PauseServers ==
  /\ rpc = "pauseCancel" /\ ~serversPaused
  /\ serversPaused' = TRUE
  /\ UNCHANGED <<serviceFrame, task, failures>>

ResumeServers ==
  /\ rpc = "resumeServers" /\ serversPaused
  /\ serversPaused' = FALSE
  /\ UNCHANGED <<serviceFrame, task, failures>>

-----------------------------------------------------------------------------
(* Monitor: _async_monitor_loop.                                           *)

monitorFrame == <<mqVars, feedVars, cancelQ, taskVars, poolVars, why, held, bound, main,
                  rpcVars, running, monitorTrigger, staleness, version>>

MonitorStart ==
  /\ monitor = "start" /\ cpu = "free"
  /\ monitor' = "checkLock" /\ Acquire("monitor")
  /\ UNCHANGED <<monitorFrame, proc, paused>>

MonitorCheck ==
  /\ monitor = "checkLock" /\ Holds("monitor") /\ Runs("monitor")
  /\ monitor' = (IF running THEN "sleep" ELSE "done") /\ ReleaseAndYield
  /\ UNCHANGED <<monitorFrame, proc, paused>>

RecoveryUntriggered == ~ShouldPause       \* mutant: monitor_loop_trigger is not checked
RecoveryDue == monitorTrigger /\ ~ShouldPause

\* After check_interval: monitor_loop_trigger and the thresholds are read here,
\* before the lock is asked for.
MonitorWake ==
  /\ monitor = "sleep" /\ cpu = "free"
  /\ monitor' = (IF RecoveryDue THEN "liftLock" ELSE "checkLock") /\ Acquire("monitor")
  /\ UNCHANGED <<monitorFrame, proc, paused>>

\* "self.paused = False" and notify_all, then round the loop to the next check.
MonitorLift ==
  /\ monitor = "liftLock" /\ Holds("monitor") /\ Runs("monitor")
  /\ paused' = FALSE
  /\ Notify
  /\ monitor' = "checkLock"
  /\ ReleaseAndAcquire("monitor")
  /\ UNCHANGED monitorFrame

-----------------------------------------------------------------------------
(* Main: fit(), then _streaming_generation_main.  Whether the processor    *)
(* returned or raised, it ends the same way.                               *)

mainFrame == <<feedVars, cancelQ, taskVars, poolVars, procVars, monitor, rpcVars,
               paused, monitorTrigger, staleness, version>>

\* fit() lifts the pause and creates the coroutines.
StartFit ==
  /\ main = "unborn" /\ cpu = "free" /\ lockQ = << >>
  /\ paused' = FALSE /\ running' = TRUE
  /\ main' = "wait" /\ proc' = "top" /\ monitor' = "start"
  /\ UNCHANGED <<mqVars, feedVars, cancelQ, taskVars, poolVars, why, held, bound, rpcVars,
                 monitorTrigger, staleness, version, loopVars>>

\* put_sample(None): the end of the stream, executed by the queue.
PutEnd ==
  /\ main = "wait" /\ proc \in {"finished", "crashed"}
  /\ MQ!PutSample(End)
  /\ main' = "acked"
  /\ UNCHANGED <<mainFrame, running, loopVars>>

AskStop ==
  /\ main = "acked" /\ cpu = "free"
  /\ main' = "stopLock" /\ Acquire("main")
  /\ UNCHANGED <<mainFrame, mqVars, running>>

StopRunning ==
  /\ main = "stopLock" /\ Holds("main") /\ Runs("main")
  /\ running' = FALSE
  /\ main' = "done" /\ ReleaseAndYield
  /\ UNCHANGED <<mainFrame, mqVars>>

-----------------------------------------------------------------------------
(* The remote calls.  The synchronizer makes one at a time.                *)

rpcFrame == <<feedVars, cancelQ, taskVars, why, held, bound, monitor, main, rpcVersion, running>>
callFrame == <<rpcFrame, mqVars, proc, staleness, version>>

SuspendedInLock ==
  \/ Holds("processor") /\ proc = "reapWait"
  \/ Holds("rpc") /\ rpc \notin {"pauseLock", "updateLock", "resumeLock"}

\* Coroutines that the end of the last remote call made ready have run: the next
\* call is a round trip away and the event loop is first-in first-out.
LoopDrained ==
  /\ lockQ = << >> \/ SuspendedInLock
  /\ proc \notin {"idleWoken", "submitWoken"}

\* A call arrives and asks for the lock.
CallArrives ==
  /\ cpu = "free"
  /\ \/ rpc = "pauseCall" /\ LoopDrained /\ rpc' = "pauseLock"
     \/ rpc = "updateCall" /\ rpc' = "updateLock"
     \/ rpc = "resumeCall" /\ rpc' = "resumeLock"
  /\ Acquire("rpc")
  /\ UNCHANGED <<callFrame, poolVars, paused, monitorTrigger, sizeSum>>

InCallUnlocked(pc) == rpc = pc /\ Runs("rpc")         \* mutant: no lock
InCall(pc) == rpc = pc /\ Holds("rpc") /\ Runs("rpc")

\* pause(): stop new work, cancel what runs if partial_rollout, ...
PauseBegin ==
  /\ InCall("pauseLock")
  /\ paused' = TRUE
  /\ rpc' = (IF PartialRollout THEN "pauseCancel" ELSE "pauseGather") /\ HoldAndYield
  /\ UNCHANGED <<callFrame, poolVars, monitorTrigger, sizeSum>>

PauseCancelled ==
  /\ InCall("pauseCancel") /\ serversPaused
  /\ rpc' = "pauseGather" /\ HoldAndYield
  /\ UNCHANGED <<callFrame, poolVars, paused, monitorTrigger, sizeSum>>

\* ... gather every task, exceptions swallowed, and clear active_tasks, ...
PauseGathered ==
  /\ InCall("pauseGather") /\ Live = {}
  /\ unreaped' = 0 /\ broken' = FALSE
  /\ rpc' = "pauseClear" /\ HoldAndYield
  /\ UNCHANGED <<callFrame, paused, monitorTrigger, sizeSum>>

\* ... and only when the KV cache is cleared, switch the monitor's recovery off.
PauseEnd ==
  /\ InCall("pauseClear")
  /\ monitorTrigger' = FALSE
  /\ rpc' = "paused" /\ ReleaseAndYield
  /\ UNCHANGED <<callFrame, poolVars, paused, sizeSum>>

\* update_param_version(): the sum is begun before the await on the queue's size.
UpdateBegin ==
  /\ InCall("updateLock")
  /\ version' = rpcVersion
  /\ sizeSum' = ActiveTasks + Len(cancelQ)
  /\ rpc' = "updateSize" /\ HoldAndYield
  /\ UNCHANGED <<rpcFrame, mqVars, proc, poolVars, paused, monitorTrigger, staleness>>

\* The queue answers get_queue_size.
UpdateSize ==
  /\ rpc = "updateSize"
  /\ sizeSum' = sizeSum + Len(queue)
  /\ rpc' = "updateSized"
  /\ UNCHANGED <<callFrame, poolVars, paused, monitorTrigger, loopVars>>

UpdateStaleness ==
  /\ InCall("updateSized")
  /\ staleness' = sizeSum
  /\ sizeSum' = 0
  /\ rpc' = "updateVal" /\ HoldAndYield
  /\ UNCHANGED <<rpcFrame, mqVars, proc, poolVars, paused, monitorTrigger, version>>

\* put_validate is answered; the call returns, and resume's argument is resolved.
UpdateEnd ==
  /\ InCall("updateVal")
  /\ MQ!PutValidate(rpcVersion)
  /\ rpc' = "resumeCall" /\ ReleaseAndYield
  /\ UNCHANGED <<rpcFrame, proc, poolVars, paused, monitorTrigger, staleness, version, sizeSum>>

\* resume(): the servers first, if partial_rollout.
ResumeBegin ==
  /\ PartialRollout
  /\ InCall("resumeLock")
  /\ rpc' = "resumeServers" /\ HoldAndYield
  /\ UNCHANGED <<callFrame, poolVars, paused, monitorTrigger, sizeSum>>

ResumeEnd ==
  /\ IF PartialRollout THEN InCall("resumeServers") /\ ~serversPaused
                       ELSE InCall("resumeLock")
  /\ paused' = FALSE
  /\ monitorTrigger' = TRUE
  /\ Notify
  /\ rpc' = "none" /\ ReleaseAndYield
  /\ UNCHANGED <<rpcFrame, mqVars, poolVars, staleness, version, sizeSum>>

-----------------------------------------------------------------------------
RollouterInit ==
  /\ MQ!MQInit
  /\ pending = << >> /\ fed = 0 /\ cancelQ = << >>
  /\ task = [s \in Samples |-> "none"]
  /\ startVer = [s \in Samples |-> NoVersion] /\ doneVer = startVer
  /\ unreaped = 0 /\ broken = FALSE
  /\ proc = "unborn" /\ why = "pause" /\ held = None /\ bound = FALSE
  /\ monitor = "unborn" /\ main = "unborn"
  /\ rpc = "none" /\ rpcVersion = 0 /\ sizeSum = 0
  /\ paused = FALSE /\ running = TRUE /\ monitorTrigger = TRUE
  /\ staleness = 0 /\ version = 0
  /\ lockQ = << >> /\ cpu = "free"
  /\ serversPaused = FALSE /\ failures = 0

\* Steps of the rollouter's own event loop.
LoopStep ==
  \/ FeedSamples
  \/ ProcessorStep
  \/ \E s \in Samples : TaskStep(s)
  \/ MonitorStart \/ MonitorCheck \/ MonitorWake \/ MonitorLift
  \/ AskStop \/ StopRunning
  \/ CallArrives \/ PauseBegin \/ PauseCancelled \/ PauseGathered \/ PauseEnd
  \/ UpdateBegin \/ UpdateStaleness \/ UpdateEnd \/ ResumeBegin \/ ResumeEnd

\* Steps other actors take on its requests.
RemoteStep ==
  \/ \E s \in Samples :
       \/ QueueSample(s) \/ AcceptRequest(s) \/ CompleteRequest(s)
       \/ InterruptRequest(s) \/ FailRequest(s)
  \/ PutEnd \/ UpdateSize \/ PauseServers \/ ResumeServers

RollouterStep == LoopStep \/ RemoteStep

-----------------------------------------------------------------------------
SampleEntries == [id : Samples, start : Nat \cup {NoVersion}, ver : Nat \cup {NoVersion}]
QueueEntries == SampleEntries \cup {End}
Coroutines == {"processor", "monitor", "main", "rpc"}
TaskStates == {"none", "new", "request", "generating", "generated", "cancelled", "error",
               "put", "acked"}
ProcStates == {"unborn", "top", "getWait", "pauseLock", "reap", "reapLock", "reapWait",
               "idleLock", "idleCond", "idleWoken", "submitLock", "submitCond",
               "submitWoken", "finished", "crashed"}
RpcStates == {"none", "pauseCall", "pauseLock", "pauseCancel", "pauseGather", "pauseClear",
              "paused", "updateCall", "updateLock", "updateSize", "updateSized",
              "updateVal", "resumeCall", "resumeLock", "resumeServers"}

QueueTypeOK ==
  /\ queue \in Seq(QueueEntries) /\ valQueue \in Seq(Nat)
  /\ mqVersion \in Nat /\ mqRunning \in BOOLEAN
  /\ produced \in Nat /\ consumed \in Nat /\ dropped \in Nat
  /\ waiting \subseteq {"trainer"}

WorkTypeOK ==
  /\ pending \in Seq(1..Done) /\ fed \in 0..Done
  /\ cancelQ \in Seq(Samples)
  /\ task \in [Samples -> TaskStates]
  /\ startVer \in [Samples -> Nat \cup {NoVersion}]
  /\ doneVer \in [Samples -> Nat \cup {NoVersion}]
  /\ unreaped \in Nat /\ broken \in BOOLEAN
  /\ serversPaused \in BOOLEAN /\ failures \in 0..MaxFailures

LoopTypeOK ==
  /\ proc \in ProcStates /\ why \in {"pause", "cap", "done"}
  /\ held \in Samples \cup {None} /\ bound \in BOOLEAN
  /\ monitor \in {"unborn", "start", "checkLock", "sleep", "liftLock", "done"}
  /\ main \in {"unborn", "wait", "acked", "stopLock", "done"}
  /\ rpc \in RpcStates /\ rpcVersion \in Nat /\ sizeSum \in Nat
  /\ paused \in BOOLEAN /\ running \in BOOLEAN /\ monitorTrigger \in BOOLEAN
  /\ staleness \in Nat /\ version \in Nat
  /\ lockQ \in Seq(Coroutines) /\ cpu \in Coroutines \cup {"free"}

RollouterTypeOK == QueueTypeOK /\ WorkTypeOK /\ LoopTypeOK

\* The two places that replace active_tasks after an await -- the processor's drain
\* loops and pause()'s gather -- never overlap, though both read it before the await.
DrainsExclusive ==
  ~ (proc = "reapWait" /\ rpc \in {"pauseCancel", "pauseGather", "pauseClear"})
=============================================================================
