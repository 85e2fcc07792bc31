----------------------------- MODULE FullyAsync -----------------------------
(***************************************************************************)
(* The fully asynchronous trainer: FullyAsyncTrainer                       *)
(* (fully_async_trainer.py), ParameterSynchronizer (param_sync.py) and the *)
(* task runner that starts them (fully_async_main.py), composed with the   *)
(* rollouter and the message queue.                                        *)
(***************************************************************************)
EXTENDS Rollouter

CONSTANT TestFreq   \* rollout.test_freq

ASSUME TestFreqAssumption == TestFreq \in Nat \ {0}

VARIABLES
  trainer,         \* where the trainer is
  batch,           \* queue_samples, the batch being collected
  localStep,       \* local_trigger_step
  trainVersion,    \* the trainer's current_param_version
  sync,            \* what the synchronizer is doing
  trained          \* sample numbers trained on so far

trainVars == <<batch, localStep, trainVersion, trained>>
rolloutVars == <<feedVars, cancelQ, taskVars, poolVars, procVars, monitor, main, flagVars,
                 staleness, version, loopVars>>
vars == <<mqVars, rolloutVars, rpcVars, trainer, trainVars, sync>>

Init ==
  /\ RollouterInit
  /\ trainer = "load" /\ batch = << >> /\ localStep = 1 /\ trainVersion = 0
  /\ sync = "idle" /\ trained = {}

-----------------------------------------------------------------------------
(* Synchronizer.  wait_last_valid returns when the last update and resume  *)
(* calls have; sync_weights returns when it has sent the next two.         *)

LastSyncOver == sync = "idle" /\ rpc = "none"

\* sync_weights(v) begins: the version is noted and pause() called.
SyncBegin(v) ==
  /\ sync' = "pausing"
  /\ rpc' = "pauseCall" /\ rpcVersion' = v
  /\ UNCHANGED sizeSum

SyncAnnounce ==
  /\ sync = "pausing" /\ rpc = "paused"
  /\ MQ!UpdateMqVersion(rpcVersion)
  /\ sync' = "transfer"
  /\ UNCHANGED <<rolloutVars, rpcVars, trainer, trainVars>>

\* The weights have arrived; update_param_version and resume are sent, not awaited.
SyncEnd ==
  /\ sync = "transfer"
  /\ sync' = "idle"
  /\ rpc' = "updateCall"
  /\ \/ trainer = "load" /\ trainer' = "loaded"
     \/ trainer = "sync" /\ trainer' = "log"
     \/ trainer = "finalSync" /\ trainer' = "finalWait"
  /\ UNCHANGED <<mqVars, rolloutVars, rpcVersion, sizeSum, trainVars>>

-----------------------------------------------------------------------------
(* Task runner and trainer.                                                *)

\* _initialize_components: the first weights go out before anything runs.
Load ==
  /\ trainer = "load" /\ LastSyncOver
  /\ SyncBegin(trainVersion)
  /\ UNCHANGED <<mqVars, rolloutVars, trainer, trainVars>>

\* _run_training_loop starts both fits; the rollouter's is StartFit.
Launch ==
  /\ trainer = "loaded" /\ LastSyncOver
  /\ StartFit
  /\ trainer' = "log"
  /\ UNCHANGED <<trainVars, sync>>

ValidationKept == UNCHANGED mqVars         \* mutant: the result stays in the queue
TakeValidation == MQ!GetValidate

\* _log_validation_data takes at most one validation result.
LogValidation ==
  /\ trainer = "log"
  /\ TakeValidation
  /\ trainer' = "get"
  /\ UNCHANGED <<rolloutVars, rpcVars, trainVars, sync>>

AwaitSamples ==
  /\ trainer = "get"
  /\ MQ!AwaitSample("trainer")
  /\ UNCHANGED <<rolloutVars, rpcVars, trainer, trainVars, sync>>

\* _get_samples_from_queue: the None ends the loop and discards a short batch.
CollectSample ==
  /\ trainer = "get"
  /\ MQ!GetSample("trainer")
  /\ IF MQ!PopLeft(queue).item = End
     THEN batch' = << >> /\ trainer' = "final"
     ELSE /\ batch' = Append(batch, MQ!PopLeft(queue).item)
          /\ trainer' = IF Len(batch) + 1 = Required THEN "train" ELSE "get"
  /\ UNCHANGED <<rolloutVars, rpcVars, localStep, trainVersion, trained, sync>>

BatchIds == {batch[i].id : i \in 1..Len(batch)}

\* A training step, and _trigger_parameter_sync_after_step up to its first wait.
TrainStep ==
  /\ trainer = "train"
  /\ trained' = trained \cup BatchIds
  /\ batch' = << >>
  /\ IF localStep < Trigger
     THEN localStep' = localStep + 1 /\ trainer' = "log" /\ UNCHANGED trainVersion
     ELSE localStep' = 1 /\ trainer' = "waitLast" /\ trainVersion' = trainVersion + 1
  /\ UNCHANGED <<mqVars, rolloutVars, rpcVars, sync>>

\* wait_last_valid, then sync_weights.
StartSync ==
  /\ trainer = "waitLast" /\ LastSyncOver
  /\ SyncBegin(trainVersion)
  /\ trainer' = "sync"
  /\ UNCHANGED <<mqVars, rolloutVars, trainVars>>

\* After the loop: one more synchronization when the last version was not
\* validated or training went on after it.
FinishTraining ==
  /\ trainer = "final" /\ LastSyncOver
  /\ TakeValidation
  /\ IF trainVersion % TestFreq # 0 \/ localStep > 1
     THEN /\ trainVersion' = trainVersion + 1 /\ localStep' = 1
          /\ SyncBegin(trainVersion')
          /\ trainer' = "finalSync"
     ELSE trainer' = "done" /\ UNCHANGED <<trainVersion, localStep, sync, rpcVars>>
  /\ UNCHANGED <<rolloutVars, batch, trained>>

FinishValidation ==
  /\ trainer = "finalWait" /\ LastSyncOver
  /\ TakeValidation
  /\ trainer' = "done"
  /\ UNCHANGED <<rolloutVars, rpcVars, trainVars, sync>>

RolloutDone == main = "done" /\ monitor = "done"

\* Both futures are done: the queue is cleared and the run is over.
ClearAtEnd ==
  /\ trainer = "done" /\ RolloutDone
  /\ MQ!ClearQueue
  /\ trainer' = "cleared"
  /\ UNCHANGED <<rolloutVars, rpcVars, trainVars, sync>>

Over == trainer = "cleared" /\ UNCHANGED vars

TrainerStep ==
  \/ Load \/ Launch \/ LogValidation \/ AwaitSamples \/ CollectSample \/ TrainStep
  \/ StartSync \/ FinishTraining \/ FinishValidation \/ ClearAtEnd

SyncStep == SyncAnnounce \/ SyncEnd

Next ==
  \/ RollouterStep /\ UNCHANGED <<trainer, trainVars, sync>>
  \/ TrainerStep
  \/ SyncStep
  \/ Over

\* The event loop is first-in first-out, so a coroutine that is ready again and
\* again runs (SF); remote actors and the trainer just run (WF).
RpcStep ==
  \/ CallArrives \/ PauseBegin \/ PauseCancelled \/ PauseGathered \/ PauseEnd
  \/ UpdateBegin \/ UpdateStaleness \/ UpdateEnd \/ ResumeBegin \/ ResumeEnd
MonitorStep == MonitorStart \/ MonitorCheck \/ MonitorWake \/ MonitorLift
ServiceStep(s) == AcceptRequest(s) \/ CompleteRequest(s) \/ InterruptRequest(s)

Aside(A) == A /\ UNCHANGED <<trainer, trainVars, sync>>

Fairness ==
  /\ SF_vars(Aside(FeedSamples))
  /\ SF_vars(Aside(ProcessorStep))
  /\ \A s \in Samples : /\ SF_vars(Aside(TaskStep(s)))
                        /\ WF_vars(Aside(ServiceStep(s) \/ QueueSample(s)))
  /\ SF_vars(Aside(MonitorStep))
  /\ SF_vars(Aside(AskStop \/ StopRunning))
  /\ SF_vars(Aside(RpcStep))
  /\ WF_vars(Aside(PutEnd \/ UpdateSize \/ PauseServers \/ ResumeServers))
  /\ WF_vars(TrainerStep)
  /\ WF_vars(SyncStep)

Spec == Init /\ [][Next]_vars
FairSpec == Spec /\ Fairness

-----------------------------------------------------------------------------
TypeOK ==
  /\ RollouterTypeOK
  /\ trainer \in {"load", "loaded", "log", "get", "train", "waitLast", "sync", "final",
                  "finalSync", "finalWait", "done", "cleared"}
  /\ batch \in Seq(SampleEntries)
  /\ localStep \in 1..Trigger /\ trainVersion \in Nat
  /\ sync \in {"idle", "pausing", "transfer"}
  /\ trained \subseteq Samples

InFlight == {s \in Samples : task[s] \notin {"none", "acked"}}
Count(q, s) == Cardinality({i \in DOMAIN q : q[i] = s})
Ids(q) == [i \in DOMAIN q |-> q[i].id]
One(b) == IF b THEN 1 ELSE 0

\* A sample is at most in one place of the system at a time, and is trained on at
\* most once, whatever is interrupted, requeued, resubmitted or dropped on the way.
NoDuplication ==
  \A s \in Samples :
    Count(pending, s) + One(held = s) + Count(cancelQ, s) + One(s \in InFlight)
      + Count(Ids(queue), s) + Count(Ids(batch), s) + One(s \in trained) <= 1

\* Samples generated, being generated, or interrupted, that the trainer has not
\* taken; Outstanding adds the one the processor is about to submit.
Generated ==
  Cardinality(InFlight) + Len(cancelQ) + Cardinality({i \in DOMAIN queue : queue[i] # End})
Outstanding == Generated + One(held # None)

\* What the thresholds are for (README: between two updates the rollouter generates
\* at most rollout_num samples, the stale ones deducted): never more than
\* max_required_samples outstanding, but for the one sample the processor holds while
\* update_param_version counts the others.
BudgetPlusOne == Outstanding <= MaxRequired + 1

\* With staleness_threshold = 0 training is synchronous: each sample is trained on by
\* the version that generated it from its first token to its last.
OnPolicy ==
  \A i \in DOMAIN batch : batch[i].start = trainVersion /\ batch[i].ver = trainVersion

\* Without partial rollout, no sample was started more than two plus
\* staleness_threshold, rounded up, versions before the one that trains on it.
StalenessBound ==
  \A i \in DOMAIN batch :
     trainVersion - batch[i].start
       <= 2 + ((StaleAllowance + Required * Trigger - 1) \div (Required * Trigger))

\* No weights are replaced under a running generation.
PauseHolds ==
  sync = "transfer" => \A s \in Samples : task[s] # "generating"

\* From the moment pause() returns to resume(), the pause is lifted at most once, and
\* by no one but a monitor that had decided to before pause() switched its trigger off.
SyncWindow == {"paused", "updateCall", "updateLock", "updateSize", "updateSized",
               "updateVal", "resumeCall", "resumeLock", "resumeServers"}
LiftStale ==
  rpc \in SyncWindow /\ rpc' \in SyncWindow =>
    /\ (paused /\ ~paused' => monitor = "liftLock")
    /\ (monitor' = "liftLock" => monitor = "liftLock")
StaleLiftOnly == [][LiftStale]_vars

\* No sample is lost: on thresholds like this run's put_sample's "rarely happens" branch
\* drops none (with two stale samples allowed it can), and when training is over none is
\* in the queue behind the None that ended it, in a task, or among the interrupted ones.
\* With partial rollout it can be: after DONE the processor waits for active_tasks alone,
\* and a sample a pause interrupts meanwhile stays in cancel_queue.
NothingLeftBehind ==
  /\ dropped = 0
  /\ trainer = "done" => queue = << >> /\ Live = {} /\ cancelQ = << >>

\* Every validation result put by update_param_version is logged by the trainer.
ValidationLogged == trainer = "done" => valQueue = << >>

\* Unless a generation raises, the processor does not, if pending_queue has room for
\* more samples than may run at once: its done_tasks is then never read unassigned
\* after active_tasks was emptied behind its back.  With less room it can be.
ProcessorSurvives == MaxConcurrent < PendingCap /\ failures = 0 => proc # "crashed"

\* Training ends, under every order of pauses, resumes and monitor wakeups, and even
\* if a generation fails: no coroutine is left asleep, no one waits for a sample
\* that is not coming ("Trigger rollout recovery" is the monitor's second function).
Terminates == <>(trainer = "cleared")

\* The monitor has lifted the pause of a synchronization that is not over.
LiftedInSync == rpc \in SyncWindow /\ ~paused

\* It does end unless such a lift lets samples bounce off the paused servers while
\* update_param_version counts, finished tasks and interrupted samples alike.
TerminatesUndisturbed == []~LiftedInSync => Terminates
=============================================================================
