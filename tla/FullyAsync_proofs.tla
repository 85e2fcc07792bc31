------------------------- MODULE FullyAsync_proofs --------------------------
(***************************************************************************)
(* For every number of samples, threshold, capacity and number of failures *)
(* the composed system keeps its types, its two drains exclude each other, *)
(* no sample is in two places or trained on twice, no more than            *)
(* max_required_samples and one are outstanding, with partial rollout no   *)
(* weights change under a running generation, every validation result is   *)
(* logged, with no staleness allowed training is on-policy, with room in   *)
(* pending_queue the processor raises only if a generation does, and then, *)
(* without partial rollout, the run leaves no sample behind and trains on  *)
(* none that is more than a bounded number of versions old.                *)
(***************************************************************************)
EXTENDS FullyAsync, FiniteSetTheorems, TLAPS

-----------------------------------------------------------------------------
(* The lock.                                                               *)

\* Program counters at which the remote call suspends with the lock in its hands.
CallSuspendedInLock == {"pauseCancel", "pauseGather", "pauseClear", "updateSize",
                        "updateSized", "updateVal", "resumeServers"}

\* A coroutine that suspends inside "async with self.lock" is still its holder.
HolderInv ==
  /\ proc = "reapWait" => Holds("processor")
  /\ rpc \in CallSuspendedInLock => Holds("rpc")

\* Asking for the lock takes it from no one.
LEMMA AppendKeepsHolder ==
  ASSUME lockQ \in Seq(Coroutines), NEW c \in Coroutines, NEW d, Holds(d), Acquire(c)
  PROVE  Holds(d)'
BY DEF Holds, Acquire

\* Steps that touch neither the lock nor the two program counters.
LEMMA HolderQuiet ==
  ASSUME HolderInv, UNCHANGED <<lockQ, proc, rpc>>
  PROVE  HolderInv'
BY DEF HolderInv, Holds, CallSuspendedInLock

\* The processor takes, keeps or leaves the lock; the remote call cannot lose it.
LEMMA HolderProcessor ==
  ASSUME HolderInv, lockQ \in Seq(Coroutines), ProcessorStep
  PROVE  HolderInv'
PROOF
  <1> USE DEF HolderInv, CallSuspendedInLock
  <1>1. UNCHANGED rpc
    BY DEF ProcessorStep, SeePause, TakeCancelled, AwaitPending, TakePending, PauseSelf,
           TestDrain, EnterDrain, Reap, Idle, Submit, Wake, procFrame, aroundVars, rpcVars
  <1>2. "processor" \in Coroutines
    BY DEF Coroutines
  <1>3. CASE SeePause \/ TestDrain \/ Wake
    <2>1. proc' # "reapWait" /\ (Acquire("processor") \/ UNCHANGED lockQ)
      BY <1>3 DEF SeePause, TestDrain, Wake
    <2> QED BY <1>1, <1>2, <2>1, AppendKeepsHolder DEF Holds
  <1>4. CASE TakeCancelled \/ AwaitPending \/ TakePending
    <2>1. proc' # "reapWait" /\ UNCHANGED lockQ
      BY <1>4 DEF TakeCancelled, AwaitPending, TakePending
    <2> QED BY <1>1, <2>1 DEF Holds
  <1>5. CASE PauseSelf \/ EnterDrain \/ Reap \/ Idle \/ Submit
    <2>1. Holds("processor")
      BY <1>5 DEF PauseSelf, EnterDrain, Reap, Idle, Submit
    <2>2. rpc' \notin CallSuspendedInLock
      BY <1>1, <2>1 DEF Holds
    <2>3. proc' = "reapWait" => UNCHANGED lockQ
      BY <1>5 DEF PauseSelf, EnterDrain, Reap, Idle, Submit, HoldAndYield
    <2> QED BY <2>1, <2>2, <2>3 DEF Holds
  <1> QED BY <1>3, <1>4, <1>5 DEF ProcessorStep

\* The monitor and main hold the lock only while they run, so whoever suspends inside
\* it keeps it.
LEMMA HolderOthers ==
  ASSUME HolderInv, lockQ \in Seq(Coroutines),
         MonitorStart \/ MonitorCheck \/ MonitorWake \/ MonitorLift \/ AskStop \/ StopRunning
  PROVE  HolderInv'
PROOF
  <1> USE DEF HolderInv, CallSuspendedInLock
  <1>1. UNCHANGED rpc
    BY DEF MonitorStart, MonitorCheck, MonitorWake, MonitorLift, AskStop, StopRunning,
           monitorFrame, mainFrame, rpcVars
  <1>2. {"monitor", "main"} \subseteq Coroutines
    BY DEF Coroutines
  <1>3. CASE MonitorStart \/ MonitorWake \/ AskStop
    <2>1. UNCHANGED proc /\ (Acquire("monitor") \/ Acquire("main"))
      BY <1>3 DEF MonitorStart, MonitorWake, AskStop, mainFrame, procVars
    <2> QED BY <1>1, <1>2, <2>1, AppendKeepsHolder
  <1>4. CASE MonitorCheck \/ MonitorLift \/ StopRunning
    <2>1. Holds("monitor") \/ Holds("main")
      BY <1>4 DEF MonitorCheck, MonitorLift, StopRunning
    <2>2. proc # "reapWait" /\ rpc' \notin CallSuspendedInLock
      BY <1>1, <2>1 DEF Holds
    <2>3. proc' # "reapWait"
      BY <1>4, <2>2 DEF MonitorCheck, MonitorLift, StopRunning, Notify, Notified, mainFrame,
                        procVars
    <2> QED BY <2>2, <2>3
  <1> QED BY <1>3, <1>4

\* The remote call keeps the lock across its awaits and leaves it at its end.
LEMMA HolderCall ==
  ASSUME HolderInv, lockQ \in Seq(Coroutines), RpcStep
  PROVE  HolderInv'
PROOF
  <1> USE DEF HolderInv, CallSuspendedInLock
  <1>1. CASE CallArrives
    <2>1. UNCHANGED proc /\ rpc' \notin CallSuspendedInLock /\ Acquire("rpc")
      BY <1>1 DEF CallArrives, callFrame
    <2> QED BY <2>1, AppendKeepsHolder DEF Coroutines
  <1>2. CASE ~CallArrives
    <2>1. Holds("rpc")
      BY <1>2 DEF RpcStep, PauseBegin, PauseCancelled, PauseGathered, PauseEnd, UpdateBegin,
                  UpdateStaleness, UpdateEnd, ResumeBegin, ResumeEnd, InCall
    <2>2. UNCHANGED proc \/ proc' = Notified
      BY <1>2 DEF RpcStep, PauseBegin, PauseCancelled, PauseGathered, PauseEnd, UpdateBegin,
                  UpdateStaleness, UpdateEnd, ResumeBegin, ResumeEnd, callFrame, Notify
    <2>4. rpc' \in CallSuspendedInLock => UNCHANGED lockQ
      BY <1>2 DEF RpcStep, PauseBegin, PauseCancelled, PauseGathered, PauseEnd, UpdateBegin,
                  UpdateStaleness, UpdateEnd, ResumeBegin, ResumeEnd, HoldAndYield,
                  ReleaseAndYield
    <2>5. proc' # "reapWait"
      BY <2>1, <2>2 DEF Holds, Notified
    <2> QED BY <2>1, <2>4, <2>5 DEF Holds
  <1> QED BY <1>1, <1>2

\* The feeder, the tasks, the other actors, the trainer and the synchronizer do not
\* touch the lock.  StartFit creates the processor; the synchronizer moves the remote
\* call only from one call to the next.
LEMMA HolderRest ==
  ASSUME HolderInv,
         \/ FeedSamples \/ RemoteStep \/ \E s \in Samples : TaskStep(s)
         \/ TrainerStep \/ SyncStep \/ UNCHANGED vars
  PROVE  HolderInv'
PROOF
  <1>1. CASE FeedSamples \/ UNCHANGED vars
    <2>1. UNCHANGED <<lockQ, proc, rpc>>
      BY <1>1 DEF FeedSamples, vars, rolloutVars, procVars, aroundVars, rpcVars, loopVars
    <2> QED BY <2>1, HolderQuiet
  <1>2. CASE \E s \in Samples : TaskStep(s)
    <2>1. UNCHANGED <<lockQ, proc, rpc>>
      BY <1>2 DEF TaskStep, StartTask, SendSample, FinishTask, RequeueSample, RaiseTask,
                  taskFrame, procVars, aroundVars, rpcVars, loopVars
    <2> QED BY <2>1, HolderQuiet
  <1>3. CASE RemoteStep
    <2>1. CASE UpdateSize
      BY <2>1 DEF UpdateSize, callFrame, loopVars, HolderInv, Holds, CallSuspendedInLock
    <2>2. CASE ~UpdateSize
      <3>1. UNCHANGED <<lockQ, proc, rpc>>
        BY <1>3, <2>2
           DEF RemoteStep, QueueSample, AcceptRequest, CompleteRequest, InterruptRequest,
               FailRequest, PutEnd, PauseServers, ResumeServers, serviceFrame, mainFrame,
               taskFrame, procVars, aroundVars, rpcVars, loopVars
      <3> QED BY <3>1, HolderQuiet
    <2> QED BY <2>1, <2>2
  <1>4. CASE TrainerStep \/ SyncStep
    <2>1. UNCHANGED lockQ
      BY <1>4 DEF TrainerStep, SyncStep, Load, Launch, LogValidation, AwaitSamples,
                  CollectSample, TrainStep, StartSync, FinishTraining, FinishValidation,
                  ClearAtEnd, SyncAnnounce, SyncEnd, StartFit, rolloutVars, loopVars
    <2>2. UNCHANGED proc \/ proc' = "top"
      BY <1>4 DEF TrainerStep, SyncStep, Load, Launch, LogValidation, AwaitSamples,
                  CollectSample, TrainStep, StartSync, FinishTraining, FinishValidation,
                  ClearAtEnd, SyncAnnounce, SyncEnd, StartFit, rolloutVars, procVars
    <2>3. UNCHANGED rpc \/ rpc' \in {"pauseCall", "updateCall"}
      BY <1>4 DEF TrainerStep, SyncStep, Load, Launch, LogValidation, AwaitSamples,
                  CollectSample, TrainStep, StartSync, FinishTraining, FinishValidation,
                  ClearAtEnd, SyncAnnounce, SyncEnd, StartFit, SyncBegin, rpcVars
    <2> QED BY <2>1, <2>2, <2>3 DEF HolderInv, Holds, CallSuspendedInLock
  <1> QED BY <1>1, <1>2, <1>3, <1>4

LEMMA HolderNext ==
  ASSUME HolderInv, TypeOK, [Next]_vars
  PROVE  HolderInv'
PROOF
  <1>1. lockQ \in Seq(Coroutines)
    BY DEF TypeOK, RollouterTypeOK, LoopTypeOK
  <1>2. CASE RollouterStep
    BY <1>1, <1>2, HolderProcessor, HolderOthers, HolderCall, HolderRest
       DEF RollouterStep, LoopStep, RpcStep
  <1>3. CASE TrainerStep \/ SyncStep \/ Over \/ UNCHANGED vars
    BY <1>3, HolderRest DEF Over
  <1> QED BY <1>2, <1>3 DEF Next

-----------------------------------------------------------------------------
(* The pause, with partial rollout.                                        *)

\* From its gather to its end pause() finds the servers paused; once it has gathered,
\* no generation runs; and the synchronizer transfers weights only while the call
\* that paused the rollouter is the last one made.
PauseInv ==
  /\ sync = "transfer" => rpc = "paused"
  /\ rpc \in {"pauseGather", "pauseClear", "paused"} => serversPaused
  /\ rpc \in {"pauseClear", "paused"} => \A s \in Samples : task[s] # "generating"

\* Steps that leave the call, the synchronizer and the servers' flag alone: a
\* generation starts only through AcceptRequest, on a server that is not paused.
LEMMA PauseTasks ==
  ASSUME PauseInv, UNCHANGED <<sync, rpc, serversPaused>>,
         \A s \in Samples : task'[s] = "generating" => task[s] = "generating" \/ ~serversPaused
  PROVE  PauseInv'
BY DEF PauseInv

\* One step of a sample's task or of its request.
LEMMA PauseSampleStep ==
  ASSUME PauseInv, task \in [Samples -> TaskStates], UNCHANGED sync, NEW s \in Samples,
         \/ TaskStep(s) \/ QueueSample(s) \/ AcceptRequest(s)
         \/ CompleteRequest(s) \/ InterruptRequest(s) \/ FailRequest(s)
  PROVE  PauseInv'
PROOF
  <1>1. UNCHANGED <<rpc, serversPaused>>
    BY DEF TaskStep, StartTask, SendSample, FinishTask, RequeueSample, RaiseTask, QueueSample,
           AcceptRequest, CompleteRequest, InterruptRequest, FailRequest, serviceFrame,
           taskFrame, aroundVars, rpcVars
  <1>2. \E v \in TaskStates : /\ task' = [task EXCEPT ![s] = v]
                              /\ v = "generating" => ~serversPaused
    BY DEF TaskStep, StartTask, SendSample, FinishTask, RequeueSample, RaiseTask, QueueSample,
           EndTask, AcceptRequest, CompleteRequest, InterruptRequest, FailRequest, Bounces,
           TaskStates
  <1> QED BY <1>1, <1>2, PauseTasks

\* The remote call and the servers' answers to it.
LEMMA PauseCall ==
  ASSUME PartialRollout, PauseInv, task \in [Samples -> TaskStates], UNCHANGED sync,
         RpcStep \/ UpdateSize \/ PauseServers \/ ResumeServers
  PROVE  PauseInv'
PROOF
  <1>1. CASE PauseServers \/ ResumeServers
    <2>1. UNCHANGED <<task, rpc>> /\ rpc \in {"pauseCancel", "resumeServers"}
      BY <1>1 DEF PauseServers, ResumeServers, serviceFrame, taskFrame, aroundVars, rpcVars
    <2> QED BY <2>1 DEF PauseInv
  <1>2. CASE RpcStep \/ UpdateSize
    <2>1. UNCHANGED <<task, serversPaused>>
      BY <1>2 DEF RpcStep, CallArrives, PauseBegin, PauseCancelled, PauseGathered, PauseEnd,
                  UpdateBegin, UpdateSize, UpdateStaleness, UpdateEnd, ResumeBegin, ResumeEnd,
                  callFrame, rpcFrame, taskVars
    <2>2. rpc # "paused"
      BY <1>2 DEF RpcStep, CallArrives, PauseBegin, PauseCancelled, PauseGathered, PauseEnd,
                  UpdateBegin, UpdateSize, UpdateStaleness, UpdateEnd, ResumeBegin, ResumeEnd,
                  InCall
    <2>3. CASE PauseCancelled
      BY <2>1, <2>2, <2>3 DEF PauseCancelled, PauseInv
    <2>4. CASE PauseGathered
      <3>1. \A s \in Samples : task[s] # "generating"
        BY <2>4 DEF PauseGathered, Live
      <3> QED BY <2>1, <2>2, <2>4, <3>1 DEF PauseGathered, InCall, PauseInv
    <2>5. CASE PauseEnd
      BY <2>1, <2>2, <2>5 DEF PauseEnd, InCall, PauseInv
    <2>6. CASE ~PauseCancelled /\ ~PauseGathered /\ ~PauseEnd
      <3>1. rpc' \notin {"pauseGather", "pauseClear", "paused"}
        BY <1>2, <2>6 DEF RpcStep, CallArrives, PauseBegin, UpdateBegin, UpdateSize,
                          UpdateStaleness, UpdateEnd, ResumeBegin, ResumeEnd
      <3> QED BY <2>2, <3>1 DEF PauseInv
    <2> QED BY <2>3, <2>4, <2>5, <2>6
  <1> QED BY <1>1, <1>2

\* The other coroutines submit samples but start no generation.
LEMMA PauseOthers ==
  ASSUME PauseInv, task \in [Samples -> TaskStates], UNCHANGED sync,
         \/ FeedSamples \/ ProcessorStep \/ MonitorStart \/ MonitorCheck \/ MonitorWake
         \/ MonitorLift \/ AskStop \/ StopRunning \/ PutEnd
  PROVE  PauseInv'
PROOF
  <1>1. UNCHANGED <<rpc, serversPaused>>
    BY DEF FeedSamples, ProcessorStep, SeePause, TakeCancelled, AwaitPending, TakePending,
           PauseSelf, TestDrain, EnterDrain, Reap, Idle, Submit, Wake, MonitorStart,
           MonitorCheck, MonitorWake, MonitorLift, AskStop, StopRunning, PutEnd,
           procFrame, monitorFrame, mainFrame, aroundVars, rpcVars, taskVars
  <1>2. UNCHANGED task \/ task' = [task EXCEPT ![held] = "new"]
    BY DEF FeedSamples, ProcessorStep, SeePause, TakeCancelled, AwaitPending, TakePending,
           PauseSelf, TestDrain, EnterDrain, Reap, Idle, Submit, Wake, MonitorStart,
           MonitorCheck, MonitorWake, MonitorLift, AskStop, StopRunning, PutEnd,
           procFrame, monitorFrame, mainFrame, taskVars
  <1> QED BY <1>1, <1>2, PauseTasks

\* The synchronizer asks for a pause only when no call is in progress and transfers
\* only when pause() has returned.
LEMMA PauseTrainer ==
  ASSUME PauseInv, TrainerStep \/ SyncStep \/ UNCHANGED vars
  PROVE  PauseInv'
PROOF
  <1>1. UNCHANGED <<task, serversPaused>>
    BY DEF TrainerStep, SyncStep, Load, Launch, LogValidation, AwaitSamples, CollectSample,
           TrainStep, StartSync, FinishTraining, FinishValidation, ClearAtEnd, SyncAnnounce,
           SyncEnd, StartFit, vars, rolloutVars, taskVars
  <1>2. CASE SyncAnnounce
    BY <1>1, <1>2 DEF SyncAnnounce, rpcVars, PauseInv
  <1>3. CASE SyncEnd
    BY <1>1, <1>3 DEF SyncEnd, PauseInv
  <1>4. CASE TrainerStep \/ UNCHANGED vars
    <2>1. \/ UNCHANGED <<sync, rpc>>
          \/ sync' = "pausing" /\ rpc' = "pauseCall"
      BY <1>4 DEF TrainerStep, Load, Launch, LogValidation, AwaitSamples, CollectSample,
                  TrainStep, StartSync, FinishTraining, FinishValidation, ClearAtEnd,
                  SyncBegin, StartFit, vars, rpcVars
    <2> QED BY <1>1, <2>1 DEF PauseInv
  <1> QED BY <1>2, <1>3, <1>4 DEF SyncStep

LEMMA PauseNext ==
  ASSUME PartialRollout, PauseInv, TypeOK, [Next]_vars
  PROVE  PauseInv'
PROOF
  <1>1. task \in [Samples -> TaskStates]
    BY DEF TypeOK, RollouterTypeOK, WorkTypeOK
  <1>2. CASE RollouterStep /\ UNCHANGED sync
    BY <1>1, <1>2, PauseSampleStep, PauseCall, PauseOthers
       DEF RollouterStep, LoopStep, RemoteStep, RpcStep
  <1>3. CASE TrainerStep \/ SyncStep \/ Over \/ UNCHANGED vars
    BY <1>3, PauseTrainer DEF Over
  <1> QED BY <1>2, <1>3 DEF Next

-----------------------------------------------------------------------------
(* Types.                                                                  *)

\* The head and the tail of a non-empty sequence; what append() makes of one.
LEMMA TailType ==
  ASSUME NEW S, NEW q \in Seq(S), q # << >>
  PROVE  Head(q) \in S /\ Tail(q) \in Seq(S)
OBVIOUS

LEMMA AppendType ==
  ASSUME NEW S, NEW q \in Seq(S), NEW e \in S
  PROVE  Append(q, e) \in Seq(S)
OBVIOUS

LockTypeOK == lockQ \in Seq(Coroutines) /\ cpu \in Coroutines \cup {"free"}

\* Every operation on the lock keeps a queue of coroutines.
LEMMA LockTypes ==
  ASSUME LockTypeOK, NEW c \in Coroutines,
         \/ Acquire(c)
         \/ Holds(c) /\ \/ ReleaseAndYield \/ ReleaseAndRun(c) \/ ReleaseAndAcquire(c)
                        \/ HoldAndYield
         \/ cpu' \in {c, "free"} /\ UNCHANGED lockQ
         \/ UNCHANGED loopVars
  PROVE  LockTypeOK'
PROOF
  <1>1. lockQ \in Seq(Coroutines) /\ Append(lockQ, c) \in Seq(Coroutines)
    BY DEF LockTypeOK
  <1>2. CASE Holds(c)
    <2>1. Tail(lockQ) \in Seq(Coroutines)
      BY <1>1, <1>2 DEF Holds
    <2>2. Append(Tail(lockQ), c) \in Seq(Coroutines)
      BY <2>1
    <2> QED BY <1>1, <2>1, <2>2
            DEF LockTypeOK, Acquire, ReleaseAndYield, ReleaseAndRun, ReleaseAndAcquire,
                HoldAndYield, loopVars
  <1>3. CASE ~Holds(c)
    BY <1>1, <1>3 DEF LockTypeOK, Acquire, loopVars
  <1> QED BY <1>2, <1>3

\* len(active_tasks) is a number: there are finitely many samples.
LEMMA ActiveTasksType ==
  ASSUME unreaped \in Nat, RolloutAssumption
  PROVE  ActiveTasks \in Nat
PROOF
  <1>1. IsFiniteSet(Samples)
    BY FS_Interval DEF RolloutAssumption, Samples
  <1>2. Cardinality(Live) \in Nat
    BY <1>1, FS_Subset, FS_CardinalityType DEF Live
  <1> QED BY <1>2 DEF ActiveTasks

\* The capacity is a positive number.
LEMMA MaxRequiredType == MaxRequired \in Nat \ {0}
  BY RolloutAssumption DEF RolloutAssumption, MaxRequired

\* What put_sample and get_sample do to the types of the queue.
LEMMA QueuePut ==
  ASSUME QueueTypeOK, NEW e \in QueueEntries, MQ!PutSample(e)
  PROVE  QueueTypeOK'
PROOF
  <1>1. MQ!QueueFull => queue # << >>
    BY MaxRequiredType DEF MQ!QueueFull, QueueTypeOK
  <1>2. queue' \in Seq(QueueEntries)
    <2>1. CASE MQ!QueueFull
      <3>1. Tail(queue) \in Seq(QueueEntries)
        BY <1>1, <2>1 DEF QueueTypeOK
      <3> QED BY <2>1, <3>1 DEF MQ!PutSample, MQ!PopLeft
    <2>2. CASE ~MQ!QueueFull
      BY <2>2 DEF MQ!PutSample, QueueTypeOK
    <2> QED BY <2>1, <2>2
  <1>3. dropped' \in Nat
    BY DEF MQ!PutSample, QueueTypeOK
  <1> QED BY <1>2, <1>3 DEF MQ!PutSample, MQ!NotifyAll, QueueTypeOK

LEMMA QueueGet ==
  ASSUME QueueTypeOK, NEW c, MQ!GetSample(c)
  PROVE  QueueTypeOK' /\ MQ!PopLeft(queue).item \in QueueEntries
PROOF
  <1>1. Tail(queue) \in Seq(QueueEntries) /\ Head(queue) \in QueueEntries
    BY DEF QueueTypeOK, MQ!GetSample
  <1> QED BY <1>1 DEF QueueTypeOK, MQ!GetSample, MQ!PopLeft

LEMMA QueueKept == ASSUME QueueTypeOK, UNCHANGED mqVars PROVE QueueTypeOK'
  BY DEF QueueTypeOK, mqVars

\* The feeder puts the sample numbers, and Done, that fit.
LEMMA TypesFeed ==
  ASSUME RollouterTypeOK, FeedSamples
  PROVE  RollouterTypeOK'
PROOF
  <1>1. N \in Nat \ {0} /\ PendingCap \in Nat \ {0}
    BY RolloutAssumption DEF RolloutAssumption
  <1>2. /\ Done \in Nat /\ fed \in 0..Done /\ Len(pending) \in Nat
        /\ fed < Done /\ Len(pending) < PendingCap
    BY <1>1 DEF RollouterTypeOK, WorkTypeOK, FeedSamples, Done
  <1>3. FeedCount \in Nat /\ fed + FeedCount \in 0..Done
    BY <1>1, <1>2 DEF FeedCount
  <1>4. [i \in 1..FeedCount |-> fed + i] \in Seq(1..Done)
    BY <1>2, <1>3
  <1>5. pending' \in Seq(1..Done)
    BY <1>4 DEF FeedSamples, RollouterTypeOK, WorkTypeOK
  <1>6. WorkTypeOK'
    BY <1>3, <1>5 DEF FeedSamples, RollouterTypeOK, WorkTypeOK, taskVars, poolVars
  <1>7. LoopTypeOK'
    BY DEF FeedSamples, RollouterTypeOK, LoopTypeOK, procVars, aroundVars, flagVars, rpcVars,
           loopVars
  <1> QED BY <1>6, <1>7, QueueKept DEF RollouterTypeOK, FeedSamples

\* The processor.  After its wait it releases a lock it still has: HolderInv.
LEMMA TypesProcessor ==
  ASSUME RollouterTypeOK, HolderInv, ProcessorStep
  PROVE  RollouterTypeOK'
PROOF
  <1> USE DEF RollouterTypeOK
  <1>1. LockTypeOK'
    <2>1. LockTypeOK /\ "processor" \in Coroutines
      BY DEF LockTypeOK, LoopTypeOK, Coroutines
    <2>2. \/ Acquire("processor")
          \/ Holds("processor") /\ \/ ReleaseAndYield \/ ReleaseAndRun("processor")
                                   \/ HoldAndYield
          \/ cpu' \in {"processor", "free"} /\ UNCHANGED lockQ
      <3>1. CASE SeePause \/ TestDrain \/ Wake
        BY <3>1 DEF SeePause, TestDrain, Wake
      <3>2. CASE TakeCancelled \/ AwaitPending \/ TakePending
        BY <3>2 DEF TakeCancelled, AwaitPending, TakePending
      <3>3. CASE PauseSelf \/ EnterDrain \/ Reap \/ Idle \/ Submit
        BY <3>3 DEF PauseSelf, EnterDrain, Reap, Idle, Submit, HolderInv
      <3> QED BY <3>1, <3>2, <3>3 DEF ProcessorStep
    <2> QED BY <2>1, <2>2, LockTypes
  <1>2. QueueTypeOK'
    BY QueueKept DEF ProcessorStep, SeePause, TakeCancelled, AwaitPending, TakePending,
           PauseSelf, TestDrain, EnterDrain, Reap, Idle, Submit, Wake, procFrame
  <1>3. CASE TakeCancelled
    <2>1. Tail(cancelQ) \in Seq(Samples) /\ Head(cancelQ) \in Samples
      BY <1>3, TailType DEF TakeCancelled, WorkTypeOK
    <2>2. WorkTypeOK'
      BY <1>3, <2>1 DEF TakeCancelled, CancelledRest, WorkTypeOK, feedVars, taskVars, poolVars
    <2>3. LoopTypeOK'
      BY <1>1, <1>3, <2>1
         DEF TakeCancelled, LoopTypeOK, LockTypeOK, ProcStates, aroundVars, rpcVars, flagVars
    <2> QED BY <1>2, <2>2, <2>3
  <1>4. CASE TakePending
    <2>1. Tail(pending) \in Seq(1..Done) /\ Head(pending) \in 1..Done
      BY <1>4, TailType DEF TakePending, WorkTypeOK
    <2>2. Head(pending) # Done => Head(pending) \in Samples
      BY <2>1, RolloutAssumption DEF Samples, Done, RolloutAssumption
    <2>3. staleness' \in Nat
      BY <1>4 DEF TakePending, LoopTypeOK
    <2>4. held' \in Samples \cup {None}
      BY <1>4, <2>2 DEF TakePending, LoopTypeOK
    <2> QED BY <1>1, <1>2, <1>4, <2>1, <2>3, <2>4
            DEF TakePending, WorkTypeOK, LoopTypeOK, LockTypeOK, ProcStates, taskVars,
                poolVars, rpcVars, flagVars
  <1>5. CASE Submit
    <2>1. task' \in [Samples -> TaskStates]
      BY <1>5 DEF Submit, WorkTypeOK, TaskStates
    <2>2. held' \in Samples \cup {None} /\ proc' \in ProcStates
      BY <1>5 DEF Submit, LoopTypeOK, ProcStates
    <2> QED BY <1>1, <1>2, <1>5, <2>1, <2>2
            DEF Submit, WorkTypeOK, LoopTypeOK, LockTypeOK, feedVars, poolVars, aroundVars,
                rpcVars, flagVars
  <1>6. CASE Reap
    <2>1. WorkTypeOK'
      BY <1>6 DEF Reap, WorkTypeOK, feedVars, taskVars
    <2>2. LoopTypeOK'
      BY <1>1, <1>6 DEF Reap, LoopTypeOK, LockTypeOK, ProcStates, aroundVars, rpcVars, flagVars
    <2> QED BY <1>2, <2>1, <2>2
  <1>7. CASE PauseSelf
    BY <1>1, <1>2, <1>7
       DEF PauseSelf, WorkTypeOK, LoopTypeOK, LockTypeOK, ProcStates, feedVars, taskVars,
           poolVars, rpcVars
  <1>8. CASE SeePause \/ AwaitPending \/ TestDrain \/ EnterDrain \/ Idle \/ Wake
    <2>1. proc' \in ProcStates
      BY <1>8 DEF SeePause, AwaitPending, TestDrain, EnterDrain, Idle, Wake, ProcStates
    <2>2. UNCHANGED <<procFrame, why, held, bound>>
      BY <1>8 DEF SeePause, AwaitPending, TestDrain, EnterDrain, Idle, Wake
    <2> QED BY <1>1, <1>2, <2>1, <2>2
            DEF procFrame, WorkTypeOK, LoopTypeOK, LockTypeOK, feedVars, taskVars, poolVars,
                aroundVars, rpcVars, flagVars
  <1> QED BY <1>3, <1>4, <1>5, <1>6, <1>7, <1>8 DEF ProcessorStep

\* A sample's task and its request.
LEMMA TypesSample ==
  ASSUME RollouterTypeOK, NEW s \in Samples,
         \/ TaskStep(s) \/ QueueSample(s) \/ AcceptRequest(s)
         \/ CompleteRequest(s) \/ InterruptRequest(s) \/ FailRequest(s)
  PROVE  RollouterTypeOK'
PROOF
  <1> USE DEF RollouterTypeOK
  <1>1. LoopTypeOK'
    BY DEF TaskStep, StartTask, SendSample, FinishTask, RequeueSample, RaiseTask, QueueSample,
           AcceptRequest, CompleteRequest, InterruptRequest, FailRequest, serviceFrame,
           taskFrame, aroundVars, rpcVars, flagVars, procVars, loopVars, LoopTypeOK
  <1>2. CASE QueueSample(s)
    <2>1. [id |-> s, start |-> startVer[s], ver |-> doneVer[s]] \in QueueEntries
      BY DEF WorkTypeOK, QueueEntries, SampleEntries
    <2>2. QueueTypeOK'
      BY <1>2, <2>1, QueuePut DEF QueueSample
    <2>3. WorkTypeOK'
      BY <1>2 DEF QueueSample, WorkTypeOK, TaskStates, taskFrame, feedVars, poolVars
    <2> QED BY <1>1, <2>2, <2>3
  <1>3. CASE ~QueueSample(s)
    <2>1. QueueTypeOK'
      BY <1>3, QueueKept
         DEF TaskStep, StartTask, SendSample, FinishTask, RequeueSample, RaiseTask,
             AcceptRequest, CompleteRequest, InterruptRequest, FailRequest, serviceFrame
    <2>2. CASE StartTask(s) \/ SendSample(s)
      BY <1>1, <2>1, <2>2
         DEF StartTask, SendSample, WorkTypeOK, LoopTypeOK, TaskStates, taskFrame, feedVars,
             poolVars
    <2>3. CASE FinishTask(s) \/ RequeueSample(s) \/ RaiseTask(s)
      <3>1. task' \in [Samples -> TaskStates] /\ unreaped' \in Nat
        BY <2>3 DEF FinishTask, RequeueSample, RaiseTask, EndTask, WorkTypeOK, TaskStates
      <3>2. cancelQ' \in Seq(Samples)
        BY <2>3, AppendType DEF FinishTask, RequeueSample, RaiseTask, WorkTypeOK
      <3>3. broken' \in BOOLEAN
        BY <2>3 DEF FinishTask, RequeueSample, RaiseTask, WorkTypeOK
      <3> QED BY <1>1, <2>1, <2>3, <3>1, <3>2, <3>3
              DEF FinishTask, RequeueSample, RaiseTask, WorkTypeOK, taskFrame, feedVars
    <2>4. CASE AcceptRequest(s) \/ CompleteRequest(s) \/ InterruptRequest(s) \/ FailRequest(s)
      <3>1. failures' \in 0..MaxFailures
        BY <2>4, RolloutAssumption
           DEF AcceptRequest, CompleteRequest, InterruptRequest, FailRequest, WorkTypeOK,
               RolloutAssumption
      <3> QED BY <1>1, <2>1, <2>4, <3>1
              DEF AcceptRequest, CompleteRequest, InterruptRequest, FailRequest, WorkTypeOK,
                  TaskStates, serviceFrame, taskFrame, feedVars, poolVars
    <2> QED BY <1>3, <2>2, <2>3, <2>4 DEF TaskStep
  <1> QED BY <1>2, <1>3

\* Monitor and main.
LEMMA TypesOthers ==
  ASSUME RollouterTypeOK,
         \/ MonitorStart \/ MonitorCheck \/ MonitorWake \/ MonitorLift \/ AskStop \/ StopRunning
         \/ PutEnd
  PROVE  RollouterTypeOK'
PROOF
  <1> USE DEF RollouterTypeOK
  <1>1. LockTypeOK
    BY DEF LockTypeOK, LoopTypeOK
  <1>2. CASE MonitorStart \/ MonitorCheck \/ MonitorWake \/ MonitorLift
    <2>1. LockTypeOK'
      <3>1. \/ Acquire("monitor")
            \/ Holds("monitor") /\ (ReleaseAndYield \/ ReleaseAndAcquire("monitor"))
        BY <1>2 DEF MonitorStart, MonitorCheck, MonitorWake, MonitorLift
      <3> QED BY <1>1, <3>1, LockTypes DEF Coroutines
    <2>2. QueueTypeOK' /\ WorkTypeOK'
      BY <1>2, QueueKept
         DEF MonitorStart, MonitorCheck, MonitorWake, MonitorLift, monitorFrame, WorkTypeOK,
             feedVars, taskVars, poolVars
    <2>3. proc' \in ProcStates
      BY <1>2 DEF MonitorStart, MonitorCheck, MonitorWake, MonitorLift, Notify, Notified,
                  LoopTypeOK, ProcStates
    <2> QED BY <1>2, <2>1, <2>2, <2>3
            DEF MonitorStart, MonitorCheck, MonitorWake, MonitorLift, monitorFrame, LoopTypeOK,
                LockTypeOK, rpcVars
  <1>3. CASE AskStop \/ StopRunning
    <2>1. LockTypeOK'
      <3>1. Acquire("main") \/ (Holds("main") /\ ReleaseAndYield)
        BY <1>3 DEF AskStop, StopRunning
      <3> QED BY <1>1, <3>1, LockTypes DEF Coroutines
    <2>2. QueueTypeOK' /\ WorkTypeOK'
      BY <1>3, QueueKept
         DEF AskStop, StopRunning, mainFrame, WorkTypeOK, feedVars, taskVars, poolVars
    <2> QED BY <1>3, <2>1, <2>2
            DEF AskStop, StopRunning, mainFrame, LoopTypeOK, LockTypeOK, procVars, rpcVars
  <1>4. CASE PutEnd
    <2>1. QueueTypeOK'
      BY <1>4, QueuePut DEF PutEnd, QueueEntries
    <2>2. WorkTypeOK' /\ LoopTypeOK'
      BY <1>4 DEF PutEnd, mainFrame, WorkTypeOK, LoopTypeOK, feedVars, taskVars, poolVars,
                  procVars, rpcVars, loopVars
    <2> QED BY <2>1, <2>2
  <1> QED BY <1>2, <1>3, <1>4

\* The remote call, the queue's answer and the servers'.
LEMMA TypesCall ==
  ASSUME RollouterTypeOK, RpcStep \/ UpdateSize \/ PauseServers \/ ResumeServers
  PROVE  RollouterTypeOK'
PROOF
  <1> USE DEF RollouterTypeOK
  <1>1. CASE PauseServers \/ ResumeServers
    <2>1. QueueTypeOK' /\ LoopTypeOK'
      BY <1>1, QueueKept
         DEF PauseServers, ResumeServers, serviceFrame, taskFrame, LoopTypeOK, procVars,
             aroundVars, rpcVars, flagVars, loopVars
    <2>2. WorkTypeOK'
      BY <1>1 DEF PauseServers, ResumeServers, serviceFrame, taskFrame, WorkTypeOK, feedVars,
                  poolVars
    <2> QED BY <2>1, <2>2
  <1>2. CASE RpcStep \/ UpdateSize
    <2>1. LockTypeOK'
      <3>1. LockTypeOK /\ "rpc" \in Coroutines
        BY DEF LockTypeOK, LoopTypeOK, Coroutines
      <3>2. \/ Acquire("rpc") \/ UNCHANGED loopVars
            \/ Holds("rpc") /\ (ReleaseAndYield \/ HoldAndYield)
        BY <1>2 DEF RpcStep, CallArrives, PauseBegin, PauseCancelled, PauseGathered, PauseEnd,
                    UpdateBegin, UpdateSize, UpdateStaleness, UpdateEnd, ResumeBegin,
                    ResumeEnd, InCall
      <3> QED BY <3>1, <3>2, LockTypes
    <2>2. QueueTypeOK'
      <3>1. CASE UpdateEnd
        BY <3>1 DEF UpdateEnd, MQ!PutValidate, QueueTypeOK, LoopTypeOK
      <3>2. CASE ~UpdateEnd
        BY <1>2, <3>2, QueueKept
           DEF RpcStep, CallArrives, PauseBegin, PauseCancelled, PauseGathered, PauseEnd,
               UpdateBegin, UpdateSize, UpdateStaleness, ResumeBegin, ResumeEnd, callFrame
      <3> QED BY <3>1, <3>2
    <2>3. WorkTypeOK'
      <3>1. UNCHANGED poolVars \/ (unreaped' = 0 /\ broken' = FALSE)
        BY <1>2 DEF RpcStep, CallArrives, PauseBegin, PauseCancelled, PauseGathered, PauseEnd,
                    UpdateBegin, UpdateSize, UpdateStaleness, UpdateEnd, ResumeBegin,
                    ResumeEnd
      <3>2. UNCHANGED <<feedVars, cancelQ, taskVars>>
        BY <1>2 DEF RpcStep, CallArrives, PauseBegin, PauseCancelled, PauseGathered, PauseEnd,
                  UpdateBegin, UpdateSize, UpdateStaleness, UpdateEnd, ResumeBegin,
                    ResumeEnd, callFrame, rpcFrame
      <3>3. broken' \in BOOLEAN
        BY <3>1, Zenon DEF WorkTypeOK, poolVars
      <3>4. unreaped' \in Nat
        BY <3>1 DEF WorkTypeOK, poolVars
      <3> QED BY <3>2, <3>3, <3>4 DEF WorkTypeOK, feedVars, taskVars
    <2>4. version' \in Nat /\ sizeSum' \in Nat /\ staleness' \in Nat
      <3>1. ActiveTasks \in Nat /\ Len(cancelQ) \in Nat /\ Len(queue) \in Nat
        BY ActiveTasksType, RolloutAssumption DEF WorkTypeOK, QueueTypeOK
      <3> QED BY <1>2, <3>1
              DEF RpcStep, CallArrives, PauseBegin, PauseCancelled, PauseGathered, PauseEnd,
                  UpdateBegin, UpdateSize, UpdateStaleness, UpdateEnd, ResumeBegin, ResumeEnd,
                  callFrame, LoopTypeOK
    <2>5. rpc' \in RpcStates /\ proc' \in ProcStates
      BY <1>2 DEF RpcStep, CallArrives, PauseBegin, PauseCancelled, PauseGathered, PauseEnd,
                  UpdateBegin, UpdateSize, UpdateStaleness, UpdateEnd, ResumeBegin, ResumeEnd,
                  callFrame, LoopTypeOK, Notify, Notified, RpcStates, ProcStates
    <2>6. paused' \in BOOLEAN /\ monitorTrigger' \in BOOLEAN
      BY <1>2 DEF RpcStep, CallArrives, PauseBegin, PauseCancelled, PauseGathered, PauseEnd,
                  UpdateBegin, UpdateSize, UpdateStaleness, UpdateEnd, ResumeBegin, ResumeEnd,
                  LoopTypeOK
    <2>7. UNCHANGED <<why, held, bound, monitor, main, rpcVersion, running>>
      BY <1>2 DEF RpcStep, CallArrives, PauseBegin, PauseCancelled, PauseGathered, PauseEnd,
                  UpdateBegin, UpdateSize, UpdateStaleness, UpdateEnd, ResumeBegin, ResumeEnd,
                  callFrame, rpcFrame
    <2> QED BY <2>1, <2>2, <2>3, <2>4, <2>5, <2>6, <2>7 DEF LoopTypeOK, LockTypeOK
  <1> QED BY <1>1, <1>2

\* The steps of the rollouter's side, whose types do not depend on the trainer.
LEMMA TypesRollouter ==
  ASSUME TypeOK, HolderInv, RollouterStep, UNCHANGED <<trainer, trainVars, sync>>
  PROVE  TypeOK'
PROOF
  <1>1. RollouterTypeOK'
    BY TypesFeed, TypesProcessor, TypesSample, TypesOthers, TypesCall
       DEF TypeOK, RollouterStep, LoopStep, RemoteStep, RpcStep
  <1> QED BY <1>1 DEF TypeOK, trainVars

\* What the other methods of the queue do to its types.
LEMMA QueueOther ==
  ASSUME QueueTypeOK, NEW v \in Nat,
         \/ MQ!GetValidate \/ MQ!ClearQueue \/ MQ!UpdateMqVersion(v)
         \/ MQ!AwaitSample("trainer")
  PROVE  QueueTypeOK'
PROOF
  <1>1. valQueue # << >> => Tail(valQueue) \in Seq(Nat)
    BY TailType DEF QueueTypeOK
  <1>2. CASE MQ!GetValidate
    BY <1>1, <1>2 DEF MQ!GetValidate, QueueTypeOK
  <1>3. CASE MQ!ClearQueue
    BY <1>3 DEF MQ!ClearQueue, QueueTypeOK
  <1>4. CASE MQ!UpdateMqVersion(v)
    BY <1>4 DEF MQ!UpdateMqVersion, QueueTypeOK
  <1>5. CASE MQ!AwaitSample("trainer")
    BY <1>5 DEF MQ!AwaitSample, QueueTypeOK
  <1> QED BY <1>2, <1>3, <1>4, <1>5

\* The trainer's and the synchronizer's steps, seen from the rollouter: only the
\* queue, the call and, once, the program counters change.
LEMMA TypesAcross ==
  ASSUME TypeOK, TrainerStep \/ SyncStep
  PROVE  RollouterTypeOK'
PROOF
  <1> USE DEF TypeOK, RollouterTypeOK
  <1>1. CASE Launch
    <2>1. QueueTypeOK' /\ WorkTypeOK'
      BY <1>1, QueueKept DEF Launch, StartFit, WorkTypeOK, feedVars, taskVars, poolVars
    <2>2. LoopTypeOK'
      BY <1>1 DEF Launch, StartFit, LoopTypeOK, ProcStates, rpcVars, loopVars
    <2> QED BY <2>1, <2>2
  <1>2. CASE ~Launch
    <2>1. UNCHANGED rolloutVars
      BY <1>2 DEF TrainerStep, SyncStep, Load, LogValidation, AwaitSamples, CollectSample,
                  TrainStep, StartSync, FinishTraining, FinishValidation, ClearAtEnd,
                  SyncAnnounce, SyncEnd
    <2>2. trainVersion + 1 \in Nat
      OBVIOUS
    <2>3. rpc' \in RpcStates /\ rpcVersion' \in Nat /\ sizeSum' \in Nat
      BY <1>2, <2>2
         DEF TrainerStep, SyncStep, Load, LogValidation, AwaitSamples, CollectSample,
             TrainStep, StartSync, FinishTraining, FinishValidation, ClearAtEnd, SyncAnnounce,
             SyncEnd, SyncBegin, rpcVars, LoopTypeOK, RpcStates
    <2>4. WorkTypeOK' /\ LoopTypeOK'
      BY <2>1, <2>3
         DEF rolloutVars, feedVars, taskVars, poolVars, procVars, flagVars, loopVars,
             WorkTypeOK, LoopTypeOK
    <2>5. QueueTypeOK'
      <3>1. CASE CollectSample
        BY <3>1, QueueGet DEF CollectSample
      <3>2. CASE LogValidation \/ FinishTraining \/ FinishValidation \/ ClearAtEnd
                 \/ AwaitSamples \/ SyncAnnounce
        BY <3>2, QueueOther
           DEF LogValidation, FinishTraining, FinishValidation, TakeValidation, ClearAtEnd,
               AwaitSamples, SyncAnnounce, LoopTypeOK
      <3>3. CASE Load \/ TrainStep \/ StartSync \/ SyncEnd
        BY <3>3, QueueKept DEF Load, TrainStep, StartSync, SyncEnd
      <3> QED BY <1>2, <3>1, <3>2, <3>3 DEF TrainerStep, SyncStep
    <2> QED BY <2>4, <2>5
  <1> QED BY <1>1, <1>2

\* The trainer's and the synchronizer's own variables.
LEMMA TypesTrainer ==
  ASSUME TypeOK, TrainerStep \/ SyncStep
  PROVE  TypeOK'
PROOF
  <1> USE DEF TypeOK
  <1>1. RollouterTypeOK'
    BY TypesAcross
  <1>2. Trigger \in Nat \ {0} /\ 1 \in 1..Trigger
    BY RolloutAssumption DEF RolloutAssumption
  <1>3. CASE CollectSample
    <2>1. MQ!PopLeft(queue).item \in QueueEntries
      BY <1>3, QueueGet DEF CollectSample, RollouterTypeOK
    <2>2. MQ!PopLeft(queue).item # End => MQ!PopLeft(queue).item \in SampleEntries
      BY <2>1 DEF QueueEntries
    <2>3. batch' \in Seq(SampleEntries)
      <3>1. CASE MQ!PopLeft(queue).item = End
        <4>1. batch' = << >>
          BY <1>3, <3>1 DEF CollectSample
        <4> QED BY <4>1
      <3>2. CASE MQ!PopLeft(queue).item # End
        <4>1. batch' = Append(batch, MQ!PopLeft(queue).item)
          BY <1>3, <3>2 DEF CollectSample
        <4> QED BY <2>2, <3>2, <4>1, AppendType
      <3> QED BY <3>1, <3>2
    <2>4. trainer' \in {"final", "train", "get"}
      BY <1>3 DEF CollectSample
    <2> QED BY <1>1, <1>3, <2>3, <2>4 DEF CollectSample
  <1>4. CASE TrainStep
    <2>1. BatchIds \subseteq Samples
      <3>1. \A i \in 1..Len(batch) : batch[i] \in SampleEntries
        OBVIOUS
      <3> QED BY <3>1 DEF BatchIds, SampleEntries
    <2>2. trained' \subseteq Samples /\ batch' \in Seq(SampleEntries)
      BY <1>4, <2>1 DEF TrainStep
    <2>3. localStep' \in 1..Trigger /\ trainVersion' \in Nat
      BY <1>2, <1>4 DEF TrainStep
    <2> QED BY <1>1, <1>4, <2>2, <2>3 DEF TrainStep
  <1>5. CASE FinishTraining
    <2>1. localStep' \in 1..Trigger /\ trainVersion' \in Nat
      BY <1>2, <1>5 DEF FinishTraining
    <2> QED BY <1>1, <1>5, <2>1 DEF FinishTraining, SyncBegin
  <1>6. CASE \/ Load \/ Launch \/ LogValidation \/ AwaitSamples \/ StartSync
             \/ FinishValidation \/ ClearAtEnd \/ SyncAnnounce \/ SyncEnd
    BY <1>1, <1>6
       DEF Load, Launch, LogValidation, AwaitSamples, StartSync, FinishValidation, ClearAtEnd,
           SyncAnnounce, SyncEnd, SyncBegin, trainVars
  <1> QED BY <1>3, <1>4, <1>5, <1>6 DEF TrainerStep, SyncStep

LEMMA TypesNext ==
  ASSUME TypeOK, HolderInv, [Next]_vars
  PROVE  TypeOK'
PROOF
  <1>1. CASE UNCHANGED vars
    <2>1. QueueTypeOK'
      BY <1>1, QueueKept DEF vars, TypeOK, RollouterTypeOK
    <2>2. WorkTypeOK'
      BY <1>1 DEF vars, rolloutVars, feedVars, taskVars, poolVars, TypeOK, RollouterTypeOK,
                  WorkTypeOK
    <2>3. LoopTypeOK'
      BY <1>1 DEF vars, rolloutVars, procVars, flagVars, rpcVars, loopVars, TypeOK,
                  RollouterTypeOK, LoopTypeOK
    <2> QED BY <1>1, <2>1, <2>2, <2>3 DEF vars, trainVars, TypeOK, RollouterTypeOK
  <1> QED BY <1>1, TypesRollouter, TypesTrainer DEF Next, Over

-----------------------------------------------------------------------------
(* Types, drains and the pause.                                            *)

LEMMA InitTypes == Init => TypeOK
PROOF
  <1> SUFFICES ASSUME Init PROVE TypeOK
    OBVIOUS
  <1>1. N \in Nat \ {0} /\ Trigger \in Nat \ {0} /\ MaxFailures \in Nat
    BY RolloutAssumption DEF RolloutAssumption
  <1>2. QueueTypeOK
    BY DEF Init, RollouterInit, MQ!MQInit, QueueTypeOK
  <1>3. WorkTypeOK
    <2>1. pending \in Seq(1..Done) /\ fed \in 0..Done /\ cancelQ \in Seq(Samples)
      BY <1>1 DEF Init, RollouterInit, Done
    <2>2. /\ task \in [Samples -> TaskStates]
          /\ startVer \in [Samples -> Nat \cup {NoVersion}]
          /\ doneVer \in [Samples -> Nat \cup {NoVersion}]
      BY DEF Init, RollouterInit, TaskStates
    <2>3. unreaped \in Nat /\ failures \in 0..MaxFailures
      BY <1>1 DEF Init, RollouterInit
    <2>4. broken \in BOOLEAN /\ serversPaused \in BOOLEAN
      BY DEF Init, RollouterInit
    <2> QED BY <2>1, <2>2, <2>3, <2>4 DEF WorkTypeOK
  <1>4. LoopTypeOK
    <2>1. lockQ \in Seq(Coroutines) /\ cpu \in Coroutines \cup {"free"}
      BY DEF Init, RollouterInit
    <2>2. /\ paused \in BOOLEAN /\ running \in BOOLEAN /\ monitorTrigger \in BOOLEAN
          /\ bound \in BOOLEAN
      BY DEF Init, RollouterInit
    <2> QED BY <2>1, <2>2
            DEF Init, RollouterInit, LoopTypeOK, ProcStates, RpcStates, None
  <1> QED BY <1>1, <1>2, <1>3, <1>4 DEF Init, TypeOK, RollouterTypeOK

LEMMA InitHolderPause == Init => HolderInv /\ PauseInv
  BY DEF Init, RollouterInit, HolderInv, PauseInv, CallSuspendedInLock

LEMMA Invariant == Spec => [](TypeOK /\ HolderInv)
PROOF
  <1>1. Init => TypeOK /\ HolderInv
    BY InitTypes, InitHolderPause
  <1>2. TypeOK /\ HolderInv /\ [Next]_vars => (TypeOK /\ HolderInv)'
    BY TypesNext, HolderNext
  <1> QED BY <1>1, <1>2, PTL DEF Spec

\* Every variable of the rollouter, the trainer, the synchronizer and the queue keeps
\* the type the code gives it.
THEOREM Types == Spec => []TypeOK
  BY Invariant, PTL

\* active_tasks is never replaced by the processor and by pause() at a time: the lock
\* they hold across their awaits sees to it.
THEOREM DrainsExclude == Spec => []DrainsExclusive
PROOF
  <1>1. HolderInv => DrainsExclusive
    BY DEF HolderInv, DrainsExclusive, Holds, CallSuspendedInLock
  <1> QED BY <1>1, Invariant, PTL

\* With partial rollout no weights are transferred under a running generation,
\* although the pause itself may be lifted: the servers bounce what is submitted.
THEOREM PauseHoldsWithPartialRollout ==
  ASSUME PartialRollout
  PROVE  Spec => []PauseHolds
PROOF
  <1>1. Init => PauseInv
    BY InitHolderPause
  <1>2. TypeOK /\ PauseInv /\ [Next]_vars => PauseInv'
    BY PauseNext
  <1>3. PauseInv => PauseHolds
    BY DEF PauseInv, PauseHolds
  <1> QED BY <1>1, <1>2, <1>3, Invariant, PTL DEF Spec

-----------------------------------------------------------------------------
(* Counting.  Hits(q, S) is how many entries of q are in S.                *)

Hits(q, S) == Cardinality({i \in DOMAIN q : q[i] \in S})

LEMMA HitsType ==
  ASSUME NEW T, NEW q \in Seq(T), NEW S
  PROVE  Hits(q, S) \in Nat /\ Hits(q, S) <= Len(q) /\ IsFiniteSet({i \in DOMAIN q : q[i] \in S})
PROOF
  <1> DEFINE A == {i \in DOMAIN q : q[i] \in S}
  <1>1. Len(q) \in Nat /\ DOMAIN q = 1..Len(q)
    OBVIOUS
  <1>2. IsFiniteSet(1..Len(q)) /\ Cardinality(1..Len(q)) = Len(q)
    BY <1>1, FS_Interval
  <1>3. A \in SUBSET (1..Len(q))
    BY <1>1
  <1>4. IsFiniteSet(A) /\ Cardinality(A) <= Len(q) /\ Cardinality(A) \in Nat
    BY <1>2, <1>3, FS_Subset, FS_CardinalityType
  <1> QED
    BY <1>4 DEF Hits

LEMMA HitsEmpty ==
  ASSUME NEW S
  PROVE  Hits(<< >>, S) = 0
PROOF
  <1>1. {i \in DOMAIN << >> : << >>[i] \in S} = {}
    OBVIOUS
  <1> QED
    BY <1>1, FS_EmptySet DEF Hits

LEMMA HitsAppend ==
  ASSUME NEW T, NEW q \in Seq(T), NEW x \in T, NEW S
  PROVE  Hits(Append(q, x), S) = Hits(q, S) + One(x \in S)
PROOF
  <1> DEFINE r == Append(q, x)
             A == {i \in DOMAIN q : q[i] \in S}
             B == {i \in DOMAIN r : r[i] \in S}
             n == Len(q) + 1
  <1>1. /\ Len(q) \in Nat /\ DOMAIN q = 1..Len(q) /\ DOMAIN r = 1..n /\ r[n] = x
        /\ \A i \in 1..Len(q) : r[i] = q[i]
    OBVIOUS
  <1>2. IsFiniteSet(A) /\ Cardinality(A) \in Nat
    BY HitsType DEF Hits
  <1>3. n \notin A /\ 1..n = (1..Len(q)) \cup {n}
    BY <1>1
  <1> HIDE DEF n, r
  <1>4. B = IF x \in S THEN A \cup {n} ELSE A
    BY <1>1, <1>3
  <1>5. Cardinality(A \cup {n}) = Cardinality(A) + 1
    BY <1>2, <1>3, FS_AddElement
  <1>6. CASE x \in S
    <2>1. One(x \in S) = 1 /\ Cardinality(B) = Cardinality(A) + 1
      BY <1>4, <1>5, <1>6 DEF One
    <2> QED
      BY <2>1 DEF Hits, r
  <1>7. CASE x \notin S
    <2>1. One(x \in S) = 0
      BY <1>7 DEF One
    <2>2. Hits(r, S) = Hits(q, S)
      BY <1>4, <1>7 DEF Hits
    <2>3. Hits(q, S) \in Nat
      BY HitsType
    <2> QED
      BY <2>1, <2>2, <2>3 DEF r
  <1> QED
    BY <1>6, <1>7

LEMMA HitsTail ==
  ASSUME NEW T, NEW q \in Seq(T), q # << >>, NEW S
  PROVE  Hits(Tail(q), S) = Hits(q, S) - One(Head(q) \in S)
PROOF
  <1> DEFINE r == Tail(q)
             A == {i \in DOMAIN q : q[i] \in S}
             B == {i \in DOMAIN r : r[i] \in S}
             f == [i \in B |-> i + 1]
  <1>1. /\ r \in Seq(T) /\ Len(q) \in Nat /\ Len(q) >= 1 /\ DOMAIN q = 1..Len(q)
        /\ DOMAIN r = 1..Len(q) - 1
        /\ Head(q) = q[1] /\ \A i \in 1..Len(q) - 1 : r[i] = q[i + 1]
    OBVIOUS
  <1>2. /\ IsFiniteSet(A) /\ Cardinality(A) \in Nat
        /\ IsFiniteSet(B) /\ Cardinality(B) \in Nat
    BY <1>1, HitsType DEF Hits
  <1> HIDE DEF r
  <1>3. f \in Bijection(B, A \ {1})
    <2>1. \A i \in B : f[i] \in A \ {1} /\ i \in Nat
      BY <1>1
    <2>2. \A i, j \in B : f[i] = f[j] => i = j
      BY <2>1
    <2>3. ASSUME NEW j \in A \ {1}
          PROVE  \E i \in B : f[i] = j
      <3>1. j - 1 \in 1..Len(q) - 1 /\ j = (j - 1) + 1
        BY <1>1, <2>3
      <3>2. j - 1 \in B
        BY <1>1, <2>3, <3>1
      <3> QED
        BY <3>1, <3>2
    <2>4. f \in [B -> A \ {1}]
      BY <2>1
    <2>5. f \in Injection(B, A \ {1})
      BY <2>2, <2>4 DEF Injection, IsInjective
    <2>6. f \in Surjection(B, A \ {1})
      BY <2>3, <2>4 DEF Surjection
    <2> QED
      BY <2>5, <2>6 DEF Bijection
  <1>4. ExistsBijection(B, A \ {1})
    BY <1>3 DEF ExistsBijection
  <1>5. Cardinality(A \ {1}) = Cardinality(B)
    BY <1>2, <1>4, FS_Bijection
  <1>6. Cardinality(A \ {1}) = IF 1 \in A THEN Cardinality(A) - 1 ELSE Cardinality(A)
    BY <1>2, FS_RemoveElement
  <1>7. 1 \in A <=> Head(q) \in S
    BY <1>1
  <1>8. CASE Head(q) \in S
    <2>1. One(Head(q) \in S) = 1 /\ Cardinality(B) = Cardinality(A) - 1
      BY <1>5, <1>6, <1>7, <1>8 DEF One
    <2> QED
      BY <2>1 DEF Hits, r
  <1>9. CASE Head(q) \notin S
    <2>1. One(Head(q) \in S) = 0 /\ Cardinality(B) = Cardinality(A) - 0
      BY <1>2, <1>5, <1>6, <1>7, <1>9 DEF One
    <2> QED
      BY <2>1 DEF Hits, r
  <1> QED
    BY <1>8, <1>9

\* The feeder's run of consecutive numbers holds each of its numbers once.
LEMMA HitsRun ==
  ASSUME NEW q \in Seq(Nat), NEW f \in Nat, NEW n \in Nat, NEW s \in Nat
  PROVE  Hits(q \o [i \in 1..n |-> f + i], {s}) = Hits(q, {s}) + One(f < s /\ s <= f + n)
PROOF
  <1> DEFINE run == [i \in 1..n |-> f + i]
             r == q \o run
             A == {i \in DOMAIN q : q[i] \in {s}}
             B == {i \in DOMAIN r : r[i] \in {s}}
             k == Len(q) + s - f
  <1>1. /\ Len(q) \in Nat /\ DOMAIN q = 1..Len(q)
        /\ run \in Seq(Nat) /\ Len(run) = n /\ \A i \in 1..n : run[i] = f + i
    OBVIOUS
  <1> HIDE DEF run
  <1>2. /\ DOMAIN r = 1..Len(q) + n
        /\ \A i \in 1..Len(q) + n : r[i] = IF i <= Len(q) THEN q[i] ELSE run[i - Len(q)]
    BY <1>1
  <1>3. \A i \in 1..Len(q) + n : ~(i <= Len(q)) => i - Len(q) \in 1..n
    BY <1>1
  <1> HIDE DEF r
  <1>4. \A i \in 1..Len(q) + n : r[i] = IF i <= Len(q) THEN q[i] ELSE f + (i - Len(q))
    BY <1>1, <1>2, <1>3
  <1>5. IsFiniteSet(A) /\ Cardinality(A) \in Nat
    BY HitsType DEF Hits
  <1>6. CASE f < s /\ s <= f + n
    <2>1. k \in 1..Len(q) + n /\ ~(k <= Len(q)) /\ k \notin A
      BY <1>1, <1>6
    <2>2. ASSUME NEW i \in 1..Len(q) + n
          PROVE  i \in B <=> i \in A \/ i = k
      <3>1. CASE i <= Len(q)
        <4>1. i \in 1..Len(q) /\ r[i] = q[i] /\ i # k
          BY <1>1, <1>4, <2>1, <3>1
        <4> QED
          BY <1>1, <1>2, <4>1
      <3>2. CASE ~(i <= Len(q))
        <4>1. i \notin A /\ r[i] = f + (i - Len(q))
          BY <1>1, <1>4, <3>2
        <4>2. r[i] = s <=> i = k
          BY <1>1, <4>1
        <4> QED
          BY <1>2, <4>1, <4>2
      <3> QED
        BY <3>1, <3>2
    <2>3. A \cup {k} \subseteq 1..Len(q) + n /\ B \subseteq 1..Len(q) + n
      BY <1>1, <1>2, <2>1
    <2>4. B = A \cup {k}
      BY <2>2, <2>3
    <2>5. One(f < s /\ s <= f + n) = 1
      BY <1>6 DEF One
    <2>6. Cardinality(B) = Cardinality(A) + 1
      BY <1>5, <2>1, <2>4, FS_AddElement
    <2> QED
      BY <2>5, <2>6 DEF Hits, r, run
  <1>7. CASE ~(f < s /\ s <= f + n)
    <2>1. \A i \in 1..Len(q) + n : r[i] = s <=> i \in A
      BY <1>1, <1>3, <1>4, <1>7
    <2>2. B = A
      BY <1>1, <1>2, <2>1
    <2>3. One(f < s /\ s <= f + n) = 0
      BY <1>7 DEF One
    <2>4. Hits(r, {s}) = Hits(q, {s})
      BY <2>2 DEF Hits
    <2>5. Hits(q, {s}) \in Nat
      BY HitsType
    <2> QED
      BY <2>3, <2>4, <2>5 DEF r, run
  <1> QED
    BY <1>6, <1>7

LEMMA PutHits ==
  ASSUME QueueTypeOK, NEW e \in QueueEntries, MQ!PutSample(e), NEW S
  PROVE  Hits(queue', S) \in Nat /\ Hits(queue', S) <= Hits(queue, S) + One(e \in S)
PROOF
  <1> DEFINE kept == IF MQ!QueueFull THEN Tail(queue) ELSE queue
  <1>1. MQ!QueueFull => queue # << >>
    BY MaxRequiredType DEF MQ!QueueFull, QueueTypeOK
  <1>2. queue \in Seq(QueueEntries) /\ queue' = Append(kept, e)
    BY DEF MQ!PutSample, MQ!PopLeft, QueueTypeOK
  <1>3. kept \in Seq(QueueEntries)
    BY <1>1, <1>2, TailType
  <1>4. Hits(queue, S) \in Nat /\ Hits(kept, S) \in Nat
    BY <1>2, <1>3, HitsType
  <1>5. Hits(kept, S) <= Hits(queue, S)
    <2>1. CASE MQ!QueueFull
      <3>1. Hits(Tail(queue), S) = Hits(queue, S) - One(Head(queue) \in S)
        BY <1>1, <1>2, <2>1, HitsTail
      <3>2. One(Head(queue) \in S) \in Nat
        BY DEF One
      <3> QED
        BY <1>4, <2>1, <3>1, <3>2
    <2>2. CASE ~MQ!QueueFull
      BY <1>4, <2>2
    <2> QED
      BY <2>1, <2>2
  <1> HIDE DEF kept
  <1>6. Hits(queue', S) = Hits(kept, S) + One(e \in S)
    BY <1>2, <1>3, HitsAppend
  <1>7. One(e \in S) \in Nat
    BY DEF One
  <1> QED
    BY <1>4, <1>5, <1>6, <1>7

LEMMA GetHits ==
  ASSUME QueueTypeOK, MQ!GetSample("trainer"), NEW S
  PROVE  /\ MQ!PopLeft(queue).item = Head(queue) /\ Head(queue) \in QueueEntries
         /\ Hits(queue', S) = Hits(queue, S) - One(Head(queue) \in S)
PROOF
  <1>1. queue \in Seq(QueueEntries) /\ queue # << >> /\ queue' = Tail(queue)
    BY DEF QueueTypeOK, MQ!GetSample, MQ!PopLeft
  <1> QED
    BY <1>1, HitsTail, TailType DEF MQ!PopLeft

-----------------------------------------------------------------------------
(* How many times a sample is in the system, and how many samples are.     *)

With(s) == {e \in QueueEntries : e.id = s}
Whole(s) ==
  Hits(pending, {s}) + One(held = s) + Hits(cancelQ, {s}) + One(s \in InFlight)
    + Hits(queue, With(s)) + Hits(batch, With(s)) + One(s \in trained)
Started == Cardinality(InFlight) + Len(cancelQ)

LEMMA NotTheEnd ==
  ASSUME NEW q \in Seq(QueueEntries)
  PROVE  {i \in DOMAIN q : q[i] # End} = {i \in DOMAIN q : q[i] \in SampleEntries}
PROOF
  <1>1. End \notin SampleEntries
    BY RolloutAssumption DEF RolloutAssumption, SampleEntries, End, Samples, None
  <1>2. \A i \in DOMAIN q : q[i] \in QueueEntries
    OBVIOUS
  <1> QED
    BY <1>1, <1>2 DEF QueueEntries

LEMMA Numbers ==
  ASSUME TypeOK
  PROVE  /\ \A s \in Samples :
              /\ Hits(pending, {s}) \in Nat /\ Hits(cancelQ, {s}) \in Nat
              /\ Hits(queue, With(s)) \in Nat /\ Hits(batch, With(s)) \in Nat
              /\ Whole(s) \in Nat
         /\ IsFiniteSet(InFlight) /\ Cardinality(InFlight) \in Nat /\ Len(cancelQ) \in Nat
         /\ Hits(queue, SampleEntries) \in Nat /\ Hits(queue, SampleEntries) <= Len(queue)
         /\ Len(queue) \in Nat /\ Started \in Nat /\ Generated \in Nat /\ Outstanding \in Nat
         /\ Generated = Started + Hits(queue, SampleEntries)
         /\ Outstanding = Generated + One(held # None) /\ One(held # None) \in {0, 1}
PROOF
  <1>1. /\ pending \in Seq(1..Done) /\ cancelQ \in Seq(Samples) /\ queue \in Seq(QueueEntries)
        /\ batch \in Seq(SampleEntries)
    BY DEF TypeOK, RollouterTypeOK, WorkTypeOK, QueueTypeOK
  <1>2. IsFiniteSet(InFlight) /\ Cardinality(InFlight) \in Nat
    <2>1. IsFiniteSet(Samples) /\ InFlight \in SUBSET Samples
      BY RolloutAssumption, FS_Interval DEF RolloutAssumption, Samples, InFlight
    <2> QED
      BY <2>1, FS_Subset, FS_CardinalityType
  <1>3. Len(cancelQ) \in Nat /\ Len(queue) \in Nat
    BY <1>1
  <1>4. \A s \in Samples : /\ Hits(pending, {s}) \in Nat /\ Hits(cancelQ, {s}) \in Nat
                           /\ Hits(queue, With(s)) \in Nat /\ Hits(batch, With(s)) \in Nat
    BY <1>1, HitsType
  <1>5. \A s \in Samples : One(held = s) \in Nat /\ One(s \in InFlight) \in Nat
                           /\ One(s \in trained) \in Nat
    BY DEF One
  <1>6. Hits(queue, SampleEntries) \in Nat /\ Hits(queue, SampleEntries) <= Len(queue)
    BY <1>1, HitsType
  <1>7. {i \in DOMAIN queue : queue[i] # End} = {i \in DOMAIN queue : queue[i] \in SampleEntries}
    BY <1>1, NotTheEnd
  <1>8. Generated = Started + Hits(queue, SampleEntries)
    BY <1>7 DEF Generated, Started, Hits
  <1>9. One(held # None) \in {0, 1}
    BY DEF One
  <1>10. Started \in Nat
    BY <1>2, <1>3 DEF Started
  <1>11. \A s \in Samples : Whole(s) \in Nat
    BY <1>4, <1>5 DEF Whole
  <1>12. Generated \in Nat /\ Outstanding \in Nat
    BY <1>6, <1>8, <1>9, <1>10 DEF Outstanding
  <1> QED
    BY <1>2, <1>3, <1>4, <1>6, <1>8, <1>9, <1>10, <1>11, <1>12 DEF Outstanding

\* The number of a sample's entries, as NoDuplication counts them.
LEMMA CountIsHits ==
  ASSUME TypeOK, NEW s \in Samples
  PROVE  /\ Count(pending, s) = Hits(pending, {s}) /\ Count(cancelQ, s) = Hits(cancelQ, {s})
         /\ Count(Ids(queue), s) = Hits(queue, With(s))
         /\ Count(Ids(batch), s) = Hits(batch, With(s))
PROOF
  <1>1. /\ queue \in Seq(QueueEntries) /\ batch \in Seq(SampleEntries)
    BY DEF TypeOK, RollouterTypeOK, WorkTypeOK, QueueTypeOK
  <1>2. \A q : {i \in DOMAIN q : q[i] = s} = {i \in DOMAIN q : q[i] \in {s}}
    OBVIOUS
  <1>3. ASSUME NEW q \in Seq(QueueEntries)
        PROVE  {i \in DOMAIN Ids(q) : Ids(q)[i] = s} = {i \in DOMAIN q : q[i] \in With(s)}
    <2>1. DOMAIN Ids(q) = DOMAIN q /\ \A i \in DOMAIN q : Ids(q)[i] = q[i].id
      BY DEF Ids
    <2>2. \A i \in DOMAIN q : q[i] \in QueueEntries
      OBVIOUS
    <2> QED
      BY <2>1, <2>2 DEF With
  <1>4. batch \in Seq(QueueEntries)
    <2>1. \A i \in 1..Len(batch) : batch[i] \in QueueEntries
      BY <1>1 DEF QueueEntries
    <2> QED
      BY <1>1, <2>1
  <1>5. Count(pending, s) = Hits(pending, {s}) /\ Count(cancelQ, s) = Hits(cancelQ, {s})
    BY <1>2 DEF Count, Hits
  <1>6. Count(Ids(queue), s) = Hits(queue, With(s)) /\ Count(Ids(batch), s) = Hits(batch, With(s))
    BY <1>1, <1>3, <1>4 DEF Count, Hits
  <1> QED
    BY <1>5, <1>6

LEMMA TaskMoves ==
  ASSUME TypeOK, NEW s \in Samples, NEW x \in TaskStates, task' = [task EXCEPT ![s] = x]
  PROVE  /\ x \in {"none", "acked"} => InFlight' = InFlight \ {s}
         /\ x \notin {"none", "acked"} => InFlight' = InFlight \cup {s}
         /\ Cardinality(InFlight \ {s}) = Cardinality(InFlight) - One(s \in InFlight)
         /\ Cardinality(InFlight \cup {s}) = Cardinality(InFlight) + 1 - One(s \in InFlight)
PROOF
  <1>1. task \in [Samples -> TaskStates]
    BY DEF TypeOK, RollouterTypeOK, WorkTypeOK
  <1>2. task'[s] = x /\ \A r \in Samples \ {s} : task'[r] = task[r]
    BY <1>1
  <1>3. IsFiniteSet(InFlight) /\ Cardinality(InFlight) \in Nat
    BY Numbers
  <1>4. x \in {"none", "acked"} => InFlight' = InFlight \ {s}
    BY <1>2 DEF InFlight
  <1>5. x \notin {"none", "acked"} => InFlight' = InFlight \cup {s}
    BY <1>2 DEF InFlight
  <1>6. /\ Cardinality(InFlight \ {s}) =
             IF s \in InFlight THEN Cardinality(InFlight) - 1 ELSE Cardinality(InFlight)
        /\ Cardinality(InFlight \cup {s}) =
             IF s \in InFlight THEN Cardinality(InFlight) ELSE Cardinality(InFlight) + 1
    BY <1>3, FS_RemoveElement, FS_AddElement
  <1>7. One(s \in InFlight) = IF s \in InFlight THEN 1 ELSE 0
    BY DEF One
  <1> QED
    BY <1>3, <1>4, <1>5, <1>6, <1>7

-----------------------------------------------------------------------------
(* Most steps move a sample from one place to the next, or lose it.        *)

SizesShrink ==
  Started' <= Started /\ Generated' <= Generated /\ Outstanding' <= Outstanding
Shrinks ==
  fed' = fed /\ (\A s \in Samples : Whole(s)' <= Whole(s)) /\ SizesShrink

Still ==
  /\ UNCHANGED <<pending, fed, held, cancelQ, queue, batch, trained>>
  /\ InFlight' = InFlight

LEMMA StillShrinks == ASSUME TypeOK, Still PROVE Shrinks
PROOF
  <1>1. /\ \A s \in Samples : Whole(s)' = Whole(s)
        /\ Started' = Started /\ Generated' = Generated /\ Outstanding' = Outstanding
    BY DEF Still, Whole, Started, Generated, Outstanding
  <1>2. Started \in Nat /\ Generated \in Nat /\ Outstanding \in Nat
        /\ \A s \in Samples : Whole(s) \in Nat
    BY Numbers
  <1> QED
    BY <1>1, <1>2 DEF Still, Shrinks, SizesShrink

\* What there is to show of a step: its effect on each place.
LEMMA PlacesShrink ==
  ASSUME TypeOK, TypeOK', fed' = fed,
         Cardinality(InFlight') + Len(cancelQ') <= Cardinality(InFlight) + Len(cancelQ),
         Cardinality(InFlight') + Len(cancelQ') + Hits(queue', SampleEntries)
           <= Cardinality(InFlight) + Len(cancelQ) + Hits(queue, SampleEntries),
         Cardinality(InFlight') + Len(cancelQ') + Hits(queue', SampleEntries)
             + One(held' # None)
           <= Cardinality(InFlight) + Len(cancelQ) + Hits(queue, SampleEntries)
                + One(held # None),
         \A s \in Samples :
           Hits(pending', {s}) + One(held' = s) + Hits(cancelQ', {s}) + One(s \in InFlight')
             + Hits(queue', With(s)) + Hits(batch', With(s)) + One(s \in trained') <= Whole(s)
  PROVE  Shrinks
PROOF
  <1>1. Generated = Started + Hits(queue, SampleEntries)
        /\ Outstanding = Generated + One(held # None)
    BY Numbers
  <1>2. queue' \in Seq(QueueEntries)
    BY DEF TypeOK, RollouterTypeOK, QueueTypeOK
  <1>3. {i \in DOMAIN queue' : queue'[i] # End}
        = {i \in DOMAIN queue' : queue'[i] \in SampleEntries}
    BY <1>2, NotTheEnd
  <1>4. Started' = Cardinality(InFlight') + Len(cancelQ')
    BY DEF Started
  <1>5. Generated' = Started' + Hits(queue', SampleEntries)
    BY <1>3 DEF Generated, Started, Hits
  <1>6. Outstanding' = Generated' + One(held' # None)
    BY DEF Outstanding
  <1>7. \A s \in Samples : Whole(s)' <= Whole(s)
    BY DEF Whole
  <1>8. Started' <= Started
    BY <1>4 DEF Started
  <1>9. Generated' <= Generated
    BY <1>1, <1>4, <1>5 DEF Started
  <1>10. Outstanding' <= Outstanding
    BY <1>1, <1>4, <1>5, <1>6 DEF Started
  <1> QED
    BY <1>7, <1>8, <1>9, <1>10 DEF Shrinks, SizesShrink

LEMMA CancelledShrinks ==
  ASSUME TypeOK, TypeOK', TakeCancelled, UNCHANGED trainVars
  PROVE  Shrinks
PROOF
  <1>1. /\ cancelQ \in Seq(Samples) /\ cancelQ # << >> /\ cancelQ' = Tail(cancelQ)
        /\ held' = Head(cancelQ)
        /\ UNCHANGED <<pending, fed, task, queue, batch, trained>>
    BY DEF TakeCancelled, CancelledRest, TypeOK, RollouterTypeOK, WorkTypeOK, mqVars, feedVars,
           taskVars, trainVars
  <1>2. InFlight' = InFlight /\ Len(cancelQ') = Len(cancelQ) - 1
    BY <1>1 DEF InFlight
  <1>3. ASSUME NEW s \in Samples
        PROVE  Hits(pending', {s}) + One(held' = s) + Hits(cancelQ', {s}) + One(s \in InFlight')
                 + Hits(queue', With(s)) + Hits(batch', With(s)) + One(s \in trained') <= Whole(s)
    <2>1. Hits(cancelQ', {s}) = Hits(cancelQ, {s}) - One(Head(cancelQ) \in {s})
      BY <1>1, HitsTail
    <2>2. One(held' = s) = One(Head(cancelQ) \in {s}) /\ One(held' = s) \in {0, 1}
          /\ One(held = s) \in {0, 1} /\ One(s \in InFlight) \in {0, 1}
          /\ One(s \in trained) \in {0, 1}
      BY <1>1 DEF One
    <2>3. /\ Hits(pending, {s}) \in Nat /\ Hits(cancelQ, {s}) \in Nat
          /\ Hits(queue, With(s)) \in Nat /\ Hits(batch, With(s)) \in Nat
      BY Numbers
    <2>4. /\ Hits(pending', {s}) = Hits(pending, {s})
          /\ Hits(queue', With(s)) = Hits(queue, With(s))
          /\ Hits(batch', With(s)) = Hits(batch, With(s))
          /\ One(s \in InFlight') = One(s \in InFlight) /\ One(s \in trained') = One(s \in trained)
      BY <1>1, <1>2
    <2> QED
      BY <2>1, <2>2, <2>3, <2>4 DEF Whole
  <1>4. One(held' # None) \in {0, 1} /\ One(held # None) \in {0, 1}
    BY DEF One
  <1>5. Cardinality(InFlight) \in Nat /\ Len(cancelQ) \in Nat /\ Hits(queue, SampleEntries) \in Nat
    BY Numbers
  <1> QED
    BY <1>1, <1>2, <1>3, <1>4, <1>5, PlacesShrink

\* The places of a sample, as numbers.
LEMMA Parts ==
  ASSUME TypeOK, NEW s \in Samples
  PROVE  /\ Hits(pending, {s}) \in Nat /\ Hits(cancelQ, {s}) \in Nat
         /\ Hits(queue, With(s)) \in Nat /\ Hits(batch, With(s)) \in Nat
         /\ One(held = s) \in {0, 1} /\ One(s \in InFlight) \in {0, 1}
         /\ One(s \in trained) \in {0, 1}
  BY Numbers DEF One

LEMMA Sizes ==
  ASSUME TypeOK
  PROVE  /\ Cardinality(InFlight) \in Nat /\ Len(cancelQ) \in Nat
         /\ Hits(queue, SampleEntries) \in Nat /\ One(held # None) \in {0, 1}
  BY Numbers DEF One

LEMMA RequeueShrinks ==
  ASSUME TypeOK, TypeOK', NEW s \in Samples, RequeueSample(s), UNCHANGED trainVars
  PROVE  Shrinks
PROOF
  <1>1. /\ cancelQ \in Seq(Samples) /\ cancelQ' = Append(cancelQ, s)
        /\ task[s] = "cancelled" /\ task' = [task EXCEPT ![s] = "none"]
        /\ UNCHANGED <<pending, fed, held, queue, batch, trained>>
    BY DEF RequeueSample, EndTask, TypeOK, RollouterTypeOK, WorkTypeOK, mqVars, feedVars,
           taskFrame, procVars, trainVars
  <1>2. s \in InFlight /\ Len(cancelQ') = Len(cancelQ) + 1
    BY <1>1 DEF InFlight
  <1>3. /\ InFlight' = InFlight \ {s}
        /\ Cardinality(InFlight') = Cardinality(InFlight) - One(s \in InFlight)
        /\ One(s \in InFlight) = 1
    BY <1>1, <1>2, TaskMoves DEF TaskStates, One
  <1>4. ASSUME NEW r \in Samples
        PROVE  Hits(pending', {r}) + One(held' = r) + Hits(cancelQ', {r}) + One(r \in InFlight')
                 + Hits(queue', With(r)) + Hits(batch', With(r)) + One(r \in trained') <= Whole(r)
    <2>1. Hits(cancelQ', {r}) = Hits(cancelQ, {r}) + One(s \in {r})
      BY <1>1, HitsAppend
    <2>2. One(r \in InFlight') = One(r \in InFlight) - One(s \in {r})
          /\ One(s \in {r}) \in {0, 1}
      BY <1>2, <1>3 DEF One
    <2>3. /\ Hits(pending', {r}) = Hits(pending, {r}) /\ One(held' = r) = One(held = r)
          /\ Hits(queue', With(r)) = Hits(queue, With(r))
          /\ Hits(batch', With(r)) = Hits(batch, With(r))
          /\ One(r \in trained') = One(r \in trained)
      BY <1>1
    <2> QED
      BY <2>1, <2>2, <2>3, Parts DEF Whole
  <1>5. One(held' # None) = One(held # None)
        /\ Hits(queue', SampleEntries) = Hits(queue, SampleEntries)
    BY <1>1
  <1> QED
    BY <1>1, <1>2, <1>3, <1>4, <1>5, Sizes, PlacesShrink

LEMMA QueueShrinks ==
  ASSUME TypeOK, TypeOK', NEW s \in Samples, QueueSample(s), UNCHANGED trainVars
  PROVE  Shrinks
PROOF
  <1> DEFINE e == [id |-> s, start |-> startVer[s], ver |-> doneVer[s]]
  <1>1. /\ task[s] = "put" /\ task' = [task EXCEPT ![s] = "acked"]
        /\ UNCHANGED <<pending, fed, held, cancelQ, batch, trained>>
        /\ MQ!PutSample(e) /\ QueueTypeOK
    BY DEF QueueSample, TypeOK, RollouterTypeOK, feedVars, taskFrame, procVars, trainVars
  <1>2. e \in QueueEntries /\ e.id = s
    BY DEF TypeOK, RollouterTypeOK, WorkTypeOK, QueueEntries, SampleEntries
  <1>3. s \in InFlight
    BY <1>1 DEF InFlight
  <1>4. /\ InFlight' = InFlight \ {s}
        /\ Cardinality(InFlight') = Cardinality(InFlight) - One(s \in InFlight)
        /\ One(s \in InFlight) = 1
    BY <1>1, <1>3, TaskMoves DEF TaskStates, One
  <1> HIDE DEF e
  <1>5. ASSUME NEW r \in Samples
        PROVE  Hits(pending', {r}) + One(held' = r) + Hits(cancelQ', {r}) + One(r \in InFlight')
                 + Hits(queue', With(r)) + Hits(batch', With(r)) + One(r \in trained') <= Whole(r)
    <2>1. Hits(queue', With(r)) \in Nat
          /\ Hits(queue', With(r)) <= Hits(queue, With(r)) + One(e \in With(r))
      BY <1>1, <1>2, PutHits
    <2>2. e \in With(r) <=> s = r
      BY <1>2 DEF With
    <2>3. One(r \in InFlight') = One(r \in InFlight) - One(e \in With(r))
          /\ One(e \in With(r)) \in {0, 1}
      BY <1>3, <1>4, <2>2 DEF One
    <2>4. /\ Hits(pending', {r}) = Hits(pending, {r}) /\ One(held' = r) = One(held = r)
          /\ Hits(cancelQ', {r}) = Hits(cancelQ, {r})
          /\ Hits(batch', With(r)) = Hits(batch, With(r))
          /\ One(r \in trained') = One(r \in trained)
      BY <1>1
    <2> QED
      BY <2>1, <2>3, <2>4, Parts DEF Whole
  <1>6. Hits(queue', SampleEntries) \in Nat
        /\ Hits(queue', SampleEntries) <= Hits(queue, SampleEntries) + One(e \in SampleEntries)
        /\ One(e \in SampleEntries) \in {0, 1}
    BY <1>1, <1>2, PutHits DEF One
  <1>7. One(held' # None) = One(held # None) /\ Len(cancelQ') = Len(cancelQ)
    BY <1>1
  <1> QED
    BY <1>1, <1>4, <1>5, <1>6, <1>7, Sizes, PlacesShrink

\* A task that ends, or goes on: nothing else changes.
LEMMA TaskShrinks ==
  ASSUME TypeOK, TypeOK', NEW s \in Samples, UNCHANGED trainVars,
         \/ StartTask(s) \/ SendSample(s) \/ FinishTask(s) \/ RaiseTask(s)
         \/ AcceptRequest(s) \/ CompleteRequest(s) \/ InterruptRequest(s) \/ FailRequest(s)
  PROVE  Shrinks
PROOF
  <1>1. UNCHANGED <<pending, fed, held, cancelQ, queue, batch, trained>>
    BY DEF StartTask, SendSample, FinishTask, RaiseTask, AcceptRequest, CompleteRequest,
           InterruptRequest, FailRequest, serviceFrame, taskFrame, feedVars, procVars, mqVars,
           trainVars
  <1>2. CASE FinishTask(s) \/ RaiseTask(s)
    <2>1. task' = [task EXCEPT ![s] = "none"]
      BY <1>2 DEF FinishTask, RaiseTask, EndTask
    <2>2. /\ InFlight' = InFlight \ {s}
          /\ Cardinality(InFlight') = Cardinality(InFlight) - One(s \in InFlight)
          /\ One(s \in InFlight) \in {0, 1}
      BY <2>1, TaskMoves DEF TaskStates, One
    <2>3. ASSUME NEW r \in Samples
          PROVE  Hits(pending', {r}) + One(held' = r) + Hits(cancelQ', {r})
                   + One(r \in InFlight') + Hits(queue', With(r)) + Hits(batch', With(r))
                   + One(r \in trained') <= Whole(r)
      <3>1. One(r \in InFlight') <= One(r \in InFlight) /\ One(r \in InFlight') \in {0, 1}
        BY <2>2 DEF One
      <3>2. /\ Hits(pending', {r}) = Hits(pending, {r}) /\ One(held' = r) = One(held = r)
            /\ Hits(cancelQ', {r}) = Hits(cancelQ, {r})
            /\ Hits(queue', With(r)) = Hits(queue, With(r))
            /\ Hits(batch', With(r)) = Hits(batch, With(r))
            /\ One(r \in trained') = One(r \in trained)
        BY <1>1
      <3> QED
        BY <3>1, <3>2, Parts DEF Whole
    <2>4. One(held' # None) = One(held # None) /\ Len(cancelQ') = Len(cancelQ)
          /\ Hits(queue', SampleEntries) = Hits(queue, SampleEntries)
      BY <1>1
    <2> QED
      BY <1>1, <2>2, <2>3, <2>4, Sizes, PlacesShrink
  <1>3. CASE ~(FinishTask(s) \/ RaiseTask(s))
    <2>1. /\ task[s] \notin {"none", "acked"}
          /\ \E x \in {"request", "put", "cancelled", "generating", "generated", "error"} :
               task' = [task EXCEPT ![s] = x]
      BY <1>3 DEF StartTask, SendSample, AcceptRequest, CompleteRequest, InterruptRequest,
                  FailRequest
    <2>2. s \in InFlight
      BY <2>1 DEF InFlight
    <2>3. InFlight' = InFlight \cup {s}
      BY <2>1, TaskMoves DEF TaskStates
    <2> QED
      BY <1>1, <2>2, <2>3, StillShrinks DEF Still
  <1> QED
    BY <1>2, <1>3

LEMMA EndShrinks ==
  ASSUME TypeOK, TypeOK', PutEnd, UNCHANGED trainVars
  PROVE  Shrinks
PROOF
  <1>1. /\ UNCHANGED <<pending, fed, held, cancelQ, task, batch, trained>>
        /\ MQ!PutSample(End) /\ QueueTypeOK /\ End \in QueueEntries
    BY DEF PutEnd, mainFrame, feedVars, procVars, taskVars, trainVars, TypeOK, RollouterTypeOK,
           QueueEntries
  <1>2. InFlight' = InFlight
    BY <1>1 DEF InFlight
  <1>3. End \notin SampleEntries /\ \A r \in Samples : End \notin With(r)
    BY RolloutAssumption DEF RolloutAssumption, SampleEntries, End, Samples, None, With
  <1>4. ASSUME NEW S, End \notin S
        PROVE  Hits(queue', S) \in Nat /\ Hits(queue', S) <= Hits(queue, S)
    <2>1. Hits(queue', S) \in Nat /\ Hits(queue', S) <= Hits(queue, S) + One(End \in S)
      BY <1>1, PutHits
    <2>2. One(End \in S) = 0 /\ Hits(queue, S) \in Nat
      BY <1>1, <1>4, HitsType DEF One, QueueTypeOK
    <2> QED
      BY <2>1, <2>2
  <1>5. ASSUME NEW r \in Samples
        PROVE  Hits(pending', {r}) + One(held' = r) + Hits(cancelQ', {r}) + One(r \in InFlight')
                 + Hits(queue', With(r)) + Hits(batch', With(r)) + One(r \in trained') <= Whole(r)
    <2>1. Hits(queue', With(r)) \in Nat /\ Hits(queue', With(r)) <= Hits(queue, With(r))
      BY <1>3, <1>4
    <2>2. /\ Hits(pending', {r}) = Hits(pending, {r}) /\ One(held' = r) = One(held = r)
          /\ Hits(cancelQ', {r}) = Hits(cancelQ, {r}) /\ One(r \in InFlight') = One(r \in InFlight)
          /\ Hits(batch', With(r)) = Hits(batch, With(r))
          /\ One(r \in trained') = One(r \in trained)
      BY <1>1, <1>2
    <2> QED
      BY <2>1, <2>2, Parts DEF Whole
  <1>6. /\ Hits(queue', SampleEntries) \in Nat
        /\ Hits(queue', SampleEntries) <= Hits(queue, SampleEntries)
        /\ One(held' # None) = One(held # None) /\ Len(cancelQ') = Len(cancelQ)
    BY <1>1, <1>3, <1>4
  <1> QED
    BY <1>1, <1>2, <1>5, <1>6, Sizes, PlacesShrink

\* What the trainer takes, trains on or discards leaves the queue or the batch.
LEMMA TrainerShrinks ==
  ASSUME TypeOK, TypeOK', UNCHANGED rolloutVars, CollectSample \/ TrainStep \/ ClearAtEnd
  PROVE  Shrinks
PROOF
  <1>1. UNCHANGED <<pending, fed, held, cancelQ, task>>
    BY DEF rolloutVars, feedVars, taskVars, procVars
  <1>2. InFlight' = InFlight
    BY <1>1 DEF InFlight
  <1>3. queue \in Seq(QueueEntries) /\ batch \in Seq(SampleEntries) /\ QueueTypeOK
    BY DEF TypeOK, RollouterTypeOK, QueueTypeOK
  <1> DEFINE Moves(r) ==
        Hits(queue', With(r)) + Hits(batch', With(r)) + One(r \in trained')
          <= Hits(queue, With(r)) + Hits(batch, With(r)) + One(r \in trained)
  <1>4. ASSUME \A r \in Samples : Moves(r),
               Hits(queue', SampleEntries) <= Hits(queue, SampleEntries)
        PROVE  Shrinks
    <2>1. queue' \in Seq(QueueEntries) /\ batch' \in Seq(SampleEntries)
      BY DEF TypeOK, RollouterTypeOK, QueueTypeOK
    <2>2. ASSUME NEW r \in Samples
          PROVE  Hits(pending', {r}) + One(held' = r) + Hits(cancelQ', {r})
                   + One(r \in InFlight') + Hits(queue', With(r)) + Hits(batch', With(r))
                   + One(r \in trained') <= Whole(r)
      <3>1. Moves(r) /\ Hits(queue', With(r)) \in Nat /\ Hits(batch', With(r)) \in Nat
            /\ One(r \in trained') \in {0, 1}
        BY <1>4, <2>1, HitsType DEF One
      <3>2. /\ Hits(pending', {r}) = Hits(pending, {r}) /\ One(held' = r) = One(held = r)
            /\ Hits(cancelQ', {r}) = Hits(cancelQ, {r})
            /\ One(r \in InFlight') = One(r \in InFlight)
        BY <1>1, <1>2
      <3> QED
        BY <3>1, <3>2, Parts DEF Whole
    <2>3. Hits(queue', SampleEntries) \in Nat
      BY <2>1, HitsType
    <2>4. One(held' # None) = One(held # None) /\ Len(cancelQ') = Len(cancelQ)
      BY <1>1
    <2> HIDE DEF Moves
    <2> QED
      BY <1>1, <1>2, <1>4, <2>2, <2>3, <2>4, Sizes, PlacesShrink
  <1>5. CASE CollectSample
    <2>1. MQ!GetSample("trainer") /\ trained' = trained
      BY <1>5 DEF CollectSample
    <2>2. \A S : /\ MQ!PopLeft(queue).item = Head(queue) /\ Head(queue) \in QueueEntries
                 /\ Hits(queue', S) = Hits(queue, S) - One(Head(queue) \in S)
      BY <1>3, <2>1, GetHits
    <2>3. \/ batch' = << >>
          \/ Head(queue) \in SampleEntries /\ batch' = Append(batch, Head(queue))
      BY <1>5, <2>2 DEF CollectSample, QueueEntries
    <2>4. ASSUME NEW r \in Samples
          PROVE  Moves(r)
      <3>1. Hits(batch', With(r)) = 0
            \/ Hits(batch', With(r)) = Hits(batch, With(r)) + One(Head(queue) \in With(r))
        BY <1>3, <2>3, HitsEmpty, HitsAppend
      <3>2. Hits(queue', With(r)) = Hits(queue, With(r)) - One(Head(queue) \in With(r))
            /\ One(Head(queue) \in With(r)) \in {0, 1} /\ One(r \in trained') = One(r \in trained)
        BY <2>1, <2>2 DEF One
      <3>3. Hits(queue, With(r)) \in Nat /\ Hits(batch, With(r)) \in Nat
            /\ One(r \in trained) \in {0, 1}
        BY Parts
      <3> QED
        BY <3>1, <3>2, <3>3
    <2>5. Hits(queue', SampleEntries) <= Hits(queue, SampleEntries)
      <3>1. Hits(queue', SampleEntries)
              = Hits(queue, SampleEntries) - One(Head(queue) \in SampleEntries)
            /\ One(Head(queue) \in SampleEntries) \in {0, 1}
        BY <2>2 DEF One
      <3> QED
        BY <3>1, Sizes
    <2> QED
      BY <1>4, <2>4, <2>5
  <1>6. CASE TrainStep
    <2>1. queue' = queue /\ batch' = << >> /\ trained' = trained \cup BatchIds
      BY <1>6 DEF TrainStep, mqVars
    <2>2. ASSUME NEW r \in Samples
          PROVE  Moves(r)
      <3>1. Hits(batch', With(r)) = 0 /\ Hits(queue', With(r)) = Hits(queue, With(r))
        BY <2>1, HitsEmpty
      <3>2. Hits(queue, With(r)) \in Nat /\ Hits(batch, With(r)) \in Nat
            /\ One(r \in trained) \in {0, 1}
        BY Parts
      <3>3. CASE r \in BatchIds
        <4>1. PICK i \in 1..Len(batch) : batch[i].id = r
          BY <3>3 DEF BatchIds
        <4>2. batch[i] \in SampleEntries
          BY <1>3
        <4>3. i \in {j \in DOMAIN batch : batch[j] \in With(r)}
          BY <1>3, <4>1, <4>2 DEF With, QueueEntries
        <4> DEFINE A == {j \in DOMAIN batch : batch[j] \in With(r)}
        <4>4. IsFiniteSet(A)
          BY <1>3, HitsType
        <4>5. A # {} /\ Cardinality(A) # 0
          BY <4>3, <4>4, FS_EmptySet
        <4>6. Hits(batch, With(r)) # 0
          BY <4>5 DEF Hits
        <4>7. One(r \in trained') \in {0, 1}
          BY DEF One
        <4> QED
          BY <3>1, <3>2, <4>6, <4>7
      <3>4. CASE r \notin BatchIds
        <4>1. One(r \in trained') = One(r \in trained)
          BY <2>1, <3>4 DEF One
        <4> QED
          BY <3>1, <3>2, <4>1
      <3> QED
        BY <3>3, <3>4
    <2>3. Hits(queue', SampleEntries) <= Hits(queue, SampleEntries)
      BY <2>1, Sizes
    <2> QED
      BY <1>4, <2>2, <2>3
  <1>7. CASE ClearAtEnd
    <2>1. queue' = << >> /\ batch' = batch /\ trained' = trained
      BY <1>7 DEF ClearAtEnd, MQ!ClearQueue, trainVars
    <2>2. ASSUME NEW r \in Samples
          PROVE  Moves(r)
      <3>1. Hits(queue', With(r)) = 0 /\ Hits(batch', With(r)) = Hits(batch, With(r))
            /\ One(r \in trained') = One(r \in trained)
        BY <2>1, HitsEmpty
      <3>2. Hits(queue, With(r)) \in Nat /\ Hits(batch, With(r)) \in Nat
            /\ One(r \in trained) \in {0, 1}
        BY Parts
      <3> QED
        BY <3>1, <3>2
    <2>3. Hits(queue', SampleEntries) <= Hits(queue, SampleEntries)
      BY <2>1, HitsEmpty, Sizes
    <2> QED
      BY <1>4, <2>2, <2>3
  <1> QED
    BY <1>5, <1>6, <1>7

\* Steps that move no sample.
LEMMA OtherShrinks ==
  ASSUME TypeOK,
         \/ /\ UNCHANGED <<trainer, trainVars, sync>>
            /\ \/ SeePause \/ AwaitPending \/ PauseSelf \/ TestDrain \/ EnterDrain \/ Reap
               \/ Idle \/ Wake
               \/ MonitorStart \/ MonitorCheck \/ MonitorWake \/ MonitorLift
               \/ AskStop \/ StopRunning \/ RpcStep \/ UpdateSize
               \/ PauseServers \/ ResumeServers
         \/ Load \/ Launch \/ LogValidation \/ AwaitSamples \/ StartSync \/ FinishTraining
         \/ FinishValidation \/ SyncStep \/ UNCHANGED vars
  PROVE  Shrinks
PROOF
  <1>1. CASE /\ UNCHANGED <<trainer, trainVars, sync>>
             /\ \/ SeePause \/ AwaitPending \/ PauseSelf \/ TestDrain \/ EnterDrain \/ Reap
                \/ Idle \/ Wake
    <2>1. UNCHANGED <<pending, fed, held, cancelQ, queue, batch, trained, task>>
      BY <1>1 DEF SeePause, AwaitPending, PauseSelf, TestDrain, EnterDrain, Reap, Idle, Wake,
                  procFrame, mqVars, feedVars, taskVars, trainVars
    <2> QED
      BY <2>1, StillShrinks DEF Still, InFlight
  <1>2. CASE /\ UNCHANGED <<trainer, trainVars, sync>>
             /\ \/ MonitorStart \/ MonitorCheck \/ MonitorWake \/ MonitorLift
                \/ AskStop \/ StopRunning \/ PauseServers \/ ResumeServers
    <2>1. UNCHANGED <<pending, fed, held, cancelQ, queue, batch, trained, task>>
      BY <1>2 DEF MonitorStart, MonitorCheck, MonitorWake, MonitorLift, AskStop, StopRunning,
                  PauseServers, ResumeServers, monitorFrame, mainFrame, serviceFrame,
                  taskFrame, procVars, mqVars, feedVars, taskVars, trainVars
    <2> QED
      BY <2>1, StillShrinks DEF Still, InFlight
  <1>3. CASE UNCHANGED <<trainer, trainVars, sync>> /\ (RpcStep \/ UpdateSize)
    <2>1. UNCHANGED <<pending, fed, held, cancelQ, queue, batch, trained, task>>
      BY <1>3 DEF RpcStep, CallArrives, PauseBegin, PauseCancelled, PauseGathered, PauseEnd,
                  UpdateBegin, UpdateStaleness, UpdateEnd, ResumeBegin, ResumeEnd, UpdateSize,
                  callFrame, rpcFrame, MQ!PutValidate, mqVars, feedVars, taskVars, trainVars
    <2> QED
      BY <2>1, StillShrinks DEF Still, InFlight
  <1>4. CASE \/ Load \/ Launch \/ LogValidation \/ AwaitSamples \/ StartSync \/ FinishTraining
             \/ FinishValidation \/ SyncStep \/ UNCHANGED vars
    <2>1. UNCHANGED <<pending, fed, held, cancelQ, queue, batch, trained, task>>
      BY <1>4 DEF Load, Launch, StartFit, LogValidation, AwaitSamples, StartSync,
                  FinishTraining, FinishValidation, SyncStep, SyncAnnounce, SyncEnd,
                  TakeValidation, MQ!GetValidate, MQ!AwaitSample, MQ!UpdateMqVersion, vars,
                  rolloutVars, procVars, mqVars, feedVars, taskVars, trainVars
    <2> QED
      BY <2>1, StillShrinks DEF Still, InFlight
  <1> QED
    BY <1>1, <1>2, <1>3, <1>4

\* The feeder's samples are new to the system.
LEMMA FeedGrows ==
  ASSUME TypeOK, FeedSamples, UNCHANGED trainVars
  PROVE  /\ FeedCount \in Nat /\ fed' = fed + FeedCount /\ SizesShrink
         /\ \A s \in Samples :
              Whole(s)' = Whole(s) + One(fed < s /\ s <= fed + FeedCount)
PROOF
  <1>1. /\ pending \in Seq(1..Done) /\ fed \in 0..Done /\ fed < Done
        /\ Len(pending) < PendingCap /\ PendingCap \in Nat /\ N \in Nat /\ Done = N + 1
        /\ pending' = pending \o [i \in 1..FeedCount |-> fed + i]
        /\ fed' = fed + FeedCount
        /\ UNCHANGED <<held, cancelQ, queue, batch, trained, task>>
    BY RolloutAssumption
    DEF RolloutAssumption, FeedSamples, TypeOK, RollouterTypeOK, WorkTypeOK, Done, mqVars,
        taskVars, procVars, trainVars
  <1>2. FeedCount \in Nat
    BY <1>1 DEF FeedCount
  <1>3. pending \in Seq(Nat)
    <2>1. \A i \in 1..Len(pending) : pending[i] \in Nat
      BY <1>1
    <2> QED
      BY <1>1, <2>1
  <1>4. InFlight' = InFlight
    BY <1>1 DEF InFlight
  <1>5. SizesShrink
    <2>1. Started' = Started /\ Generated' = Generated /\ Outstanding' = Outstanding
      BY <1>1, <1>4 DEF Started, Generated, Outstanding
    <2> QED
      BY <2>1, Numbers DEF SizesShrink
  <1>6. ASSUME NEW s \in Samples
        PROVE  Whole(s)' = Whole(s) + One(fed < s /\ s <= fed + FeedCount)
    <2>0. fed \in Nat /\ s \in Nat
      BY <1>1 DEF Samples
    <2>1. Hits(pending', {s}) = Hits(pending, {s}) + One(fed < s /\ s <= fed + FeedCount)
      <3> DEFINE n == FeedCount
      <3>1. n \in Nat /\ pending' = pending \o [i \in 1..n |-> fed + i]
        BY <1>1, <1>2
      <3> HIDE DEF n
      <3>2. Hits(pending \o [i \in 1..n |-> fed + i], {s})
              = Hits(pending, {s}) + One(fed < s /\ s <= fed + n)
        BY <1>3, <2>0, <3>1, HitsRun
      <3>3. Hits(pending', {s}) = Hits(pending, {s}) + One(fed < s /\ s <= fed + n)
        BY <3>1, <3>2
      <3> QED
        BY <3>3 DEF n
    <2>2. /\ One(held' = s) = One(held = s)
          /\ Hits(cancelQ', {s}) = Hits(cancelQ, {s}) /\ One(s \in InFlight') = One(s \in InFlight)
          /\ Hits(queue', With(s)) = Hits(queue, With(s))
          /\ Hits(batch', With(s)) = Hits(batch, With(s))
          /\ One(s \in trained') = One(s \in trained)
      BY <1>1, <1>4
    <2>3. Whole(s)' = Hits(pending', {s}) + One(held' = s) + Hits(cancelQ', {s})
                        + One(s \in InFlight') + Hits(queue', With(s)) + Hits(batch', With(s))
                        + One(s \in trained')
      BY DEF Whole
    <2>4. One(fed < s /\ s <= fed + FeedCount) \in {0, 1}
      BY DEF One
    <2> QED
      BY <2>1, <2>2, <2>3, <2>4, Parts DEF Whole
  <1> QED
    BY <1>1, <1>2, <1>5, <1>6

\* The processor takes a new sample: nothing is in two places, and it holds one.
LEMMA TakeMoves ==
  ASSUME TypeOK, TakePending, UNCHANGED trainVars
  PROVE  /\ fed' = fed /\ \A s \in Samples : Whole(s)' <= Whole(s)
         /\ Started' = Started /\ Generated' = Generated /\ Outstanding' <= Generated + 1
PROOF
  <1>1. /\ pending \in Seq(1..Done) /\ pending # << >> /\ pending' = Tail(pending)
        /\ held' = (IF Head(pending) = Done THEN held ELSE Head(pending))
        /\ UNCHANGED <<fed, cancelQ, queue, batch, trained, task>>
    BY DEF TakePending, TypeOK, RollouterTypeOK, WorkTypeOK, mqVars, taskVars, trainVars
  <1>2. InFlight' = InFlight
    BY <1>1 DEF InFlight
  <1>3. ASSUME NEW s \in Samples
        PROVE  Whole(s)' <= Whole(s)
    <2>1. Hits(pending', {s}) = Hits(pending, {s}) - One(Head(pending) \in {s})
      BY <1>1, HitsTail
    <2>2. s # Done
      BY RolloutAssumption DEF RolloutAssumption, Samples, Done
    <2>3. One(held' = s) <= One(held = s) + One(Head(pending) \in {s})
          /\ One(held' = s) \in {0, 1} /\ One(Head(pending) \in {s}) \in {0, 1}
      BY <1>1, <2>2 DEF One
    <2>4. /\ Hits(cancelQ', {s}) = Hits(cancelQ, {s}) /\ One(s \in InFlight') = One(s \in InFlight)
          /\ Hits(queue', With(s)) = Hits(queue, With(s))
          /\ Hits(batch', With(s)) = Hits(batch, With(s))
          /\ One(s \in trained') = One(s \in trained)
      BY <1>1, <1>2
    <2>5. Whole(s)' = Hits(pending', {s}) + One(held' = s) + Hits(cancelQ', {s})
                        + One(s \in InFlight') + Hits(queue', With(s)) + Hits(batch', With(s))
                        + One(s \in trained')
      BY DEF Whole
    <2> QED
      BY <2>1, <2>3, <2>4, <2>5, Parts DEF Whole
  <1>4. Started' = Started /\ Generated' = Generated
    BY <1>1, <1>2 DEF Started, Generated
  <1>5. Outstanding' = Generated' + One(held' # None) /\ One(held' # None) \in {0, 1}
    BY DEF Outstanding, One
  <1>6. Generated \in Nat
    BY Numbers
  <1> QED
    BY <1>1, <1>3, <1>4, <1>5, <1>6

\* The sample the processor holds becomes a task.
LEMMA SubmitMoves ==
  ASSUME TypeOK, Submit, UNCHANGED trainVars
  PROVE  fed' = fed /\ (\A s \in Samples : Whole(s)' <= Whole(s)) /\ Outstanding' <= Outstanding
PROOF
  <1>1. /\ UNCHANGED <<pending, fed, cancelQ, queue, batch, trained>>
        /\ held \in Samples \cup {None} /\ task \in [Samples -> TaskStates]
        /\ \/ UNCHANGED <<task, held>>
           \/ task' = [task EXCEPT ![held] = "new"] /\ held' = None
    BY DEF Submit, TypeOK, RollouterTypeOK, WorkTypeOK, LoopTypeOK, mqVars, feedVars, trainVars
  <1>2. CASE UNCHANGED <<task, held>>
    <2>1. Still
      BY <1>1, <1>2 DEF Still, InFlight
    <2> QED
      BY <2>1, StillShrinks DEF Shrinks, SizesShrink
  <1>3. CASE held = None /\ task' = [task EXCEPT ![held] = "new"] /\ held' = None
    <2>1. None \notin Samples
      BY RolloutAssumption DEF RolloutAssumption, Samples, None
    <2>2. task' = task
      BY <1>1, <1>3, <2>1
    <2>3. Still
      BY <1>1, <1>3, <2>2 DEF Still, InFlight
    <2> QED
      BY <2>3, StillShrinks DEF Shrinks, SizesShrink
  <1>4. CASE held \in Samples /\ task' = [task EXCEPT ![held] = "new"] /\ held' = None
    <2>1. /\ InFlight' = InFlight \cup {held}
          /\ Cardinality(InFlight') = Cardinality(InFlight) + 1 - One(held \in InFlight)
          /\ One(held \in InFlight) \in {0, 1}
      BY <1>4, TaskMoves DEF TaskStates, One
    <2>2. One(held # None) = 1 /\ One(held' # None) = 0
      BY <1>4, RolloutAssumption DEF RolloutAssumption, Samples, None, One
    <2>3. ASSUME NEW s \in Samples
          PROVE  Whole(s)' <= Whole(s)
      <3>1. /\ One(s \in InFlight') <= One(s \in InFlight) + One(held = s)
            /\ One(s \in InFlight') \in {0, 1}
        BY <2>1 DEF One
      <3>2. One(held' = s) = 0
        BY <1>4, RolloutAssumption DEF RolloutAssumption, Samples, None, One
      <3>3. /\ Hits(pending', {s}) = Hits(pending, {s}) /\ Hits(cancelQ', {s}) = Hits(cancelQ, {s})
            /\ Hits(queue', With(s)) = Hits(queue, With(s))
            /\ Hits(batch', With(s)) = Hits(batch, With(s))
            /\ One(s \in trained') = One(s \in trained)
        BY <1>1
      <3>4. Whole(s)' = Hits(pending', {s}) + One(held' = s) + Hits(cancelQ', {s})
                          + One(s \in InFlight') + Hits(queue', With(s)) + Hits(batch', With(s))
                          + One(s \in trained')
        BY DEF Whole
      <3> QED
        BY <3>1, <3>2, <3>3, <3>4, Parts DEF Whole
    <2>4. Generated' <= Generated + 1
      <3> DEFINE Q == Cardinality({i \in DOMAIN queue : queue[i] # End})
      <3>1. Q \in Nat
        <4>1. queue \in Seq(QueueEntries)
          BY DEF TypeOK, RollouterTypeOK, QueueTypeOK
        <4> QED
          BY <4>1, NotTheEnd, HitsType DEF Hits
      <3>2. Generated = Cardinality(InFlight) + Len(cancelQ) + Q
            /\ Generated' = Cardinality(InFlight') + Len(cancelQ) + Q
        BY <1>1 DEF Generated
      <3> HIDE DEF Q
      <3> QED
        BY <2>1, <3>1, <3>2, Sizes
    <2>5. Outstanding' = Generated' + One(held' # None)
          /\ Outstanding = Generated + One(held # None)
      BY DEF Outstanding
    <2>6. Outstanding' <= Outstanding
      <3>1. Generated' \in Int
        <4> DEFINE Q == Cardinality({i \in DOMAIN queue : queue[i] # End})
        <4>1. queue \in Seq(QueueEntries)
          BY DEF TypeOK, RollouterTypeOK, QueueTypeOK
        <4>2. Q \in Nat
          BY <4>1, NotTheEnd, HitsType DEF Hits
        <4>3. Generated' = Cardinality(InFlight') + Len(cancelQ) + Q
          BY <1>1 DEF Generated
        <4> HIDE DEF Q
        <4> QED
          BY <2>1, <4>2, <4>3, Sizes
      <3> QED
        BY <2>2, <2>4, <2>5, <3>1, Numbers
    <2> QED
      BY <1>1, <2>3, <2>6
  <1> QED
    BY <1>1, <1>2, <1>3, <1>4

-----------------------------------------------------------------------------
(* The two invariants over every step.                                     *)

SizesOK ==
  /\ Started \in Nat /\ Generated \in Nat /\ Outstanding \in Nat
  /\ \A s \in Samples : Whole(s) \in Nat

LEMMA SizesType == TypeOK => SizesOK
  BY Numbers DEF SizesOK

LEMMA SizesTypeNext == TypeOK' => SizesOK'
  BY SizesType, PTL

\* Three kinds of step do more than move or lose samples.
LEMMA StepShapes ==
  ASSUME TypeOK, TypeOK', [Next]_vars
  PROVE  \/ Shrinks
         \/ UNCHANGED trainVars /\ (FeedSamples \/ TakePending \/ Submit)
PROOF
  <1>1. CASE RollouterStep /\ UNCHANGED <<trainer, trainVars, sync>>
    <2>1. UNCHANGED trainVars
      BY <1>1
    <2>2. CASE FeedSamples \/ TakePending \/ Submit
      BY <2>1, <2>2
    <2>3. CASE TakeCancelled
      BY <2>1, <2>3, CancelledShrinks
    <2>4. CASE \E s \in Samples : TaskStep(s)
      BY <2>1, <2>4, TaskShrinks, RequeueShrinks DEF TaskStep
    <2>5. CASE \E s \in Samples :
                 \/ QueueSample(s) \/ AcceptRequest(s) \/ CompleteRequest(s)
                 \/ InterruptRequest(s) \/ FailRequest(s)
      BY <2>1, <2>5, TaskShrinks, QueueShrinks
    <2>6. CASE PutEnd
      BY <2>1, <2>6, EndShrinks
    <2>7. CASE \/ SeePause \/ AwaitPending \/ PauseSelf \/ TestDrain \/ EnterDrain \/ Reap
               \/ Idle \/ Wake
               \/ MonitorStart \/ MonitorCheck \/ MonitorWake \/ MonitorLift
               \/ AskStop \/ StopRunning \/ RpcStep \/ UpdateSize
               \/ PauseServers \/ ResumeServers
      BY <1>1, <2>7, OtherShrinks
    <2> QED
      BY <1>1, <2>2, <2>3, <2>4, <2>5, <2>6, <2>7
      DEF RollouterStep, LoopStep, RemoteStep, ProcessorStep, RpcStep
  <1>2. CASE CollectSample \/ TrainStep \/ ClearAtEnd
    <2>1. UNCHANGED rolloutVars
      BY <1>2 DEF CollectSample, TrainStep, ClearAtEnd
    <2> QED
      BY <1>2, <2>1, TrainerShrinks
  <1>3. CASE \/ Load \/ Launch \/ LogValidation \/ AwaitSamples \/ StartSync \/ FinishTraining
             \/ FinishValidation \/ SyncStep \/ UNCHANGED vars
    BY <1>3, OtherShrinks
  <1> QED
    BY <1>1, <1>2, <1>3 DEF Next, TrainerStep, Over

\* A sample the feeder has put is in one place, one it has not is in none.
Located == \A s \in Samples : Whole(s) <= 1 /\ (s > fed => Whole(s) = 0)

LEMMA LocatedInit == Init => Located
PROOF
  <1> SUFFICES ASSUME Init, NEW s \in Samples
               PROVE  Whole(s) <= 1 /\ (s > fed => Whole(s) = 0)
    BY DEF Located
  <1>1. /\ pending = << >> /\ cancelQ = << >> /\ queue = << >> /\ batch = << >> /\ trained = {}
        /\ held = None /\ task = [r \in Samples |-> "none"]
    BY DEF Init, RollouterInit, MQ!MQInit
  <1>2. s \notin InFlight /\ held # s
    BY <1>1, RolloutAssumption DEF RolloutAssumption, InFlight, Samples, None
  <1>3. One(held = s) = 0 /\ One(s \in InFlight) = 0 /\ One(s \in trained) = 0
    BY <1>1, <1>2 DEF One
  <1>4. Hits(pending, {s}) = 0 /\ Hits(cancelQ, {s}) = 0
        /\ Hits(queue, With(s)) = 0 /\ Hits(batch, With(s)) = 0
    BY <1>1, HitsEmpty
  <1>5. Whole(s) = 0
    BY <1>3, <1>4 DEF Whole
  <1> QED
    BY <1>5

LEMMA LocatedNext ==
  ASSUME TypeOK, TypeOK', Located, [Next]_vars
  PROVE  Located'
PROOF
  <1>1. \A s \in Samples : Whole(s) \in Nat /\ Whole(s)' \in Nat
    BY SizesType, SizesTypeNext DEF SizesOK
  <1>2. CASE fed' = fed /\ \A s \in Samples : Whole(s)' <= Whole(s)
    <2> SUFFICES ASSUME NEW s \in Samples
                 PROVE  Whole(s)' <= 1 /\ (s > fed' => Whole(s)' = 0)
      BY DEF Located
    <2>1. Whole(s)' <= Whole(s) /\ Whole(s) <= 1 /\ (s > fed => Whole(s) = 0)
      BY <1>2 DEF Located
    <2> QED
      BY <1>1, <1>2, <2>1
  <1>3. CASE UNCHANGED trainVars /\ FeedSamples
    <2>1. /\ FeedCount \in Nat /\ fed' = fed + FeedCount
          /\ \A s \in Samples : Whole(s)' = Whole(s) + One(fed < s /\ s <= fed + FeedCount)
      BY <1>3, FeedGrows
    <2>2. fed \in Nat
      BY RolloutAssumption
      DEF RolloutAssumption, TypeOK, RollouterTypeOK, WorkTypeOK, Done
    <2> SUFFICES ASSUME NEW s \in Samples
                 PROVE  Whole(s)' <= 1 /\ (s > fed' => Whole(s)' = 0)
      BY DEF Located
    <2>3. s \in Nat /\ Whole(s) <= 1 /\ (s > fed => Whole(s) = 0)
      BY DEF Located, Samples
    <2>4. One(fed < s /\ s <= fed + FeedCount)
            = IF fed < s /\ s <= fed + FeedCount THEN 1 ELSE 0
      BY DEF One
    <2>5. Whole(s)' = Whole(s) + (IF fed < s /\ s <= fed + FeedCount THEN 1 ELSE 0)
      BY <2>1, <2>4
    <2> DEFINE n == FeedCount  w == Whole(s)  x == Whole(s)'
    <2>6. n \in Nat /\ fed' = fed + n /\ x = w + (IF fed < s /\ s <= fed + n THEN 1 ELSE 0)
          /\ w \in Nat /\ w <= 1 /\ (s > fed => w = 0)
      BY <1>1, <2>1, <2>3, <2>5
    <2> HIDE DEF n, w, x
    <2>7. x <= 1 /\ (s > fed' => x = 0)
      BY <2>2, <2>3, <2>6
    <2> QED
      BY <2>7 DEF x
  <1>4. CASE UNCHANGED trainVars /\ (TakePending \/ Submit)
    BY <1>2, <1>4, TakeMoves, SubmitMoves
  <1> QED
    BY <1>2, <1>3, <1>4, StepShapes DEF Shrinks

\* What keeps the thresholds honest.  staleness is at least what it stands for, but for
\* the sample in the processor's hands; the sum it is taken from covers what is running
\* while the queue is asked for its size; and a processor asleep in pending_queue.get()
\* went there below the threshold.
Budgets ==
  /\ Outstanding <= staleness + 1
  /\ Outstanding <= MaxRequired + 1
  /\ proc = "getWait" => Generated <= MaxRequired
  /\ rpc = "updateSize" => Started <= sizeSum
  /\ rpc = "updateSized" => Generated <= sizeSum

BudgetFrame ==
  /\ UNCHANGED <<staleness, sizeSum>>
  /\ rpc' \in {"updateSize", "updateSized"} => rpc' = rpc
  /\ proc' = "getWait" => proc = "getWait"

LEMMA BudgetsKept ==
  ASSUME TypeOK, TypeOK', Budgets, SizesShrink, BudgetFrame
  PROVE  Budgets'
PROOF
  <1>1. /\ Started \in Nat /\ Generated \in Nat /\ Outstanding \in Nat
        /\ Started' \in Nat /\ Generated' \in Nat /\ Outstanding' \in Nat
    BY SizesType, SizesTypeNext DEF SizesOK
  <1>2. staleness \in Nat /\ sizeSum \in Nat /\ MaxRequired \in Nat
    BY MaxRequiredType DEF TypeOK, RollouterTypeOK, LoopTypeOK
  <1>3. /\ Started' <= Started /\ Generated' <= Generated /\ Outstanding' <= Outstanding
        /\ staleness' = staleness /\ sizeSum' = sizeSum
    BY DEF SizesShrink, BudgetFrame
  <1>4. Outstanding' <= staleness' + 1 /\ Outstanding' <= MaxRequired + 1
    BY <1>1, <1>2, <1>3 DEF Budgets
  <1>5. proc' = "getWait" => Generated' <= MaxRequired
    BY <1>1, <1>2, <1>3 DEF Budgets, BudgetFrame
  <1>6. rpc' = "updateSize" => Started' <= sizeSum'
    BY <1>1, <1>2, <1>3 DEF Budgets, BudgetFrame
  <1>7. rpc' = "updateSized" => Generated' <= sizeSum'
    BY <1>1, <1>2, <1>3 DEF Budgets, BudgetFrame
  <1> QED
    BY <1>4, <1>5, <1>6, <1>7 DEF Budgets, MaxRequired

LEMMA FrameOfSteps ==
  ASSUME [Next]_vars, ~TakePending, ~AwaitPending, ~UpdateBegin, ~UpdateSize, ~UpdateStaleness
  PROVE  BudgetFrame
PROOF
  <1>1. CASE FeedSamples \/ \E s \in Samples : TaskStep(s)
    BY <1>1 DEF FeedSamples, TaskStep, StartTask, SendSample, FinishTask, RequeueSample,
                RaiseTask, taskFrame, procVars, aroundVars, rpcVars, BudgetFrame
  <1>2. CASE ProcessorStep
    BY <1>2 DEF ProcessorStep, SeePause, TakeCancelled, PauseSelf, TestDrain, EnterDrain,
                Reap, Idle, Submit, Wake, procFrame, aroundVars, rpcVars, BudgetFrame
  <1>3. CASE \/ MonitorStart \/ MonitorCheck \/ MonitorWake \/ MonitorLift
             \/ AskStop \/ StopRunning \/ PutEnd
    BY <1>3 DEF MonitorStart, MonitorCheck, MonitorWake, MonitorLift, AskStop, StopRunning,
                PutEnd, Notify, Notified, monitorFrame, mainFrame, procVars, rpcVars,
                BudgetFrame
  <1>4. CASE RpcStep
    BY <1>4 DEF RpcStep, CallArrives, PauseBegin, PauseCancelled, PauseGathered, PauseEnd,
                UpdateEnd, ResumeBegin, ResumeEnd, callFrame, rpcFrame, Notify, Notified,
                BudgetFrame
  <1>5. CASE \/ PauseServers \/ ResumeServers
             \/ \E s \in Samples :
                  \/ QueueSample(s) \/ AcceptRequest(s) \/ CompleteRequest(s)
                  \/ InterruptRequest(s) \/ FailRequest(s)
    BY <1>5 DEF PauseServers, ResumeServers, QueueSample, AcceptRequest, CompleteRequest,
                InterruptRequest, FailRequest, serviceFrame, taskFrame, procVars, aroundVars,
                rpcVars, BudgetFrame
  <1>6. CASE TrainerStep
    BY <1>6 DEF TrainerStep, Load, Launch, StartFit, LogValidation, AwaitSamples,
                CollectSample, TrainStep, StartSync, FinishTraining, FinishValidation,
                ClearAtEnd, SyncBegin, rolloutVars, procVars, rpcVars, BudgetFrame
  <1>7. CASE SyncStep \/ UNCHANGED vars
    BY <1>7 DEF SyncStep, SyncAnnounce, SyncEnd, vars, rolloutVars, procVars, rpcVars,
                BudgetFrame
  <1> QED
    BY <1>1, <1>2, <1>3, <1>4, <1>5, <1>6, <1>7
    DEF Next, Over, RollouterStep, LoopStep, RemoteStep, RpcStep

LEMMA BudgetsInit == Init => Budgets
PROOF
  <1> SUFFICES ASSUME Init PROVE Budgets
    OBVIOUS
  <1>1. /\ cancelQ = << >> /\ queue = << >> /\ held = None /\ task = [r \in Samples |-> "none"]
        /\ staleness = 0 /\ proc = "unborn" /\ rpc = "none"
    BY DEF Init, RollouterInit, MQ!MQInit
  <1>2. InFlight = {}
    BY <1>1 DEF InFlight
  <1>3. Cardinality(InFlight) = 0 /\ Len(cancelQ) = 0
        /\ Hits(queue, SampleEntries) = 0 /\ One(held # None) = 0
    BY <1>1, <1>2, HitsEmpty, FS_EmptySet DEF One
  <1>4. Started = 0
    BY <1>3 DEF Started
  <1>5. TypeOK
    BY InitTypes
  <1>6. Generated = Started + Hits(queue, SampleEntries)
        /\ Outstanding = Generated + One(held # None)
    BY <1>5, Numbers
  <1>7. Outstanding = 0
    BY <1>3, <1>4, <1>6
  <1>8. MaxRequired \in Nat
    BY MaxRequiredType
  <1> QED
    BY <1>1, <1>7, <1>8 DEF Budgets

LEMMA BudgetsNext ==
  ASSUME TypeOK, TypeOK', HolderInv, Budgets, [Next]_vars
  PROVE  Budgets'
PROOF
  <1>1. /\ Started \in Nat /\ Generated \in Nat /\ Outstanding \in Nat
        /\ Started' \in Nat /\ Generated' \in Nat /\ Outstanding' \in Nat
    BY SizesType, SizesTypeNext DEF SizesOK
  <1>2. staleness \in Nat /\ sizeSum \in Nat /\ MaxRequired \in Nat
    BY MaxRequiredType DEF TypeOK, RollouterTypeOK, LoopTypeOK
  <1>3. Generated <= Outstanding
    BY <1>1, Numbers
  <1>4. ASSUME ~ShouldPause
        PROVE  staleness < MaxRequired
    BY <1>2, <1>4 DEF ShouldPause
  <1>5. CASE TakePending /\ UNCHANGED trainVars
    <2>1. /\ Started' = Started /\ Generated' = Generated /\ Outstanding' <= Generated + 1
          /\ staleness' = staleness + 1 /\ proc' = "reap" /\ UNCHANGED <<rpc, sizeSum>>
      BY <1>5, TakeMoves DEF TakePending, rpcVars
    <2>2. Generated <= MaxRequired
      <3>1. CASE AtTopGoing
        <4>1. staleness < MaxRequired
          BY <1>4, <3>1 DEF AtTopGoing
        <4> QED
          BY <1>1, <1>2, <1>3, <4>1 DEF Budgets
      <3>2. CASE proc = "getWait"
        BY <3>2 DEF Budgets
      <3> QED
        BY <1>5, <3>1, <3>2 DEF TakePending
    <2>3. Outstanding' <= staleness' + 1 /\ Outstanding' <= MaxRequired + 1
      BY <1>1, <1>2, <1>3, <2>1, <2>2 DEF Budgets
    <2>4. /\ rpc' = "updateSize" => Started' <= sizeSum'
          /\ rpc' = "updateSized" => Generated' <= sizeSum'
      BY <2>1 DEF Budgets
    <2> QED
      BY <2>1, <2>3, <2>4 DEF Budgets, MaxRequired
  <1>6. CASE Submit /\ UNCHANGED trainVars
    <2>1. Outstanding' <= Outstanding
      BY <1>6, SubmitMoves
    <2>2. Holds("processor") /\ proc' # "getWait" /\ UNCHANGED <<staleness, rpc, sizeSum>>
      BY <1>6 DEF Submit, aroundVars, rpcVars
    <2>3. rpc \notin {"updateSize", "updateSized"}
      BY <2>2 DEF HolderInv, CallSuspendedInLock, Holds
    <2>4. Outstanding' <= staleness' + 1 /\ Outstanding' <= MaxRequired + 1
      BY <1>1, <1>2, <2>1, <2>2 DEF Budgets
    <2> QED
      BY <2>2, <2>3, <2>4 DEF Budgets, MaxRequired
  <1>7. CASE SizesShrink
    <2>1. /\ Started' <= Started /\ Generated' <= Generated /\ Outstanding' <= Outstanding
      BY <1>7 DEF SizesShrink
    <2>2. CASE AwaitPending
      <3>1. ~ShouldPause /\ UNCHANGED <<staleness, rpc, sizeSum>>
        BY <2>2 DEF AwaitPending, AtTopGoing, procFrame, aroundVars, rpcVars
      <3>2. staleness < MaxRequired
        BY <1>4, <3>1
      <3>3. Outstanding' <= staleness' + 1 /\ Outstanding' <= MaxRequired + 1
            /\ Generated' <= MaxRequired
        BY <1>1, <1>2, <1>3, <2>1, <3>1, <3>2 DEF Budgets
      <3>4. /\ rpc' = "updateSize" => Started' <= sizeSum'
            /\ rpc' = "updateSized" => Generated' <= sizeSum'
        BY <1>1, <1>2, <2>1, <3>1 DEF Budgets
      <3> QED
        BY <3>3, <3>4 DEF Budgets, MaxRequired
    <2>3. CASE UpdateBegin
      <3>1. /\ sizeSum' = ActiveTasks + Len(cancelQ) /\ rpc' = "updateSize"
            /\ UNCHANGED <<staleness, proc>>
        BY <2>3 DEF UpdateBegin
      <3>2. Started <= ActiveTasks + Len(cancelQ) /\ ActiveTasks + Len(cancelQ) \in Nat
        <4>1. Live \in SUBSET Samples /\ InFlight \subseteq Live /\ IsFiniteSet(Samples)
          BY RolloutAssumption, FS_Interval DEF RolloutAssumption, Samples, InFlight, Live
        <4>2. IsFiniteSet(Live) /\ Cardinality(Live) \in Nat
          BY <4>1, FS_Subset, FS_CardinalityType
        <4>3. Cardinality(InFlight) <= Cardinality(Live)
          BY <4>1, <4>2, FS_Subset
        <4>4. unreaped \in Nat
          BY DEF TypeOK, RollouterTypeOK, WorkTypeOK
        <4> QED
          BY <4>2, <4>3, <4>4, Sizes DEF Started, ActiveTasks
      <3>3. Outstanding' <= staleness' + 1 /\ Outstanding' <= MaxRequired + 1
            /\ Started' <= sizeSum'
        BY <1>1, <1>2, <2>1, <3>1, <3>2 DEF Budgets
      <3>4. proc' = "getWait" => Generated' <= MaxRequired
        BY <1>1, <1>2, <2>1, <3>1 DEF Budgets
      <3> QED
        BY <3>1, <3>3, <3>4 DEF Budgets, MaxRequired
    <2>4. CASE UpdateSize
      <3>1. /\ sizeSum' = sizeSum + Len(queue) /\ rpc = "updateSize" /\ rpc' = "updateSized"
            /\ UNCHANGED <<staleness, proc>>
        BY <2>4 DEF UpdateSize, callFrame
      <3>2. /\ Generated = Started + Hits(queue, SampleEntries)
            /\ Hits(queue, SampleEntries) \in Nat /\ Len(queue) \in Nat
            /\ Hits(queue, SampleEntries) <= Len(queue)
        BY Numbers
      <3>3. Started <= sizeSum
        BY <3>1 DEF Budgets
      <3>4. Generated' <= sizeSum'
        BY <1>1, <1>2, <2>1, <3>1, <3>2, <3>3
      <3>5. Outstanding' <= staleness' + 1 /\ Outstanding' <= MaxRequired + 1
        BY <1>1, <1>2, <2>1, <3>1 DEF Budgets
      <3>6. proc' = "getWait" => Generated' <= MaxRequired
        BY <1>1, <1>2, <2>1, <3>1 DEF Budgets
      <3> QED
        BY <3>1, <3>4, <3>5, <3>6 DEF Budgets, MaxRequired
    <2>5. CASE UpdateStaleness
      <3>1. /\ staleness' = sizeSum /\ rpc = "updateSized" /\ rpc' = "updateVal"
            /\ UNCHANGED <<proc, held>>
        BY <2>5 DEF UpdateStaleness, InCall, rpcFrame
      <3>2. Generated <= sizeSum /\ Outstanding = Generated + One(held # None)
            /\ One(held # None) \in {0, 1}
        BY <3>1, Numbers DEF Budgets
      <3>3. Outstanding' <= staleness' + 1 /\ Outstanding' <= MaxRequired + 1
        BY <1>1, <1>2, <2>1, <3>1, <3>2 DEF Budgets
      <3>4. proc' = "getWait" => Generated' <= MaxRequired
        BY <1>1, <1>2, <2>1, <3>1 DEF Budgets
      <3> QED
        BY <3>1, <3>3, <3>4 DEF Budgets, MaxRequired
    <2>6. CASE ~(TakePending \/ AwaitPending \/ UpdateBegin \/ UpdateSize \/ UpdateStaleness)
      BY <1>7, <2>6, FrameOfSteps, BudgetsKept
    <2>7. CASE TakePending
      <3>1. staleness' = staleness + 1 /\ proc' = "reap" /\ UNCHANGED <<rpc, sizeSum>>
        BY <2>7 DEF TakePending, rpcVars
      <3>2. Outstanding' <= staleness' + 1 /\ Outstanding' <= MaxRequired + 1
        BY <1>1, <1>2, <2>1, <3>1 DEF Budgets
      <3>3. /\ rpc' = "updateSize" => Started' <= sizeSum'
            /\ rpc' = "updateSized" => Generated' <= sizeSum'
        BY <1>1, <1>2, <2>1, <3>1 DEF Budgets
      <3> QED
        BY <3>1, <3>2, <3>3 DEF Budgets, MaxRequired
    <2> QED
      BY <2>2, <2>3, <2>4, <2>5, <2>6, <2>7
  <1>8. CASE FeedSamples /\ UNCHANGED trainVars
    BY <1>7, <1>8, FeedGrows
  <1> QED
    BY <1>5, <1>6, <1>7, <1>8, StepShapes DEF Shrinks

LEMMA BudgetInvariant == Spec => [](TypeOK /\ Located /\ Budgets)
PROOF
  <1>1. Init => Located /\ Budgets
    BY LocatedInit, BudgetsInit
  <1>2. TypeOK /\ HolderInv /\ Located /\ Budgets /\ [Next]_vars => (Located /\ Budgets)'
    <2> SUFFICES ASSUME TypeOK, HolderInv, Located, Budgets, [Next]_vars
                 PROVE  Located' /\ Budgets'
      OBVIOUS
    <2>1. TypeOK'
      BY TypesNext
    <2> QED
      BY <2>1, LocatedNext, BudgetsNext
  <1> QED
    BY <1>1, <1>2, Invariant, PTL DEF Spec

\* Whatever is interrupted, requeued, resubmitted, dropped or discarded, a sample is in
\* one place of the system and is trained on at most once.
THEOREM NeverDuplicated == Spec => []NoDuplication
PROOF
  <1>1. TypeOK /\ Located => NoDuplication
    BY CountIsHits DEF Located, Whole, NoDuplication
  <1> QED
    BY <1>1, BudgetInvariant, PTL

\* At most max_required_samples are outstanding, and the one in the processor's hands.
THEOREM WithinBudget == Spec => []BudgetPlusOne
PROOF
  <1>1. Budgets => BudgetPlusOne
    BY DEF Budgets, BudgetPlusOne
  <1> QED
    BY <1>1, BudgetInvariant, PTL

-----------------------------------------------------------------------------
(* The synchronizer and the remote calls it makes, one after the other.    *)

PauseCalls == {"pauseCall", "pauseLock", "pauseCancel", "pauseGather", "pauseClear"}
\* update_param_version() is due, or on its way to put_validate.
UpdateCalls == {"updateCall", "updateLock", "updateSize", "updateSized", "updateVal"}
ResumeCalls == {"resumeCall", "resumeLock", "resumeServers"}

\* pause() is awaited; the two calls after it run while the synchronizer is idle.
CallPhase ==
  /\ sync = "idle" => rpc \notin PauseCalls \cup {"paused"}
  /\ sync = "pausing" => rpc \in PauseCalls \cup {"paused"}
  /\ sync = "transfer" => rpc = "paused"

\* One step of the call in progress, but for the one that puts the validation result.
CallMoves ==
  \/ rpc \in PauseCalls /\ rpc' \in PauseCalls \cup {"paused"}
  \/ rpc \in UpdateCalls /\ rpc' \in UpdateCalls
  \/ rpc \in ResumeCalls /\ rpc' \in ResumeCalls \cup {"none"}

\* How a step moves the call, the synchronizer, the trainer and the validation results.
LEMMA CallSteps ==
  ASSUME [Next]_vars
  PROVE  \/ UNCHANGED <<rpc, sync, trainer, valQueue>>
         \/ /\ RpcStep \/ UpdateSize
            /\ CallMoves /\ UNCHANGED <<sync, trainer, valQueue>>
         \/ UpdateEnd /\ UNCHANGED <<sync, trainer>>
         \/ TrainerStep
         \/ SyncStep
PROOF
  <1> USE DEF PauseCalls, UpdateCalls, ResumeCalls
  <1>1. CASE RollouterStep /\ UNCHANGED <<trainer, trainVars, sync>>
    <2>1. CASE FeedSamples \/ ProcessorStep
      BY <1>1, <2>1 DEF FeedSamples, ProcessorStep, SeePause, TakeCancelled, AwaitPending,
        TakePending, PauseSelf, TestDrain, EnterDrain, Reap, Idle, Submit, Wake, procFrame,
        aroundVars, rpcVars, mqVars
    <2>2. CASE \E s \in Samples : TaskStep(s)
      BY <1>1, <2>2 DEF TaskStep, StartTask, SendSample, FinishTask, RequeueSample, RaiseTask,
        taskFrame, aroundVars, rpcVars, mqVars
    <2>3. CASE MonitorStart \/ MonitorCheck \/ MonitorWake \/ MonitorLift \/ AskStop \/ StopRunning
               \/ PutEnd
      BY <1>1, <2>3 DEF MonitorStart, MonitorCheck, MonitorWake, MonitorLift, AskStop,
        StopRunning, PutEnd, MQ!PutSample, monitorFrame, mainFrame, rpcVars, mqVars
    <2>4. CASE \E s \in Samples :
                 \/ QueueSample(s) \/ AcceptRequest(s) \/ CompleteRequest(s)
                 \/ InterruptRequest(s) \/ FailRequest(s)
      BY <1>1, <2>4 DEF QueueSample, MQ!PutSample, AcceptRequest, CompleteRequest,
        InterruptRequest, FailRequest, serviceFrame, taskFrame, aroundVars, rpcVars, mqVars
    <2>5. CASE PauseServers \/ ResumeServers
      BY <1>1, <2>5 DEF PauseServers, ResumeServers, serviceFrame, taskFrame, aroundVars,
        rpcVars, mqVars
    <2>6. CASE (RpcStep /\ ~UpdateEnd) \/ UpdateSize
      <3>1. UNCHANGED <<sync, trainer, valQueue>>
        BY <1>1, <2>6 DEF RpcStep, CallArrives, PauseBegin, PauseCancelled, PauseGathered, PauseEnd,
          UpdateBegin, UpdateSize, UpdateStaleness, ResumeBegin, ResumeEnd, callFrame,
          rpcFrame, mqVars
      <3>2. CallMoves
        BY <2>6 DEF RpcStep, CallArrives, PauseBegin, PauseCancelled, PauseGathered, PauseEnd,
          UpdateBegin, UpdateSize, UpdateStaleness, ResumeBegin, ResumeEnd, InCall, CallMoves
      <3> QED
        BY <2>6, <3>1, <3>2
    <2>7. CASE UpdateEnd
      BY <1>1, <2>7
    <2> QED
      BY <1>1, <2>1, <2>2, <2>3, <2>4, <2>5, <2>6, <2>7
      DEF RollouterStep, LoopStep, RemoteStep, RpcStep
  <1>2. CASE Over \/ UNCHANGED vars
    BY <1>2 DEF Over, vars, rpcVars, mqVars
  <1> QED
    BY <1>1, <1>2 DEF Next

LEMMA PhaseNext == ASSUME CallPhase, [Next]_vars PROVE CallPhase'
PROOF
  <1> USE DEF PauseCalls, UpdateCalls, ResumeCalls
  <1>1. CASE UNCHANGED <<rpc, sync>> \/ (CallMoves /\ UNCHANGED sync)
    BY <1>1 DEF CallPhase, CallMoves
  <1>2. CASE UpdateEnd /\ UNCHANGED sync
    BY <1>2 DEF CallPhase, UpdateEnd, InCall
  <1>3. CASE SyncStep
    <2>1. CASE SyncAnnounce
      BY <2>1 DEF SyncAnnounce, rpcVars, CallPhase
    <2>2. CASE SyncEnd
      BY <2>2 DEF SyncEnd, CallPhase
    <2> QED
      BY <1>3, <2>1, <2>2 DEF SyncStep
  <1>4. CASE TrainerStep
    <2>1. \/ UNCHANGED <<sync, rpc>>
          \/ sync' = "pausing" /\ rpc' = "pauseCall"
      BY <1>4 DEF TrainerStep, Load, Launch, LogValidation, AwaitSamples, CollectSample,
                  TrainStep, StartSync, FinishTraining, FinishValidation, ClearAtEnd,
                  SyncBegin, StartFit, rpcVars
    <2> QED
      BY <2>1 DEF CallPhase
  <1> QED
    BY <1>1, <1>2, <1>3, <1>4, CallSteps

\* From pause()'s return to resume() the monitor's recovery is switched off.
TriggerOff == rpc \in SyncWindow => ~monitorTrigger

LEMMA TriggerNext == ASSUME CallPhase, TriggerOff, [Next]_vars PROVE TriggerOff'
PROOF
  <1> USE DEF SyncWindow, TriggerOff
  <1>1. CASE RollouterStep /\ UNCHANGED <<trainer, trainVars, sync>>
    <2>1. CASE FeedSamples \/ ProcessorStep
      BY <1>1, <2>1 DEF FeedSamples, ProcessorStep, SeePause, TakeCancelled, AwaitPending,
        TakePending, PauseSelf, TestDrain, EnterDrain, Reap, Idle, Submit, Wake, procFrame,
        aroundVars, rpcVars, flagVars
    <2>2. CASE \E s \in Samples : TaskStep(s)
      BY <1>1, <2>2 DEF TaskStep, StartTask, SendSample, FinishTask, RequeueSample, RaiseTask,
        taskFrame, aroundVars, rpcVars, flagVars
    <2>3. CASE MonitorStart \/ MonitorCheck \/ MonitorWake \/ MonitorLift \/ AskStop \/ StopRunning
               \/ PutEnd
      BY <1>1, <2>3 DEF MonitorStart, MonitorCheck, MonitorWake, MonitorLift, AskStop,
        StopRunning, PutEnd, monitorFrame, mainFrame, rpcVars, flagVars
    <2>4. CASE \E s \in Samples :
                 \/ QueueSample(s) \/ AcceptRequest(s) \/ CompleteRequest(s)
                 \/ InterruptRequest(s) \/ FailRequest(s)
      BY <1>1, <2>4 DEF QueueSample, AcceptRequest, CompleteRequest,
        InterruptRequest, FailRequest, serviceFrame, taskFrame, aroundVars, rpcVars, flagVars
    <2>5. CASE PauseServers \/ ResumeServers
      BY <1>1, <2>5 DEF PauseServers, ResumeServers, serviceFrame, taskFrame, aroundVars,
        rpcVars, flagVars
    <2>6. CASE CallArrives \/ PauseBegin \/ PauseCancelled \/ PauseGathered \/ UpdateBegin
               \/ UpdateSize \/ UpdateStaleness \/ UpdateEnd \/ ResumeBegin
      BY <1>1, <2>6 DEF CallArrives, PauseBegin, PauseCancelled, PauseGathered,
          UpdateBegin, UpdateSize, UpdateStaleness, UpdateEnd, ResumeBegin, InCall, callFrame,
          rpcFrame, flagVars
    <2>7. CASE PauseEnd \/ ResumeEnd
      BY <2>7 DEF PauseEnd, ResumeEnd
    <2> QED
      BY <1>1, <2>1, <2>2, <2>3, <2>4, <2>5, <2>6, <2>7 DEF RollouterStep, LoopStep, RemoteStep
  <1>2. CASE SyncStep
    BY <1>2 DEF SyncStep, SyncAnnounce, SyncEnd, CallPhase, rpcVars, rolloutVars, flagVars
  <1>3. CASE TrainerStep
    <2>1. UNCHANGED <<rpc, monitorTrigger>> \/ rpc' = "pauseCall"
      BY <1>3 DEF TrainerStep, Load, Launch, LogValidation, AwaitSamples, CollectSample,
                  TrainStep, StartSync, FinishTraining, FinishValidation, ClearAtEnd,
                  SyncBegin, StartFit, rpcVars, rolloutVars, flagVars
    <2> QED
      BY <2>1
  <1>4. CASE Over \/ UNCHANGED vars
    BY <1>4 DEF Over, vars, rpcVars, rolloutVars, flagVars
  <1> QED
    BY <1>1, <1>2, <1>3, <1>4 DEF Next

\* While the trigger is off no step lifts the pause but a monitor's that had decided.
LEMMA LiftsStale ==
  ASSUME CallPhase, TriggerOff, [Next]_vars
  PROVE  LiftStale
PROOF
  <1> SUFFICES ASSUME rpc \in SyncWindow, rpc' \in SyncWindow
               PROVE  /\ (paused /\ ~paused' => monitor = "liftLock")
                      /\ (monitor' = "liftLock" => monitor = "liftLock")
    BY DEF LiftStale
  <1> USE DEF SyncWindow, TriggerOff
  <1>1. CASE RollouterStep /\ UNCHANGED <<trainer, trainVars, sync>>
    <2>1. CASE FeedSamples \/ ProcessorStep
      BY <1>1, <2>1 DEF FeedSamples, ProcessorStep, SeePause, TakeCancelled, AwaitPending,
        TakePending, PauseSelf, TestDrain, EnterDrain, Reap, Idle, Submit, Wake, procFrame,
        aroundVars, flagVars
    <2>2. CASE \E s \in Samples : TaskStep(s)
      BY <1>1, <2>2 DEF TaskStep, StartTask, SendSample, FinishTask, RequeueSample, RaiseTask,
        taskFrame, aroundVars, flagVars
    <2>3. CASE MonitorStart \/ MonitorCheck \/ MonitorLift \/ AskStop \/ StopRunning \/ PutEnd
      BY <1>1, <2>3 DEF MonitorStart, MonitorCheck, MonitorLift, AskStop,
        StopRunning, PutEnd, monitorFrame, mainFrame, flagVars
    <2>8. CASE MonitorWake
      BY <1>1, <2>8 DEF MonitorWake, RecoveryDue
    <2>4. CASE \E s \in Samples :
                 \/ QueueSample(s) \/ AcceptRequest(s) \/ CompleteRequest(s)
                 \/ InterruptRequest(s) \/ FailRequest(s)
      BY <1>1, <2>4 DEF QueueSample, AcceptRequest, CompleteRequest,
        InterruptRequest, FailRequest, serviceFrame, taskFrame, aroundVars, flagVars
    <2>5. CASE PauseServers \/ ResumeServers
      BY <1>1, <2>5 DEF PauseServers, ResumeServers, serviceFrame, taskFrame, aroundVars, flagVars
    <2>6. CASE CallArrives \/ PauseBegin \/ PauseCancelled \/ PauseGathered \/ PauseEnd \/ UpdateBegin
               \/ UpdateSize \/ UpdateStaleness \/ UpdateEnd \/ ResumeBegin \/ ResumeEnd
      BY <1>1, <2>6 DEF CallArrives, PauseBegin, PauseCancelled, PauseGathered, PauseEnd,
          UpdateBegin, UpdateSize, UpdateStaleness, UpdateEnd, ResumeBegin, ResumeEnd,
          callFrame, rpcFrame, flagVars
    <2> QED
      BY <1>1, <2>1, <2>2, <2>3, <2>4, <2>5, <2>6, <2>8 DEF RollouterStep, LoopStep, RemoteStep
  <1>2. CASE SyncStep
    BY <1>2 DEF SyncStep, SyncAnnounce, SyncEnd, rolloutVars, flagVars
  <1>3. CASE TrainerStep
    <2>1. CASE Launch
      BY <2>1 DEF Launch, LastSyncOver
    <2>2. CASE TrainerStep /\ ~Launch
      <3>1. UNCHANGED <<paused, monitor>>
        BY <2>2 DEF TrainerStep, Load, LogValidation, AwaitSamples, CollectSample,
                    TrainStep, StartSync, FinishTraining, FinishValidation, ClearAtEnd,
                    SyncBegin, rolloutVars, flagVars
      <3> QED
        BY <3>1
    <2> QED
      BY <1>3, <2>1, <2>2
  <1>4. CASE Over \/ UNCHANGED vars
    BY <1>4 DEF Over, vars, rolloutVars, flagVars
  <1> QED
    BY <1>1, <1>2, <1>3, <1>4 DEF Next

\* Between pause()'s return and resume() nothing lifts the pause but a monitor that read
\* its trigger before pause() switched it off, and it does so once (_async_monitor_loop).
THEOREM LiftedOnlyStale == Spec => StaleLiftOnly
PROOF
  <1>1. Init => CallPhase /\ TriggerOff
    BY DEF Init, RollouterInit, CallPhase, TriggerOff, PauseCalls, SyncWindow
  <1>2. CallPhase /\ TriggerOff /\ [Next]_vars => (CallPhase /\ TriggerOff)'
    BY PhaseNext, TriggerNext
  <1>3. CallPhase /\ TriggerOff /\ [Next]_vars =>
          [LiftStale]_vars
    BY LiftsStale
  <1> QED
    BY <1>1, <1>2, <1>3, PTL DEF Spec, StaleLiftOnly

-----------------------------------------------------------------------------
(* Validation results.                                                     *)

\* Each synchronization puts one result; the trainer takes one after it, and the next
\* waits for the last.  Only between sync_weights and _log_validation_data are there two.
PutDue == sync # "idle" \/ rpc \in UpdateCalls
Results == Len(valQueue) + One(PutDue)
ResultsTaken ==
  /\ Results <= 2
  /\ trainer \notin {"sync", "log"} => Results <= 1
  /\ trainer \in {"done", "cleared"} => Results = 0
  /\ trainer = "load" => Len(valQueue) = 0 /\ rpc \notin UpdateCalls

LEMMA ResultNumbers ==
  ASSUME TypeOK
  PROVE  /\ Len(valQueue) \in Nat /\ One(PutDue) \in {0, 1} /\ Results \in Nat
         /\ LastSyncOver => One(PutDue) = 0
  BY DEF TypeOK, RollouterTypeOK, QueueTypeOK, One, Results, PutDue, LastSyncOver, UpdateCalls

\* What get_validate leaves.
LEMMA TakeOne ==
  ASSUME TypeOK, TakeValidation
  PROVE  Len(valQueue') = IF Len(valQueue) = 0 THEN 0 ELSE Len(valQueue) - 1
  BY DEF TypeOK, RollouterTypeOK, QueueTypeOK, TakeValidation, MQ!GetValidate

LEMMA ResultsNext ==
  ASSUME TypeOK, TypeOK', CallPhase, ResultsTaken, [Next]_vars
  PROVE  ResultsTaken'
PROOF
  <1>1. /\ Len(valQueue) \in Nat /\ One(PutDue) \in {0, 1} /\ Results \in Nat
        /\ LastSyncOver => One(PutDue) = 0 /\ Results = Len(valQueue) + One(PutDue)
    BY ResultNumbers DEF Results
  <1>2. One(TRUE) = 1 /\ One(FALSE) = 0
    BY DEF One
  <1>3. CASE UNCHANGED <<rpc, sync, trainer, valQueue>>
    BY <1>3 DEF ResultsTaken, Results, PutDue
  <1>4. CASE CallMoves /\ UNCHANGED <<sync, trainer, valQueue>>
    <2>1. PutDue' = PutDue
      BY <1>4 DEF CallMoves, PutDue, PauseCalls, UpdateCalls, ResumeCalls
    <2>2. rpc' \in UpdateCalls => rpc \in UpdateCalls
      BY <1>4 DEF CallMoves, PauseCalls, UpdateCalls, ResumeCalls
    <2> QED
      BY <1>4, <2>1, <2>2 DEF ResultsTaken, Results
  <1>5. CASE UpdateEnd /\ UNCHANGED <<sync, trainer>>
    <2>1. One(PutDue) = 1 /\ One(PutDue)' = 0
      <3>1. sync = "idle" /\ sync' = "idle" /\ rpc = "updateVal" /\ rpc' = "resumeCall"
        BY <1>5 DEF UpdateEnd, InCall, CallPhase, PauseCalls, TypeOK
      <3> QED
        BY <3>1 DEF PutDue, UpdateCalls, One
    <2>2. valQueue' = Append(valQueue, rpcVersion) /\ valQueue \in Seq(Nat) /\ rpcVersion \in Nat
      BY <1>5 DEF UpdateEnd, MQ!PutValidate, TypeOK, RollouterTypeOK, QueueTypeOK, LoopTypeOK
    <2>3. Len(valQueue') = Len(valQueue) + 1
      BY <2>2
    <2>4. Results' = Results
      BY <1>1, <1>2, <2>1, <2>3 DEF Results
    <2>5. trainer # "load"
      BY <1>5 DEF UpdateEnd, InCall, ResultsTaken, UpdateCalls
    <2> QED
      BY <1>5, <2>4, <2>5 DEF ResultsTaken
  <1>6. CASE SyncStep
    <2>1. UNCHANGED valQueue /\ PutDue' = PutDue
      BY <1>6 DEF SyncStep, SyncAnnounce, SyncEnd, MQ!UpdateMqVersion, mqVars, rpcVars, PutDue,
                  UpdateCalls
    <2>2. Results' = Results
      BY <2>1 DEF Results
    <2>3. \/ UNCHANGED trainer
          \/ trainer = "load" /\ trainer' = "loaded"
          \/ trainer = "sync" /\ trainer' = "log"
          \/ trainer = "finalSync" /\ trainer' = "finalWait"
      BY <1>6 DEF SyncStep, SyncAnnounce, SyncEnd
    <2>4. trainer' = "load" => UNCHANGED rpc
      BY <1>6 DEF SyncStep, SyncAnnounce, SyncEnd, rpcVars
    <2> QED
      BY <2>1, <2>2, <2>3, <2>4 DEF ResultsTaken
  <1>7. CASE LogValidation
    <2>1. /\ trainer = "log" /\ trainer' = "get" /\ TakeValidation /\ PutDue' = PutDue
      BY <1>7 DEF LogValidation, rpcVars, PutDue
    <2>2. Results' = Len(valQueue') + One(PutDue)
      BY <2>1 DEF Results
    <2>3. Len(valQueue') = IF Len(valQueue) = 0 THEN 0 ELSE Len(valQueue) - 1
      BY <2>1, TakeOne
    <2>4. Len(valQueue) + One(PutDue) <= 2
      BY DEF ResultsTaken, Results
    <2>5. Len(valQueue') \in Nat /\ Len(valQueue') + One(PutDue) <= 1
      BY <1>1, <2>3, <2>4
    <2>6. Results' \in Nat /\ Results' <= 1
      BY <1>1, <2>2, <2>5
    <2> QED
      BY <2>1, <2>6 DEF ResultsTaken
  <1>8. CASE Load \/ StartSync
    <2>1. /\ LastSyncOver /\ UNCHANGED valQueue /\ PutDue'
          /\ \/ trainer = "load" /\ trainer' = "load"
             \/ trainer = "waitLast" /\ trainer' = "sync"
      BY <1>8 DEF Load, StartSync, SyncBegin, mqVars, PutDue
    <2>2. Results' = Len(valQueue) + 1
      <3>1. One(PutDue)' = 1
        BY <2>1 DEF One
      <3> QED
        BY <2>1, <3>1 DEF Results
    <2>3. Results <= 1
      BY <2>1 DEF ResultsTaken
    <2>4. Len(valQueue) <= 1 /\ trainer' \notin {"done", "cleared"}
      BY <1>1, <2>1, <2>3
    <2>5. trainer' = "load" => Len(valQueue) = 0 /\ rpc' \notin UpdateCalls
      BY <1>8, <2>1 DEF ResultsTaken, UpdateCalls, Load, StartSync, SyncBegin
    <2> QED
      BY <1>1, <2>1, <2>2, <2>4, <2>5 DEF ResultsTaken
  <1>9. CASE FinishTraining
    <2>1. /\ LastSyncOver /\ trainer = "final" /\ TakeValidation
          /\ \/ trainer' = "finalSync" /\ PutDue'
             \/ trainer' = "done" /\ PutDue' = PutDue
      BY <1>9 DEF FinishTraining, SyncBegin, PutDue, rpcVars
    <2>2. Results <= 1
      BY <2>1 DEF ResultsTaken
    <2>3. Len(valQueue') = 0
      BY <1>1, <2>1, <2>2, TakeOne
    <2>4. /\ trainer' = "done" => One(PutDue)' = 0
          /\ One(PutDue)' \in {0, 1}
      BY <1>1, <2>1 DEF One
    <2>5. Results' = One(PutDue)'
      BY <2>3, <2>4 DEF Results
    <2> QED
      BY <2>1, <2>4, <2>5 DEF ResultsTaken
  <1>10. CASE FinishValidation
    <2>1. /\ LastSyncOver /\ trainer = "finalWait" /\ TakeValidation
          /\ trainer' = "done" /\ PutDue' = PutDue
      BY <1>10 DEF FinishValidation, PutDue, rpcVars
    <2>2. Results <= 1
      BY <2>1 DEF ResultsTaken
    <2>3. Len(valQueue') = 0
      BY <1>1, <2>1, <2>2, TakeOne
    <2>4. Results' = 0
      BY <1>1, <2>1, <2>3 DEF Results
    <2> QED
      BY <2>1, <2>4 DEF ResultsTaken
  <1>11. CASE Launch \/ AwaitSamples \/ CollectSample \/ TrainStep \/ ClearAtEnd
    <2>1. UNCHANGED <<valQueue, rpc, sync>>
      BY <1>11 DEF Launch, StartFit, AwaitSamples, CollectSample, TrainStep, ClearAtEnd,
        MQ!AwaitSample, MQ!GetSample, MQ!ClearQueue, mqVars, rpcVars
    <2>2. /\ trainer \notin {"sync", "log"} /\ trainer' \notin {"sync", "done"}
          /\ trainer' = "cleared" => trainer = "done"
          /\ trainer' # "load"
      BY <1>11 DEF Launch, AwaitSamples, CollectSample, TrainStep, ClearAtEnd
    <2>3. Results' = Results
      BY <2>1 DEF Results, PutDue
    <2> QED
      BY <1>1, <2>2, <2>3 DEF ResultsTaken
  <1> QED
    BY <1>3, <1>4, <1>5, <1>6, <1>7, <1>8, <1>9, <1>10, <1>11, CallSteps DEF TrainerStep

\* Every validation result update_param_version puts is logged: the trainer ends with
\* the last synchronization over and takes what it left (_fit_main, put_validate).
THEOREM ValidationAlwaysLogged == Spec => []ValidationLogged
PROOF
  <1>1. Init => CallPhase /\ ResultsTaken
    BY DEF Init, RollouterInit, MQ!MQInit, CallPhase, ResultsTaken, Results, PutDue, One,
           PauseCalls, UpdateCalls
  <1>2. TypeOK /\ HolderInv /\ CallPhase /\ ResultsTaken /\ [Next]_vars
          => (CallPhase /\ ResultsTaken)'
    <2> SUFFICES ASSUME TypeOK, HolderInv, CallPhase, ResultsTaken, [Next]_vars
                 PROVE  CallPhase' /\ ResultsTaken'
      OBVIOUS
    <2>1. TypeOK'
      BY TypesNext
    <2> QED
      BY <2>1, PhaseNext, ResultsNext
  <1>3. TypeOK /\ ResultsTaken => ValidationLogged
    <2> SUFFICES ASSUME TypeOK, ResultsTaken, trainer = "done" PROVE valQueue = << >>
      BY DEF ValidationLogged
    <2>1. Results = 0 /\ Len(valQueue) \in Nat /\ One(PutDue) \in {0, 1} /\ valQueue \in Seq(Nat)
      BY ResultNumbers DEF ResultsTaken, TypeOK, RollouterTypeOK, QueueTypeOK
    <2>2. Len(valQueue) = 0
      BY <2>1 DEF Results
    <2> QED
      BY <2>1, <2>2
  <1> QED
    BY <1>1, <1>2, <1>3, Invariant, PTL DEF Spec

-----------------------------------------------------------------------------
(* With staleness_threshold = 0, training is synchronous.                  *)

\* The phases of the trainer before the rollouter runs, and in the training loop.
Loading == trainer \in {"load", "loaded"}
Collecting == trainer \in {"log", "get", "train", "waitLast", "sync"}

\* update_param_version() has not noted the new version; it has, and is counting.
Noted == {"updateCall", "updateLock"}
Counting == {"updateSize", "updateSized"}

\* The rollouter knows the trainer's version; and it counts from it.
Announced == sync = "idle" /\ rpc \notin Noted
Settled == trainer # "waitLast" /\ Announced /\ rpc \notin Counting

\* Samples the trainer has had since staleness was last counted: between the last
\* training step of a version and the count after it, all there were.
Consumed == IF Settled THEN (localStep - 1) * Required + Len(batch) ELSE MaxRequired

\* Until fit() is called there is nothing to generate, and only one version.
StillUnborn == Loading =>
  /\ main = "unborn" /\ proc = "unborn" /\ version = 0 /\ trainVersion = 0
  /\ localStep = 1 /\ batch = << >> /\ queue = << >> /\ cancelQ = << >> /\ held = None
  /\ Live = {} /\ unreaped = 0 /\ staleness = 0 /\ sizeSum = 0 /\ rpcVersion = 0

\* staleness counts what the trainer had and what is on its way to it.
Room == Collecting =>
  /\ Consumed + Outstanding <= staleness /\ staleness <= MaxRequired
  /\ proc = "getWait" => staleness < MaxRequired

\* The batch, in each phase of the trainer.
Batches ==
  /\ Loading \/ Collecting \/ batch = << >>
  /\ Collecting =>
       /\ ~Settled => localStep = 1 /\ batch = << >>
       /\ trainer \in {"log", "waitLast", "sync"} => batch = << >>
       /\ trainer = "get" => Len(batch) < Required
       /\ trainer = "train" => Len(batch) = Required

\* Nothing is running when update_param_version() counts.
CountsNothing == Collecting =>
  /\ rpc \in {"pauseClear", "paused"} \cup Noted => Live = {} /\ unreaped = 0
  /\ rpc = "updateSize" => sizeSum = 0
  /\ rpc = "updateSized" => sizeSum <= MaxRequired

\* The version the rollouter has, or is about to have, is the trainer's.
VersionKnown == Collecting =>
  /\ trainer = "waitLast" => Announced /\ rpc \notin Counting
  /\ trainer # "waitLast" => IF Announced THEN version = trainVersion
                                          ELSE rpcVersion = trainVersion

\* Everything generated and being generated is of the trainer's version.
Tagged == Collecting =>
  \A s \in Samples :
    /\ held = s \/ Hits(cancelQ, {s}) > 0 \/ s \in InFlight =>
         startVer[s] \in {NoVersion, trainVersion}
    /\ s \in InFlight /\ task[s] # "new" => startVer[s] = trainVersion
    /\ task[s] = "put" => doneVer[s] = trainVersion

OfVersion(e) == e.start = trainVersion /\ e.ver = trainVersion
Current == Collecting =>
  /\ \A i \in DOMAIN queue : queue[i] # End => OfVersion(queue[i])
  /\ \A i \in DOMAIN batch : OfVersion(batch[i])

\* A sample has no version before its first task starts.
Untagged == \A s \in Samples : s > fed \/ Hits(pending, {s}) > 0 => startVer[s] = NoVersion

QueueBounded == Len(queue) <= MaxRequired

Synchronous ==
  /\ CallPhase /\ StillUnborn /\ Room /\ Batches /\ CountsNothing /\ VersionKnown
  /\ Tagged /\ Current /\ Untagged /\ QueueBounded

\* What is outstanding, as numbers; and nothing is.
LEMMA NothingOut ==
  ASSUME TypeOK, Outstanding = 0
  PROVE  /\ held = None /\ cancelQ = << >> /\ InFlight = {}
         /\ \A i \in DOMAIN queue : queue[i] = End
PROOF
  <1>1. /\ Cardinality(InFlight) \in Nat /\ Len(cancelQ) \in Nat
        /\ Hits(queue, SampleEntries) \in Nat /\ One(held # None) \in {0, 1}
        /\ Cardinality(InFlight) + Len(cancelQ) + Hits(queue, SampleEntries)
             + One(held # None) = 0
    BY Sizes, Numbers DEF Started
  <1>2. /\ Cardinality(InFlight) = 0 /\ Len(cancelQ) = 0 /\ Hits(queue, SampleEntries) = 0
        /\ One(held # None) = 0
    BY <1>1
  <1>3. held = None
    BY <1>2 DEF One
  <1>4. cancelQ = << >>
    BY <1>2 DEF TypeOK, RollouterTypeOK, WorkTypeOK
  <1>5. InFlight = {}
    BY <1>2, Numbers, FS_EmptySet
  <1>6. queue \in Seq(QueueEntries)
    BY DEF TypeOK, RollouterTypeOK, QueueTypeOK
  <1>7. {i \in DOMAIN queue : queue[i] \in SampleEntries} = {}
    BY <1>2, <1>6, HitsType, FS_EmptySet DEF Hits
  <1>8. \A i \in DOMAIN queue : queue[i] \in QueueEntries
    BY <1>6
  <1> QED
    BY <1>3, <1>4, <1>5, <1>7, <1>8 DEF QueueEntries

\* Only the processor's get() adds to what is outstanding.
LEMMA OutstandingSteps ==
  ASSUME TypeOK, TypeOK', [Next]_vars
  PROVE  /\ Outstanding \in Nat /\ Outstanding' \in Nat
         /\ Outstanding' <= Outstanding \/ (TakePending /\ Outstanding' <= Outstanding + 1)
PROOF
  <1>1. /\ Generated \in Nat /\ Outstanding \in Nat /\ Outstanding' \in Nat
    BY SizesType, SizesTypeNext DEF SizesOK
  <1>2. Generated <= Outstanding
    BY <1>1, Numbers
  <1>3. CASE Shrinks
    BY <1>1, <1>3 DEF Shrinks, SizesShrink
  <1>4. CASE UNCHANGED trainVars /\ FeedSamples
    BY <1>1, <1>4, FeedGrows DEF SizesShrink
  <1>5. CASE UNCHANGED trainVars /\ Submit
    BY <1>1, <1>5, SubmitMoves
  <1>6. CASE UNCHANGED trainVars /\ TakePending
    BY <1>1, <1>2, <1>6, TakeMoves
  <1> QED
    BY <1>1, <1>3, <1>4, <1>5, <1>6, StepShapes

\* Products, for the solver.
LEMMA Products ==
  ASSUME StaleAllowance = 0, NEW k \in 1..Trigger
  PROVE  /\ (k - 1) * Required \in Nat /\ (k - 1) * Required + Required = k * Required
         /\ k * Required <= MaxRequired /\ k * Required \in Nat
         /\ k = Trigger => k * Required = MaxRequired
         /\ k = 1 => (k - 1) * Required = 0
PROOF
  <1>1. Required \in Nat /\ Trigger \in Nat /\ k \in Nat /\ k >= 1 /\ k <= Trigger
        /\ MaxRequired = Required * Trigger
    BY RolloutAssumption DEF RolloutAssumption, MaxRequired
  <1> HIDE DEF MaxRequired
  <1>2. \A a, b, r \in Nat : a <= b => a * r <= b * r
    OBVIOUS
  <1>3. \A r \in Nat, a \in Int : (a - 1) * r + r = a * r
    OBVIOUS
  <1>4. \A a, b \in Nat : a * b \in Nat /\ a * b = b * a
    OBVIOUS
  <1>5. k - 1 \in Nat /\ (k = 1 => k - 1 = 0)
    BY <1>1
  <1> QED
    BY <1>1, <1>2, <1>3, <1>4, <1>5

\* A sample is outstanding only while the rollouter has, and counts from, the trainer's
\* version.
LEMMA OutstandingWhenSettled ==
  ASSUME StaleAllowance = 0, TypeOK, Batches, Room, Collecting
  PROVE  /\ Consumed \in Nat /\ Outstanding \in Nat /\ staleness \in Nat /\ MaxRequired \in Nat
         /\ ~Settled => Outstanding = 0 /\ staleness = MaxRequired
PROOF
  <1>1. Outstanding \in Nat /\ staleness \in Nat /\ MaxRequired \in Nat
        /\ Len(batch) \in Nat /\ localStep \in 1..Trigger
    BY SizesType, MaxRequiredType
    DEF SizesOK, TypeOK, RollouterTypeOK, LoopTypeOK
  <1>2. (localStep - 1) * Required \in Nat
    BY <1>1, Products
  <1>3. Consumed \in Nat
    BY <1>1, <1>2 DEF Consumed
  <1>4. ASSUME ~Settled PROVE Outstanding = 0 /\ staleness = MaxRequired
    <2>1. Consumed = MaxRequired
      BY <1>4 DEF Consumed
    <2>2. Consumed + Outstanding <= staleness /\ staleness <= MaxRequired
      BY DEF Room
    <2> HIDE DEF Outstanding, MaxRequired
    <2> QED
      BY <1>1, <2>1, <2>2
  <1> QED
    BY <1>1, <1>3, <1>4

LEMMA VersionOfOutstanding ==
  ASSUME StaleAllowance = 0, TypeOK, Batches, Room, VersionKnown, Collecting, Outstanding # 0
  PROVE  Settled /\ version = trainVersion
BY OutstandingWhenSettled DEF VersionKnown, Settled

\* A step is the rollouter's side's, the trainer's, the synchronizer's, or none.
LEMMA StepSides ==
  ASSUME [Next]_vars
  PROVE  \/ RollouterStep /\ UNCHANGED <<trainer, trainVars, sync>>
         \/ TrainerStep \/ SyncStep \/ UNCHANGED vars
BY DEF Next, Over

\* Only the remote calls move the call in progress, or the rollouter's version.
LEMMA CallFrame ==
  ASSUME RollouterStep, ~RpcStep, ~UpdateSize
  PROVE  UNCHANGED <<rpcVars, version>>
PROOF
  <1>1. CASE FeedSamples \/ ProcessorStep
    BY <1>1 DEF FeedSamples, ProcessorStep, SeePause, TakeCancelled, AwaitPending,
      TakePending, PauseSelf, TestDrain, EnterDrain, Reap, Idle, Submit, Wake, procFrame,
      aroundVars, rpcVars
  <1>2. CASE \E s \in Samples : TaskStep(s)
    BY <1>2 DEF TaskStep, StartTask, SendSample, FinishTask, RequeueSample, RaiseTask,
      taskFrame, aroundVars, rpcVars
  <1>3. CASE MonitorStart \/ MonitorCheck \/ MonitorWake \/ MonitorLift \/ AskStop
             \/ StopRunning \/ PutEnd
    BY <1>3 DEF MonitorStart, MonitorCheck, MonitorWake, MonitorLift, AskStop,
      StopRunning, PutEnd, monitorFrame, mainFrame, rpcVars
  <1>4. CASE \E s \in Samples :
               \/ QueueSample(s) \/ AcceptRequest(s) \/ CompleteRequest(s)
               \/ InterruptRequest(s) \/ FailRequest(s)
    BY <1>4 DEF QueueSample, AcceptRequest, CompleteRequest,
      InterruptRequest, FailRequest, serviceFrame, taskFrame, aroundVars, rpcVars
  <1>5. CASE PauseServers \/ ResumeServers
    BY <1>5 DEF PauseServers, ResumeServers, serviceFrame, taskFrame, aroundVars, rpcVars
  <1> QED
    BY <1>1, <1>2, <1>3, <1>4, <1>5 DEF RollouterStep, LoopStep, RemoteStep, RpcStep

\* On the rollouter's side only the end of the count settles, and only its beginning
\* announces the version.
LEMMA SettledSteps ==
  ASSUME CallPhase, RollouterStep, UNCHANGED <<trainer, trainVars, sync>>
  PROVE  /\ ~UpdateBegin => Announced' = Announced
         /\ ~UpdateStaleness => Settled' = Settled /\ Consumed' = Consumed
PROOF
  <1> USE DEF PauseCalls, UpdateCalls, ResumeCalls, Noted, Counting
  <1>1. [Next]_vars
    BY DEF Next
  <1>3. UNCHANGED rpc \/ RpcStep \/ UpdateSize
    BY CallFrame DEF rpcVars
  <1>4. ~UpdateBegin => Announced' = Announced
    <2>1. CASE UNCHANGED rpc
      BY <2>1 DEF Announced
    <2>2. CASE RpcStep \/ UpdateSize
      BY <2>2 DEF RpcStep, CallArrives, PauseBegin, PauseCancelled, PauseGathered, PauseEnd,
        UpdateBegin, UpdateSize, UpdateStaleness, UpdateEnd, ResumeBegin, ResumeEnd, InCall,
        CallPhase, Announced
    <2> QED
      BY <1>3, <2>1, <2>2
  <1>5. ASSUME ~UpdateStaleness PROVE Settled' = Settled
    <2>1. CASE UNCHANGED rpc
      BY <2>1 DEF Settled, Announced
    <2>2. CASE RpcStep \/ UpdateSize
      BY <1>5, <2>2 DEF RpcStep, CallArrives, PauseBegin, PauseCancelled, PauseGathered, PauseEnd,
        UpdateBegin, UpdateSize, UpdateEnd, ResumeBegin, ResumeEnd, InCall,
        CallPhase, Settled, Announced
    <2> QED
      BY <1>3, <2>1, <2>2
  <1>6. ASSUME Settled' = Settled PROVE Consumed' = Consumed
    BY <1>6 DEF Consumed, trainVars
  <1> QED
    BY <1>4, <1>5, <1>6

LEMMA NothingActive ==
  ASSUME TypeOK
  PROVE  (Live = {} => ActiveTasks = unreaped) /\ Len(<< >>) = 0
PROOF
  <1>1. Live = {} => Cardinality(Live) = 0
    BY FS_EmptySet
  <1>2. unreaped \in Nat
    BY DEF TypeOK, RollouterTypeOK, WorkTypeOK
  <1> QED
    BY <1>1, <1>2 DEF ActiveTasks

LEMMA UnbornNext ==
  ASSUME TypeOK, StillUnborn, CallPhase, [Next]_vars
  PROVE  StillUnborn'
PROOF
  <1> SUFFICES ASSUME Loading'
               PROVE  StillUnborn'
    BY DEF StillUnborn
  <1>1. (Live = {} => ActiveTasks = unreaped) /\ Len(<< >>) = 0
    BY NothingActive
  <1>2. CASE RollouterStep /\ UNCHANGED <<trainer, trainVars, sync>>
    <2>1. Loading /\ UNCHANGED <<trainVersion, localStep, batch>>
      BY <1>2 DEF Loading, trainVars
    <2>2. /\ main = "unborn" /\ proc = "unborn" /\ version = 0 /\ trainVersion = 0
          /\ localStep = 1 /\ batch = << >> /\ queue = << >> /\ cancelQ = << >> /\ held = None
          /\ Live = {} /\ unreaped = 0 /\ staleness = 0 /\ sizeSum = 0 /\ rpcVersion = 0
      BY <2>1 DEF StillUnborn
    <2>3. ~FeedSamples /\ ~ProcessorStep /\ ~PutEnd /\ ~AskStop /\ ~StopRunning
      BY <2>2 DEF FeedSamples, ProcessorStep, SeePause, TakeCancelled, AwaitPending,
        TakePending, PauseSelf, TestDrain, EnterDrain, Reap, Idle, Submit, Wake, AtTop,
        AtTopGoing, PutEnd, AskStop, StopRunning
    <2>4. \A s \in Samples :
            /\ ~TaskStep(s) /\ ~QueueSample(s) /\ ~AcceptRequest(s) /\ ~CompleteRequest(s)
            /\ ~InterruptRequest(s) /\ ~FailRequest(s)
      <3>1. \A s \in Samples : task[s] = "none"
        BY <2>2 DEF Live
      <3> QED
        BY <3>1 DEF TaskStep, StartTask, SendSample, FinishTask, RequeueSample, RaiseTask,
          QueueSample, AcceptRequest, CompleteRequest, InterruptRequest, FailRequest
    <2>5. CASE MonitorStart \/ MonitorCheck \/ MonitorWake \/ MonitorLift
      BY <2>1, <2>2, <2>5 DEF MonitorStart, MonitorCheck, MonitorWake, MonitorLift, Notify,
        Notified, monitorFrame, StillUnborn, mqVars, taskVars, poolVars, rpcVars, Live
    <2>6. CASE PauseServers \/ ResumeServers
      BY <2>1, <2>2, <2>6 DEF PauseServers, ResumeServers, serviceFrame, taskFrame, aroundVars,
        rpcVars, StillUnborn, mqVars, poolVars, procVars, Live
    <2>7. CASE RpcStep \/ UpdateSize
      <3>1. UNCHANGED <<main, queue, cancelQ, held, task, rpcVersion>>
        BY <2>7 DEF RpcStep, CallArrives, PauseBegin, PauseCancelled, PauseGathered, PauseEnd,
          UpdateBegin, UpdateSize, UpdateStaleness, UpdateEnd, ResumeBegin, ResumeEnd,
          callFrame, rpcFrame, taskVars, mqVars, MQ!PutValidate
      <3>2. proc' = "unborn" /\ unreaped' = 0 /\ version' = 0
        BY <2>2, <2>7 DEF RpcStep, CallArrives, PauseBegin, PauseCancelled, PauseGathered,
          PauseEnd, UpdateBegin, UpdateSize, UpdateStaleness, UpdateEnd, ResumeBegin, ResumeEnd,
          callFrame, Notify, Notified, poolVars
      <3>3. staleness' = 0 /\ sizeSum' = 0
        BY <1>1, <2>2, <2>7 DEF RpcStep, CallArrives, PauseBegin, PauseCancelled, PauseGathered,
          PauseEnd, UpdateBegin, UpdateSize, UpdateStaleness, UpdateEnd, ResumeBegin, ResumeEnd,
          callFrame
      <3> QED
        BY <2>1, <2>2, <3>1, <3>2, <3>3 DEF StillUnborn, Live
    <2> QED
      BY <1>2, <2>3, <2>4, <2>5, <2>6, <2>7 DEF RollouterStep, LoopStep, RemoteStep, RpcStep
  <1>3. CASE Load
    <2>1. Loading /\ rpcVersion' = trainVersion
      BY <1>3 DEF Loading, Load, SyncBegin
    <2> QED
      BY <1>3, <2>1 DEF Load, SyncBegin, StillUnborn, rolloutVars, mqVars, trainVars, feedVars,
        taskVars, poolVars, procVars, Live
  <1>4. CASE SyncStep
    <2>1. UNCHANGED <<queue, rolloutVars, rpcVersion, sizeSum, trainVars>>
      BY <1>4 DEF SyncStep, SyncAnnounce, SyncEnd, MQ!UpdateMqVersion, mqVars, rpcVars
    <2>2. Loading
      BY <1>4 DEF SyncStep, SyncAnnounce, SyncEnd, Loading
    <2> QED
      BY <2>1, <2>2 DEF StillUnborn, rolloutVars, trainVars, taskVars, poolVars, procVars, Live
  <1>5. CASE UNCHANGED vars
    BY <1>5 DEF vars, StillUnborn, Loading, rolloutVars, rpcVars, mqVars, trainVars, taskVars,
      poolVars, procVars, Live
  <1>6. ~Launch /\ ~LogValidation /\ ~AwaitSamples /\ ~CollectSample /\ ~TrainStep /\ ~StartSync
        /\ ~FinishTraining /\ ~FinishValidation /\ ~ClearAtEnd
    BY DEF Loading, Launch, LogValidation, AwaitSamples, CollectSample, TrainStep, StartSync,
      FinishTraining, FinishValidation, ClearAtEnd
  <1> QED
    BY <1>2, <1>3, <1>4, <1>5, <1>6, StepSides DEF TrainerStep

\* The trainer and the synchronizer leave the rollouter alone, but for Launch.
LEMMA AcrossFrame ==
  ASSUME TrainerStep \/ SyncStep, ~Launch
  PROVE  UNCHANGED rolloutVars
BY DEF TrainerStep, SyncStep, Load, LogValidation, AwaitSamples, CollectSample, TrainStep,
       StartSync, FinishTraining, FinishValidation, ClearAtEnd, SyncAnnounce, SyncEnd

\* Before Launch nothing is outstanding.
LEMMA UnbornOut == ASSUME TypeOK, StillUnborn, Loading PROVE Outstanding = 0
PROOF
  <1>1. held = None /\ cancelQ = << >> /\ queue = << >> /\ InFlight = {}
    BY DEF StillUnborn, InFlight, Live
  <1>2. Hits(queue, SampleEntries) = 0 /\ Len(cancelQ) = 0 /\ Cardinality(InFlight) = 0
    BY <1>1, HitsEmpty, FS_EmptySet
  <1>3. One(held # None) = 0
    BY <1>1 DEF One
  <1>4. Generated = Started + Hits(queue, SampleEntries)
        /\ Outstanding = Generated + One(held # None)
    BY Numbers
  <1>5. Started = 0
    BY <1>2 DEF Started
  <1> QED
    BY <1>2, <1>3, <1>4, <1>5

\* Outside the waits for a synchronization, the trainer's own phases do not unsettle.
LEMMA SettledTrainer ==
  ASSUME UNCHANGED <<sync, rpc>>, trainer # "waitLast", trainer' # "waitLast"
  PROVE  Settled' = Settled
BY DEF Settled, Announced

\* A sample the trainer takes is outstanding no more.
LEMMA CollectMoves ==
  ASSUME TypeOK, TypeOK', CollectSample, trainer' # "final"
  PROVE  /\ Head(queue) \in SampleEntries /\ batch' = Append(batch, Head(queue))
         /\ Len(batch') = Len(batch) + 1 /\ Outstanding' = Outstanding - 1
         /\ trainer' = IF Len(batch) + 1 = Required THEN "train" ELSE "get"
PROOF
  <1>1. MQ!GetSample("trainer") /\ QueueTypeOK /\ batch \in Seq(SampleEntries)
    BY DEF CollectSample, TypeOK, RollouterTypeOK
  <1>2. /\ MQ!PopLeft(queue).item = Head(queue) /\ Head(queue) \in QueueEntries
        /\ Hits(queue', SampleEntries)
             = Hits(queue, SampleEntries) - One(Head(queue) \in SampleEntries)
    BY <1>1, GetHits
  <1>3. Head(queue) # End /\ batch' = Append(batch, Head(queue))
        /\ trainer' = IF Len(batch) + 1 = Required THEN "train" ELSE "get"
    BY <1>2 DEF CollectSample
  <1>4. Head(queue) \in SampleEntries
    BY <1>2, <1>3 DEF QueueEntries
  <1>5. UNCHANGED <<held, cancelQ, task>>
    BY DEF CollectSample, rolloutVars, taskVars, procVars
  <1>6. InFlight' = InFlight
    BY <1>5 DEF InFlight
  <1>7. Started' = Started /\ One(held' # None) = One(held # None)
    BY <1>5, <1>6 DEF Started
  <1>8. /\ Outstanding = Started + Hits(queue, SampleEntries) + One(held # None)
        /\ Outstanding' = Started' + Hits(queue', SampleEntries) + One(held' # None)
        /\ Started \in Nat /\ Hits(queue, SampleEntries) \in Nat /\ One(held # None) \in {0, 1}
    <2>1. /\ Outstanding = Started + Hits(queue, SampleEntries) + One(held # None)
          /\ Started \in Nat /\ Hits(queue, SampleEntries) \in Nat /\ One(held # None) \in {0, 1}
      BY Numbers
    <2>2. TypeOK => Outstanding = Started + Hits(queue, SampleEntries) + One(held # None)
      BY Numbers
    <2>3. {i \in DOMAIN queue' : queue'[i] # End}
            = {i \in DOMAIN queue' : queue'[i] \in SampleEntries}
      BY NotTheEnd DEF TypeOK, RollouterTypeOK, QueueTypeOK
    <2>4. Generated' = Started' + Hits(queue', SampleEntries)
      BY <2>3 DEF Generated, Started, Hits
    <2>5. Outstanding' = Generated' + One(held' # None)
      BY DEF Outstanding
    <2> QED
      BY <2>1, <2>4, <2>5
  <1>9. One(Head(queue) \in SampleEntries) = 1
    BY <1>4 DEF One
  <1>10. Len(batch') = Len(batch) + 1
    BY <1>1, <1>3, <1>4
  <1>11. Outstanding' = Outstanding - 1
    BY <1>2, <1>7, <1>8, <1>9
  <1> QED
    BY <1>3, <1>4, <1>10, <1>11

\* Sums, for the solver: c consumed and o outstanding, which become p, under a count of s.
LEMMA Sums ==
  \A c, o, p, s \in Nat :
    /\ c + o <= s /\ p <= o => c + p <= s /\ 0 + p <= s
    /\ c + o <= s /\ p <= o + 1 => c + p <= s + 1
    /\ c + o <= s /\ p = o - 1 => (c + 1) + p <= s
    /\ p <= o /\ o = 0 => p = 0 /\ c + p = c /\ 0 + p <= s
OBVIOUS

LEMMA RoomRollouter ==
  ASSUME StaleAllowance = 0, TypeOK, TypeOK', CallPhase, Room, Batches, CountsNothing,
         VersionKnown, RollouterStep, UNCHANGED <<trainer, trainVars, sync>>
  PROVE  Room'
PROOF
  <1> SUFFICES ASSUME Collecting'
               PROVE  Room'
    BY DEF Room
  <1>1. Collecting /\ [Next]_vars
    BY DEF Collecting, Next
  <1>2. /\ Consumed \in Nat /\ Outstanding \in Nat /\ staleness \in Nat /\ MaxRequired \in Nat
        /\ ~Settled => Outstanding = 0 /\ staleness = MaxRequired
    BY <1>1, OutstandingWhenSettled
  <1>3. /\ Outstanding' \in Nat
        /\ Outstanding' <= Outstanding \/ (TakePending /\ Outstanding' <= Outstanding + 1)
    BY <1>1, OutstandingSteps
  <1>4. /\ Consumed + Outstanding <= staleness /\ staleness <= MaxRequired
        /\ proc = "getWait" => staleness < MaxRequired
    BY <1>1 DEF Room
  <1>5. ~ShouldPause => staleness < MaxRequired
    BY <1>2 DEF ShouldPause
  <1>6. ~UpdateStaleness => Consumed' = Consumed
    BY SettledSteps
  <1> HIDE DEF Outstanding, MaxRequired
  <1>7. ASSUME Consumed' + Outstanding' <= staleness', staleness' <= MaxRequired,
               proc' = "getWait" => staleness' < MaxRequired
        PROVE  Room'
    BY <1>7 DEF Room, MaxRequired
  <1>8. CASE TakePending
    <2>1. /\ staleness' = staleness + 1 /\ proc' = "reap" /\ UNCHANGED rpc
          /\ AtTopGoing \/ proc = "getWait"
      BY <1>8 DEF TakePending, rpcVars
    <2>2. staleness < MaxRequired
      BY <1>4, <1>5, <2>1 DEF AtTopGoing
    <2>3. Outstanding' <= Outstanding + 1
      BY <1>2, <1>3
    <2>4. ~UpdateStaleness
      BY <2>1 DEF UpdateStaleness, InCall
    <2>7. Consumed + Outstanding' <= staleness + 1
      <3>1. \A c, o, p, s \in Nat : c + o <= s /\ p <= o + 1 => c + p <= s + 1
        OBVIOUS
      <3> QED
        BY <1>2, <1>3, <1>4, <2>3, <3>1
    <2>5. Consumed' + Outstanding' <= staleness'
      BY <1>6, <2>1, <2>4, <2>7
    <2>6. staleness' <= MaxRequired
      BY <1>2, <2>1, <2>2
    <2> QED
      BY <1>7, <2>1, <2>5, <2>6
  <1>9. CASE AwaitPending
    <2>1. ~ShouldPause /\ UNCHANGED <<staleness, rpc>>
      BY <1>9 DEF AwaitPending, AtTopGoing, procFrame, aroundVars, rpcVars
    <2>2. ~UpdateStaleness /\ ~TakePending
      BY <1>9, <2>1 DEF UpdateStaleness, InCall, AwaitPending, TakePending
    <2>3. Consumed' + Outstanding' <= staleness'
      BY <1>2, <1>3, <1>4, <1>6, <2>1, <2>2, Sums
    <2> QED
      BY <1>4, <1>5, <1>7, <2>1, <2>3
  <1>10. CASE UpdateStaleness
    <2>1. rpc = "updateSized" /\ staleness' = sizeSum /\ UNCHANGED proc /\ rpc' = "updateVal"
      BY <1>10 DEF UpdateStaleness, InCall
    <2>2. ~Settled /\ sizeSum <= MaxRequired /\ sizeSum \in Nat
      BY <1>1, <2>1
      DEF Settled, Counting, CountsNothing, TypeOK, RollouterTypeOK, LoopTypeOK, MaxRequired
    <2>3. Settled'
      <3>1. sync = "idle"
        BY <2>1 DEF CallPhase, PauseCalls, TypeOK
      <3>2. trainer # "waitLast"
        BY <1>1, <2>1 DEF VersionKnown, Counting
      <3> QED
        BY <2>1, <3>1, <3>2 DEF Settled, Announced, Noted, Counting
    <2>4. Consumed' = 0
      <3>1. localStep' = 1 /\ batch' = << >>
        BY <1>1, <2>2 DEF Batches, trainVars
      <3>2. (localStep' - 1) * Required = 0 /\ Len(batch') = 0
        BY <3>1, RolloutAssumption DEF RolloutAssumption
      <3> QED
        BY <2>3, <3>2 DEF Consumed
    <2>5. ~TakePending
      BY <2>1 DEF TakePending, rpcVars
    <2>6. Outstanding' = 0
      BY <1>2, <1>3, <2>2, <2>5
    <2>7. proc' # "getWait"
      BY <1>2, <1>4, <2>1, <2>2
    <2> QED
      BY <1>7, <2>1, <2>2, <2>4, <2>6, <2>7
  <1>11. CASE ~TakePending /\ ~AwaitPending /\ ~UpdateStaleness
    <2>1. UNCHANGED staleness /\ (proc' = "getWait" => proc = "getWait")
      <3>1. CASE UpdateBegin \/ UpdateSize
        BY <3>1 DEF UpdateBegin, UpdateSize, callFrame
      <3>2. CASE ~UpdateBegin /\ ~UpdateSize
        BY <1>1, <1>11, <3>2, FrameOfSteps DEF BudgetFrame
      <3> QED
        BY <3>1, <3>2
    <2>2. Consumed' + Outstanding' <= staleness'
      BY <1>2, <1>3, <1>4, <1>6, <1>11, <2>1, Sums
    <2> QED
      BY <1>4, <1>7, <2>1, <2>2
  <1> QED
    BY <1>8, <1>9, <1>10, <1>11

LEMMA RoomAcross ==
  ASSUME StaleAllowance = 0, TypeOK, TypeOK', CallPhase, Room, Batches, StillUnborn,
         TrainerStep \/ SyncStep
  PROVE  Room'
PROOF
  <1> SUFFICES ASSUME Collecting'
               PROVE  Room'
    BY DEF Room
  <1>1. [Next]_vars
    BY DEF Next
  <1>2. Outstanding' \in Nat /\ Outstanding' <= Outstanding /\ MaxRequired \in Nat
    <2>1. ~TakePending
      <3>1. CASE Launch
        BY <3>1 DEF Launch, StartFit, TakePending
      <3>2. CASE ~Launch
        BY <3>2, AcrossFrame
        DEF rolloutVars, procVars, TakePending, feedVars, TypeOK, RollouterTypeOK, WorkTypeOK
      <3> QED
        BY <3>1, <3>2
    <2> QED
      BY <1>1, <2>1, OutstandingSteps, MaxRequiredType
  <1> HIDE DEF Outstanding, MaxRequired
  <1>3. CASE Launch
    <2>1. /\ sync = "idle" /\ rpc = "none" /\ UNCHANGED <<sync, rpc, batch, localStep, staleness>>
          /\ proc' = "top" /\ trainer' = "log" /\ Loading
      BY <1>3 DEF Launch, LastSyncOver, StartFit, trainVars, rpcVars, Loading
    <2>2. localStep' = 1 /\ batch' = << >> /\ staleness' = 0
      BY <2>1 DEF StillUnborn
    <2>3. Settled'
      BY <2>1 DEF Settled, Announced, Noted, Counting
    <2>4. Consumed' = 0
      <3>2. (localStep' - 1) * Required = 0 /\ Len(batch') = 0
        BY <2>2, RolloutAssumption DEF RolloutAssumption
      <3> QED
        BY <2>3, <3>2 DEF Consumed
    <2>5. Outstanding = 0
      BY <2>1, UnbornOut
    <2>6. Outstanding' = 0
      BY <1>2, <2>5
    <2>7. Consumed' + Outstanding' <= staleness'
      BY <2>2, <2>4, <2>6
    <2>8. MaxRequired \in Nat \ {0} /\ MaxRequired' = MaxRequired
      BY MaxRequiredType DEF MaxRequired
    <2>9. staleness' <= MaxRequired /\ staleness' < MaxRequired
      BY <2>2, <2>8
    <2> QED
      BY <2>1, <2>7, <2>8, <2>9 DEF Room
  <1>4. CASE ~Launch
    <2>1. UNCHANGED <<staleness, proc>>
      BY <1>4, AcrossFrame DEF rolloutVars, procVars
    <2>2. Collecting
      BY <1>4 DEF Collecting, TrainerStep, SyncStep, Load, LogValidation, AwaitSamples,
        CollectSample, TrainStep, StartSync, FinishTraining, FinishValidation, ClearAtEnd,
        SyncAnnounce, SyncEnd
    <2>3. /\ Consumed \in Nat /\ Outstanding \in Nat /\ staleness \in Nat /\ MaxRequired \in Nat
          /\ ~Settled => Outstanding = 0 /\ staleness = MaxRequired
      BY <2>2, OutstandingWhenSettled
    <2>4. /\ Consumed + Outstanding <= staleness /\ staleness <= MaxRequired
          /\ proc = "getWait" => staleness < MaxRequired
      BY <2>2 DEF Room
    <2>5. ASSUME Consumed' \in Nat, Consumed' + Outstanding' <= staleness
          PROVE  Room'
      BY <2>1, <2>4, <2>5 DEF Room, MaxRequired
    <2>6. CASE SyncStep \/ StartSync
      <3>1. ~Settled /\ ~Settled'
        BY <2>6 DEF SyncStep, SyncAnnounce, SyncEnd, StartSync, SyncBegin, Settled, Announced,
          Noted
      <3>2. Consumed = MaxRequired /\ Consumed' = MaxRequired
        BY <3>1 DEF Consumed, MaxRequired
      <3> QED
        BY <1>2, <2>3, <2>4, <2>5, <3>2, Sums
    <2>7. CASE LogValidation \/ AwaitSamples
      <3>1. /\ UNCHANGED <<sync, rpc, batch, localStep>>
            /\ trainer # "waitLast" /\ trainer' # "waitLast"
        BY <2>7 DEF LogValidation, AwaitSamples, trainVars, rpcVars
      <3>2. Consumed' = Consumed
        BY <3>1, SettledTrainer DEF Consumed
      <3> QED
        BY <1>2, <2>3, <2>4, <2>5, <3>2, Sums
    <2>8. CASE CollectSample
      <3>1. UNCHANGED <<sync, rpc, localStep>> /\ trainer # "waitLast" /\ trainer' # "waitLast"
            /\ trainer' # "final"
        BY <2>8 DEF CollectSample, Collecting, rpcVars
      <3>2. Len(batch') = Len(batch) + 1 /\ Outstanding' = Outstanding - 1
        BY <2>8, <3>1, CollectMoves
      <3>3. Settled
        BY <1>2, <2>3, <3>2
      <3>4. Settled'
        BY <3>1, <3>3, SettledTrainer
      <3>5. (localStep - 1) * Required \in Nat /\ Len(batch) \in Nat
        BY Products DEF TypeOK
      <3>6. Consumed' = Consumed + 1
        BY <3>1, <3>2, <3>3, <3>4, <3>5 DEF Consumed
      <3> QED
        BY <1>2, <2>3, <2>4, <2>5, <3>2, <3>6, Sums
    <2>9. CASE TrainStep
      <3>1. /\ UNCHANGED <<sync, rpc>> /\ trainer = "train" /\ batch' = << >>
            /\ \/ localStep < Trigger /\ localStep' = localStep + 1 /\ trainer' = "log"
               \/ ~(localStep < Trigger) /\ trainer' = "waitLast"
        BY <2>9 DEF TrainStep, rpcVars
      <3>2. /\ Len(batch) = Required /\ Required \in Nat \ {0}
            /\ Trigger \in Nat /\ localStep \in 1..Trigger
        BY <2>2, <3>1, RolloutAssumption DEF Batches, RolloutAssumption, TypeOK
      <3>3. Settled
        BY <2>2, <3>2 DEF Batches
      <3>4. Consumed = localStep * Required /\ localStep * Required \in Nat
        BY <3>2, <3>3, Products DEF Consumed
      <3>5. CASE localStep < Trigger
        <4>1. Settled'
          BY <3>1, <3>3, <3>5, SettledTrainer
        <4>2. localStep' - 1 = localStep /\ Len(batch') = 0
          BY <3>1, <3>2, <3>5
        <4>3. Consumed' = localStep * Required
          BY <3>4, <4>1, <4>2 DEF Consumed
        <4> QED
          BY <1>2, <2>3, <2>4, <2>5, <3>4, <4>3, Sums
      <3>6. CASE ~(localStep < Trigger)
        <4>1. localStep = Trigger
          BY <3>2, <3>6
        <4>2. localStep * Required = MaxRequired
          <5>1. localStep = Trigger => localStep * Required = MaxRequired
            BY <3>2, Products
          <5> QED
            BY <4>1, <5>1
        <4>3. Consumed' = MaxRequired
          BY <3>1, <3>6 DEF Consumed, Settled, MaxRequired
        <4> QED
          BY <1>2, <2>3, <2>4, <2>5, <3>4, <4>2, <4>3, Sums
      <3> QED
        BY <3>5, <3>6
    <2>10. ~Load /\ ~FinishTraining /\ ~FinishValidation /\ ~ClearAtEnd
      BY DEF Collecting, Load, FinishTraining, FinishValidation, ClearAtEnd
    <2> QED
      BY <1>4, <2>6, <2>7, <2>8, <2>9, <2>10 DEF TrainerStep
  <1> QED
    BY <1>3, <1>4

LEMMA BatchesNext ==
  ASSUME StaleAllowance = 0, TypeOK, TypeOK', CallPhase, Room, Batches, StillUnborn, [Next]_vars
  PROVE  Batches'
PROOF
  <1>1. Required \in Nat \ {0} /\ Len(<< >>) = 0 /\ Len(batch) \in Nat
    BY RolloutAssumption DEF RolloutAssumption, TypeOK
  <1>2. CASE RollouterStep /\ UNCHANGED <<trainer, trainVars, sync>>
    <2>1. UNCHANGED <<trainer, localStep, batch>> /\ Loading' = Loading /\ Collecting' = Collecting
      BY <1>2 DEF trainVars, Loading, Collecting
    <2>2. UpdateStaleness => ~Settled
      BY DEF UpdateStaleness, InCall, Settled, Counting
    <2>3. ~Settled' => ~Settled
      BY <1>2, <2>2, SettledSteps
    <2> QED
      BY <2>1, <2>3 DEF Batches
  <1>3. CASE UNCHANGED vars
    BY <1>3 DEF vars, Batches, Loading, Collecting, Settled, Announced, trainVars, rpcVars
  <1>4. CASE SyncStep
    <2>1. ~Settled /\ UNCHANGED <<batch, localStep>>
      BY <1>4 DEF SyncStep, SyncAnnounce, SyncEnd, Settled, Announced, trainVars
    <2>2. \/ UNCHANGED trainer
          \/ trainer = "load" /\ trainer' = "loaded"
          \/ trainer = "sync" /\ trainer' = "log"
          \/ trainer = "finalSync" /\ trainer' = "finalWait"
      BY <1>4 DEF SyncStep, SyncAnnounce, SyncEnd
    <2> QED
      BY <2>1, <2>2 DEF Batches, Loading, Collecting
  <1>5. CASE Load \/ StartSync
    <2>1. /\ UNCHANGED <<batch, localStep>>
          /\ \/ trainer = "load" /\ trainer' = "load"
             \/ trainer = "waitLast" /\ trainer' = "sync" /\ ~Settled
      BY <1>5 DEF Load, StartSync, Settled, trainVars
    <2> QED
      BY <2>1 DEF Batches, Loading, Collecting
  <1>6. CASE Launch
    <2>1. batch' = << >> /\ localStep' = 1 /\ trainer' = "log"
      BY <1>6 DEF Launch, StillUnborn, Loading, trainVars
    <2> QED
      BY <2>1 DEF Batches, Loading, Collecting
  <1>7. CASE LogValidation \/ AwaitSamples
    <2>1. /\ UNCHANGED <<sync, rpc, batch, localStep>> /\ trainer \in {"log", "get"}
          /\ trainer' = "get"
      BY <1>7 DEF LogValidation, AwaitSamples, trainVars, rpcVars
    <2>2. Settled' = Settled
      BY <2>1, SettledTrainer
    <2>3. Len(batch) < Required
      BY <1>1, <2>1 DEF Batches, Collecting
    <2> QED
      BY <2>1, <2>2, <2>3 DEF Batches, Collecting
  <1>8. CASE CollectSample
    <2>1. CASE trainer' = "final"
      <3>1. batch' = << >>
        BY <1>8, <2>1 DEF CollectSample
      <3> QED
        BY <2>1, <3>1 DEF Batches, Collecting
    <2>2. CASE trainer' # "final"
      <3>1. /\ trainer = "get" /\ UNCHANGED <<sync, rpc>> /\ Len(batch') = Len(batch) + 1
            /\ Outstanding' = Outstanding - 1
            /\ trainer' = IF Len(batch) + 1 = Required THEN "train" ELSE "get"
        BY <1>8, <2>2, CollectMoves DEF CollectSample, rpcVars
      <3>2. Len(batch) < Required
        BY <3>1 DEF Batches, Collecting
      <3>3. Settled
        <4>1. Outstanding' \in Nat /\ Outstanding \in Nat
          BY OutstandingSteps
        <4>2. Collecting
          BY <3>1 DEF Collecting
        <4> QED
          BY <3>1, <4>1, <4>2, OutstandingWhenSettled
      <3>4. Settled'
        BY <3>1, <3>3, SettledTrainer
      <3>5. \/ trainer' = "train" /\ Len(batch') = Required
            \/ trainer' = "get" /\ Len(batch') < Required
        BY <1>1, <3>1, <3>2
      <3> QED
        BY <3>4, <3>5 DEF Batches, Collecting
    <2> QED
      BY <2>1, <2>2
  <1>9. CASE TrainStep
    <2>1. /\ UNCHANGED <<sync, rpc>> /\ trainer = "train" /\ batch' = << >>
          /\ \/ trainer' = "log"
             \/ localStep' = 1 /\ trainer' = "waitLast"
      BY <1>9 DEF TrainStep, rpcVars
    <2>2. Settled
      BY <1>1, <2>1 DEF Batches, Collecting
    <2>3. trainer' = "log" => Settled'
      BY <2>1, <2>2, SettledTrainer
    <2> QED
      BY <2>1, <2>3 DEF Batches, Collecting
  <1>10. CASE FinishTraining \/ FinishValidation \/ ClearAtEnd
    <2>1. ~Loading /\ ~Collecting /\ ~Collecting' /\ UNCHANGED batch
      BY <1>10 DEF FinishTraining, FinishValidation, ClearAtEnd, trainVars, Loading, Collecting
    <2> QED
      BY <2>1 DEF Batches
  <1> QED
    BY <1>2, <1>3, <1>4, <1>5, <1>6, <1>7, <1>8, <1>9, <1>10, StepSides DEF TrainerStep

\* With no task and nothing in its hands the rollouter starts none and reaps none.
LEMMA NothingStarts ==
  ASSUME TypeOK, RollouterStep, Live = {}, unreaped = 0, held = None
  PROVE  Live' = {} /\ unreaped' = 0
PROOF
  <1>1. \A s \in Samples : task[s] = "none"
    BY DEF Live
  <1>2. task' = task /\ unreaped' \in {0, unreaped} => Live' = {} /\ unreaped' = 0
    BY DEF Live
  <1>3. \A s \in Samples :
          /\ ~TaskStep(s) /\ ~QueueSample(s) /\ ~AcceptRequest(s) /\ ~CompleteRequest(s)
          /\ ~InterruptRequest(s) /\ ~FailRequest(s)
    BY <1>1 DEF TaskStep, StartTask, SendSample, FinishTask, RequeueSample, RaiseTask,
      QueueSample, AcceptRequest, CompleteRequest, InterruptRequest, FailRequest
  <1>4. CASE Submit
    <2>1. None \notin Samples /\ task \in [Samples -> TaskStates]
      BY DEF None, Samples, TypeOK, RollouterTypeOK, WorkTypeOK
    <2>2. task' = task /\ unreaped' = unreaped
      BY <1>4, <2>1 DEF Submit, poolVars
    <2> QED
      BY <1>2, <2>2
  <1>5. CASE FeedSamples \/ (ProcessorStep /\ ~Submit)
    BY <1>2, <1>5 DEF FeedSamples, ProcessorStep, SeePause, TakeCancelled, AwaitPending,
      TakePending, PauseSelf, TestDrain, EnterDrain, Reap, Idle, Wake, procFrame, taskVars,
      poolVars
  <1>6. CASE MonitorStart \/ MonitorCheck \/ MonitorWake \/ MonitorLift \/ AskStop
             \/ StopRunning \/ PutEnd
    BY <1>2, <1>6 DEF MonitorStart, MonitorCheck, MonitorWake, MonitorLift, AskStop,
      StopRunning, PutEnd, monitorFrame, mainFrame, taskVars, poolVars
  <1>7. CASE RpcStep \/ UpdateSize \/ PauseServers \/ ResumeServers
    BY <1>2, <1>7 DEF RpcStep, CallArrives, PauseBegin, PauseCancelled, PauseGathered, PauseEnd,
      UpdateBegin, UpdateSize, UpdateStaleness, UpdateEnd, ResumeBegin, ResumeEnd,
      callFrame, rpcFrame, PauseServers, ResumeServers, serviceFrame, taskVars, poolVars
  <1> QED
    BY <1>3, <1>4, <1>5, <1>6, <1>7 DEF RollouterStep, LoopStep, RemoteStep, RpcStep

LEMMA CountsNothingNext ==
  ASSUME StaleAllowance = 0, TypeOK, CallPhase, Room, Batches, CountsNothing, QueueBounded,
         [Next]_vars
  PROVE  CountsNothing'
PROOF
  <1> SUFFICES ASSUME Collecting'
               PROVE  CountsNothing'
    BY DEF CountsNothing
  <1>1. CASE RollouterStep /\ UNCHANGED <<trainer, trainVars, sync>>
    <2>1. Collecting
      BY <1>1 DEF Collecting
    <2>2. /\ rpc \in {"pauseClear", "paused"} \cup Noted => Live = {} /\ unreaped = 0
          /\ rpc = "updateSize" => sizeSum = 0
          /\ rpc = "updateSized" => sizeSum <= MaxRequired
      BY <2>1 DEF CountsNothing
    <2>3. ASSUME rpc \in {"pauseClear", "paused"} \cup Noted
          PROVE  Live' = {} /\ unreaped' = 0 /\ cancelQ = << >>
      <3>1. ~Settled
        BY <2>3 DEF CallPhase, PauseCalls, Settled, Announced, Noted
      <3>2. held = None /\ cancelQ = << >>
        BY <2>1, <3>1, OutstandingWhenSettled, NothingOut
      <3> QED
        BY <1>1, <2>2, <2>3, <3>2, NothingStarts
    <2>4. ~RpcStep /\ ~UpdateSize => UNCHANGED <<rpc, sizeSum>>
      BY <1>1, CallFrame DEF rpcVars
    <2>5. rpc' \in {"pauseClear", "paused"} \cup Noted => Live' = {} /\ unreaped' = 0
      <3>1. CASE PauseGathered
        BY <3>1 DEF PauseGathered, callFrame, rpcFrame, taskVars, Live
      <3>2. CASE ~PauseGathered
        <4>1. rpc' \in {"pauseClear", "paused"} \cup Noted
                => rpc \in {"pauseClear", "paused"} \cup Noted
          BY <2>4, <3>2 DEF RpcStep, CallArrives, PauseBegin, PauseCancelled, PauseEnd,
            UpdateBegin, UpdateSize, UpdateStaleness, UpdateEnd, ResumeBegin, ResumeEnd, InCall,
            Noted
        <4> QED
          BY <2>3, <4>1
      <3> QED
        BY <3>1, <3>2
    <2>6. rpc' = "updateSize" => sizeSum' = 0
      <3>1. CASE UpdateBegin
        <4>1. rpc = "updateLock" /\ sizeSum' = ActiveTasks + Len(cancelQ)
          BY <3>1 DEF UpdateBegin, InCall
        <4>2. Live = {} /\ unreaped = 0 /\ cancelQ = << >>
          BY <2>2, <2>3, <4>1 DEF Noted
        <4>3. ActiveTasks = 0 /\ Len(cancelQ) = 0
          BY <4>2, NothingActive
        <4> QED
          BY <4>1, <4>3
      <3>2. CASE ~UpdateBegin
        BY <2>2, <2>4, <3>2 DEF RpcStep, CallArrives, PauseBegin, PauseCancelled,
          PauseGathered, PauseEnd, UpdateSize, UpdateStaleness, UpdateEnd, ResumeBegin, ResumeEnd
      <3> QED
        BY <3>1, <3>2
    <2>7. rpc' = "updateSized" => sizeSum' <= MaxRequired
      <3>1. CASE UpdateSize
        <4>1. sizeSum' = 0 + Len(queue) /\ Len(queue) \in Nat
          BY <2>2, <3>1 DEF UpdateSize, TypeOK, RollouterTypeOK, QueueTypeOK
        <4> QED
          BY <4>1 DEF QueueBounded
      <3>2. CASE ~UpdateSize
        BY <2>2, <2>4, <3>2 DEF RpcStep, CallArrives, PauseBegin, PauseCancelled,
          PauseGathered, PauseEnd, UpdateBegin, UpdateStaleness, UpdateEnd, ResumeBegin, ResumeEnd
      <3> QED
        BY <3>1, <3>2
    <2> QED
      BY <2>5, <2>6, <2>7 DEF CountsNothing, MaxRequired
  <1>2. CASE Launch \/ StartSync \/ Load
    BY <1>2 DEF Launch, StartSync, Load, LastSyncOver, StartFit, SyncBegin, rpcVars,
      CountsNothing, Noted
  <1>3. CASE TrainerStep /\ ~Launch /\ ~StartSync /\ ~Load
    <2>1. UNCHANGED <<rpcVars, rolloutVars>> /\ Collecting
      BY <1>3 DEF TrainerStep, LogValidation, AwaitSamples, CollectSample, TrainStep,
        FinishTraining, FinishValidation, ClearAtEnd, Collecting
    <2> QED
      BY <2>1 DEF CountsNothing, rpcVars, rolloutVars, taskVars, poolVars, Live, MaxRequired
  <1>4. CASE SyncStep
    <2>1. Collecting /\ UNCHANGED <<rolloutVars, sizeSum>>
      BY <1>4 DEF SyncStep, SyncAnnounce, SyncEnd, Collecting, rpcVars
    <2>2. rpc = "paused" /\ rpc' \in {"paused", "updateCall"}
      BY <1>4 DEF SyncStep, SyncAnnounce, SyncEnd, rpcVars, CallPhase
    <2> QED
      BY <2>1, <2>2 DEF CountsNothing, rolloutVars, taskVars, poolVars, Live, Noted
  <1>5. CASE UNCHANGED vars
    BY <1>5 DEF vars, CountsNothing, Collecting, rpcVars, rolloutVars, taskVars, poolVars, Live,
      MaxRequired
  <1> QED
    BY <1>1, <1>2, <1>3, <1>4, <1>5, StepSides

LEMMA VersionKnownNext ==
  ASSUME StaleAllowance = 0, TypeOK, CallPhase, Batches, VersionKnown, StillUnborn, [Next]_vars
  PROVE  VersionKnown'
PROOF
  <1> SUFFICES ASSUME Collecting'
               PROVE  VersionKnown'
    BY DEF VersionKnown
  <1>1. CASE RollouterStep /\ UNCHANGED <<trainer, trainVars, sync>>
    <2>1. Collecting /\ UNCHANGED trainVersion
      BY <1>1 DEF Collecting, trainVars
    <2>2. /\ trainer = "waitLast" => Announced /\ rpc \notin Counting
          /\ trainer # "waitLast" => IF Announced THEN version = trainVersion
                                                  ELSE rpcVersion = trainVersion
      BY <2>1 DEF VersionKnown
    <2>3. CASE UpdateBegin
      <3>1. rpc = "updateLock" /\ version' = rpcVersion /\ UNCHANGED rpcVersion
        BY <2>3 DEF UpdateBegin, InCall, rpcFrame
      <3>2. ~Announced
        BY <3>1 DEF Announced, Noted
      <3> QED
        BY <1>1, <2>1, <2>2, <3>1, <3>2 DEF VersionKnown
    <2>4. CASE ~UpdateBegin
      <3>1. Announced' = Announced
        BY <1>1, <2>4, SettledSteps
      <3>2. UNCHANGED <<version, rpcVersion>>
        <4>1. CASE RpcStep \/ UpdateSize
          BY <2>4, <4>1 DEF RpcStep, CallArrives, PauseBegin, PauseCancelled, PauseGathered,
            PauseEnd, UpdateSize, UpdateStaleness, UpdateEnd, ResumeBegin, ResumeEnd, callFrame,
            rpcFrame
        <4>2. CASE ~RpcStep /\ ~UpdateSize
          BY <1>1, <4>2, CallFrame DEF rpcVars
        <4> QED
          BY <4>1, <4>2
      <3>3. rpc' \in Counting => rpc \in Counting
        <4>1. CASE RpcStep \/ UpdateSize
          BY <2>4, <4>1 DEF RpcStep, CallArrives, PauseBegin, PauseCancelled, PauseGathered,
            PauseEnd, UpdateSize, UpdateStaleness, UpdateEnd, ResumeBegin, ResumeEnd, Counting
        <4>2. CASE ~RpcStep /\ ~UpdateSize
          BY <1>1, <4>2, CallFrame DEF rpcVars
        <4> QED
          BY <4>1, <4>2
      <3> QED
        BY <1>1, <2>1, <2>2, <3>1, <3>2, <3>3 DEF VersionKnown
    <2> QED
      BY <2>3, <2>4
  <1>2. CASE UNCHANGED vars
    BY <1>2 DEF vars, VersionKnown, Collecting, Announced, trainVars, rpcVars, rolloutVars
  <1>3. CASE SyncStep
    <2>1. /\ sync # "idle" /\ UNCHANGED <<rpcVersion, trainVersion>>
          /\ sync' # "idle" \/ rpc' = "updateCall"
          /\ UNCHANGED trainer \/ (trainer = "sync" /\ trainer' = "log")
      BY <1>3 DEF SyncStep, SyncAnnounce, SyncEnd, Collecting, rpcVars, trainVars
    <2>2. Collecting
      BY <2>1 DEF Collecting
    <2>3. trainer # "waitLast" /\ trainer' # "waitLast" /\ rpcVersion = trainVersion
      BY <2>1, <2>2 DEF VersionKnown, Announced
    <2>4. ~Announced'
      BY <2>1 DEF Announced, Noted
    <2> QED
      BY <2>1, <2>3, <2>4 DEF VersionKnown
  <1>4. CASE StartSync
    BY <1>4 DEF StartSync, SyncBegin, VersionKnown, Announced, trainVars
  <1>5. CASE Launch
    BY <1>5 DEF Launch, StartFit, LastSyncOver, VersionKnown, Announced, Noted, StillUnborn,
      Loading, trainVars, rpcVars
  <1>6. CASE LogValidation \/ AwaitSamples \/ CollectSample \/ TrainStep
    <2>1. /\ UNCHANGED <<sync, rpcVars, version>> /\ trainer # "waitLast" /\ Collecting
          /\ trainer' = "waitLast" \/ UNCHANGED trainVersion
      BY <1>6 DEF LogValidation, AwaitSamples, CollectSample, TrainStep, rolloutVars, trainVars,
        Collecting
    <2>2. CASE trainer' # "waitLast"
      BY <2>1, <2>2 DEF VersionKnown, Announced, rpcVars
    <2>3. CASE trainer' = "waitLast"
      <3>1. trainer = "train" /\ Len(batch) = Required /\ Required # 0
        BY <1>6, <2>3, RolloutAssumption
        DEF LogValidation, AwaitSamples, CollectSample, TrainStep, Batches, Collecting,
            RolloutAssumption
      <3>2. Settled
        BY <2>1, <3>1 DEF Batches
      <3> QED
        BY <2>1, <2>3, <3>2 DEF VersionKnown, Settled, Announced, rpcVars
    <2> QED
      BY <2>2, <2>3
  <1>7. ~Load /\ ~FinishTraining /\ ~FinishValidation /\ ~ClearAtEnd
    BY DEF Load, FinishTraining, FinishValidation, ClearAtEnd, Collecting
  <1> QED
    BY <1>1, <1>2, <1>3, <1>4, <1>5, <1>6, <1>7, StepSides DEF TrainerStep

\* A step of a sample's task or of its requests.
SampleStep(s) ==
  \/ TaskStep(s) \/ QueueSample(s) \/ AcceptRequest(s)
  \/ CompleteRequest(s) \/ InterruptRequest(s) \/ FailRequest(s)

\* Other steps of the rollouter's side move no sample and no tag.
LEMMA QuietSteps ==
  ASSUME RollouterStep, ~FeedSamples, ~TakePending, ~TakeCancelled, ~Submit,
         ~ \E s \in Samples : SampleStep(s)
  PROVE  /\ UNCHANGED <<pending, fed, cancelQ, held, task, startVer, doneVer>>
         /\ PutEnd \/ UNCHANGED queue
PROOF
  <1>1. CASE ProcessorStep
    BY <1>1 DEF ProcessorStep, SeePause, AwaitPending, PauseSelf, TestDrain, EnterDrain, Reap,
      Idle, Wake, procFrame, mqVars, feedVars, taskVars
  <1>2. CASE MonitorStart \/ MonitorCheck \/ MonitorWake \/ MonitorLift \/ AskStop
             \/ StopRunning \/ PutEnd
    BY <1>2 DEF MonitorStart, MonitorCheck, MonitorWake, MonitorLift, AskStop, StopRunning,
      PutEnd, monitorFrame, mainFrame, mqVars, feedVars, taskVars, procVars
  <1>3. CASE RpcStep \/ UpdateSize \/ PauseServers \/ ResumeServers
    BY <1>3 DEF RpcStep, CallArrives, PauseBegin, PauseCancelled, PauseGathered, PauseEnd,
      UpdateBegin, UpdateSize, UpdateStaleness, UpdateEnd, ResumeBegin, ResumeEnd, callFrame,
      rpcFrame, PauseServers, ResumeServers, serviceFrame, taskFrame, mqVars, feedVars, taskVars,
      procVars, MQ!PutValidate
  <1> QED
    BY <1>1, <1>2, <1>3 DEF RollouterStep, LoopStep, RemoteStep, RpcStep, SampleStep

\* A sample with a task is no longer the feeder's or in pending_queue.
LEMMA InFlightTaken ==
  ASSUME TypeOK, Located, NEW s \in Samples, s \in InFlight
  PROVE  ~ (s > fed) /\ ~ (Hits(pending, {s}) > 0)
PROOF
  <1>1. One(s \in InFlight) = 1
    BY DEF One
  <1>2. /\ Hits(pending, {s}) \in Nat /\ Hits(cancelQ, {s}) \in Nat
        /\ Hits(queue, With(s)) \in Nat /\ Hits(batch, With(s)) \in Nat
        /\ One(held = s) \in {0, 1} /\ One(s \in trained) \in {0, 1}
    BY Parts
  <1>3. Whole(s) <= 1 /\ (s > fed => Whole(s) = 0)
    BY DEF Located
  <1>4. Whole(s) = Hits(pending, {s}) + One(held = s) + Hits(cancelQ, {s}) + 1
                     + Hits(queue, With(s)) + Hits(batch, With(s)) + One(s \in trained)
    BY <1>1 DEF Whole
  <1> QED
    BY <1>2, <1>3, <1>4

LEMMA UntaggedNext ==
  ASSUME TypeOK, Located, Untagged, [Next]_vars
  PROVE  Untagged'
PROOF
  <1>1. /\ pending \in Seq(1..Done) /\ pending \in Seq(Nat) /\ fed \in Nat /\ Samples \subseteq Nat
        /\ startVer \in [Samples -> Nat \cup {NoVersion}]
    BY RolloutAssumption
    DEF TypeOK, RollouterTypeOK, WorkTypeOK, RolloutAssumption, Samples, Done
  <1>2. ASSUME \A r \in Samples : startVer'[r] \in {startVer[r], NoVersion},
               \A r \in Samples : r > fed' \/ Hits(pending', {r}) > 0
                                    => r > fed \/ Hits(pending, {r}) > 0
        PROVE  Untagged'
    BY <1>2 DEF Untagged
  <1>3. CASE UNCHANGED <<pending, fed, startVer>>
    BY <1>2, <1>3
  <1>4. CASE FeedSamples /\ UNCHANGED trainVars
    <2>1. FeedCount \in Nat /\ fed' = fed + FeedCount
      BY <1>4, FeedGrows
    <2>2. \A r \in Samples :
            Hits(pending', {r}) = Hits(pending, {r}) + One(fed < r /\ r <= fed + FeedCount)
      BY <1>1, <1>4, <2>1, HitsRun DEF FeedSamples
    <2>3. \A r \in Samples : Hits(pending, {r}) \in Nat
      BY Numbers
    <2>4. \A r \in Samples : Hits(pending', {r}) > 0 => r > fed \/ Hits(pending, {r}) > 0
      <3>1. ASSUME NEW r \in Samples, Hits(pending', {r}) > 0, ~(r > fed)
            PROVE  Hits(pending, {r}) > 0
        <4>1. One(fed < r /\ r <= fed + FeedCount) = 0
          BY <1>1, <3>1 DEF One
        <4> QED
          BY <2>2, <2>3, <3>1, <4>1
      <3> QED
        BY <3>1
    <2>5. \A r \in Samples : r > fed' => r > fed
      BY <1>1, <2>1
    <2>6. UNCHANGED startVer
      BY <1>4 DEF FeedSamples, taskVars
    <2> QED
      BY <1>2, <2>4, <2>5, <2>6
  <1>5. CASE TakePending
    <2>1. pending # << >> /\ pending' = Tail(pending) /\ UNCHANGED <<fed, startVer>>
      BY <1>5 DEF TakePending, taskVars
    <2>2. \A r \in Samples : Hits(pending', {r}) = Hits(pending, {r}) - One(Head(pending) \in {r})
      BY <1>1, <2>1, HitsTail
    <2>3. \A r \in Samples : Hits(pending', {r}) > 0 => Hits(pending, {r}) > 0
      <3>1. ASSUME NEW r \in Samples, Hits(pending', {r}) > 0
            PROVE  Hits(pending, {r}) > 0
        <4>1. One(Head(pending) \in {r}) \in {0, 1} /\ Hits(pending, {r}) \in Nat
          BY Numbers DEF One
        <4>2. Hits(pending', {r}) = Hits(pending, {r}) - One(Head(pending) \in {r})
          BY <2>2
        <4> QED
          BY <3>1, <4>1, <4>2
      <3> QED
        BY <3>1
    <2> QED
      BY <1>2, <2>1, <2>3
  <1>6. CASE \E s \in Samples : SampleStep(s)
    <2>1. PICK s \in Samples : SampleStep(s)
      BY <1>6
    <2>2. UNCHANGED <<pending, fed>>
      BY <2>1 DEF SampleStep, TaskStep, StartTask, SendSample, FinishTask, RequeueSample,
        RaiseTask, QueueSample, AcceptRequest, CompleteRequest, InterruptRequest, FailRequest,
        serviceFrame, taskFrame, feedVars
    <2>3. CASE StartTask(s)
      <3>1. s \in InFlight /\ \A r \in Samples : r # s => startVer'[r] = startVer[r]
        BY <1>1, <2>3 DEF StartTask, InFlight
      <3>2. ~(s > fed) /\ ~(Hits(pending, {s}) > 0)
        BY <3>1, InFlightTaken
      <3> QED
        BY <2>2, <3>1, <3>2 DEF Untagged
    <2>4. CASE QueueSample(s)
      <3>1. \A r \in Samples : startVer'[r] \in {startVer[r], NoVersion}
        BY <1>1, <2>4 DEF QueueSample
      <3> QED
        BY <1>2, <2>2, <3>1
    <2>5. CASE ~StartTask(s) /\ ~QueueSample(s)
      <3>1. UNCHANGED startVer
        BY <2>1, <2>5 DEF SampleStep, TaskStep, SendSample, FinishTask, RequeueSample,
          RaiseTask, AcceptRequest, CompleteRequest, InterruptRequest, FailRequest, serviceFrame
      <3> QED
        BY <1>3, <2>2, <3>1
    <2> QED
      BY <2>3, <2>4, <2>5
  <1>7. CASE TakeCancelled \/ Submit
    BY <1>3, <1>7 DEF TakeCancelled, Submit, feedVars, taskVars
  <1>8. CASE TrainerStep \/ SyncStep \/ UNCHANGED vars
    <2>1. CASE Launch
      BY <1>3, <2>1 DEF Launch, StartFit, feedVars, taskVars
    <2>2. CASE ~Launch
      BY <1>3, <1>8, <2>2, AcrossFrame DEF vars, rolloutVars, feedVars, taskVars
    <2> QED
      BY <2>1, <2>2
  <1>9. CASE RollouterStep /\ ~FeedSamples /\ ~TakePending /\ ~TakeCancelled /\ ~Submit
             /\ ~ \E s \in Samples : SampleStep(s)
    BY <1>3, <1>9, QuietSteps
  <1> QED
    BY <1>4, <1>5, <1>6, <1>7, <1>8, <1>9, StepSides

\* The last training step before a synchronization: nothing is outstanding.
LEMMA LastStep ==
  ASSUME StaleAllowance = 0, TypeOK, Room, Batches, TrainStep, trainer' = "waitLast"
  PROVE  Outstanding = 0
PROOF
  <1>1. trainer = "train" /\ Collecting /\ ~(localStep < Trigger) /\ localStep \in 1..Trigger
        /\ Trigger \in Nat
    BY RolloutAssumption DEF TrainStep, Collecting, TypeOK, RolloutAssumption
  <1>2. Len(batch) = Required /\ Required \in Nat \ {0}
    BY <1>1, RolloutAssumption DEF Batches, RolloutAssumption
  <1>3. Settled
    BY <1>1, <1>2 DEF Batches
  <1>4. localStep = Trigger
    BY <1>1
  <1>5. Consumed = MaxRequired
    <2>1. (localStep - 1) * Required + Required = localStep * Required
          /\ (localStep = Trigger => localStep * Required = MaxRequired)
      BY <1>1, Products
    <2> QED
      BY <1>2, <1>3, <1>4, <2>1 DEF Consumed
  <1>6. Consumed + Outstanding <= staleness /\ staleness <= MaxRequired
    BY <1>1 DEF Room
  <1>7. Outstanding \in Nat /\ staleness \in Nat /\ MaxRequired \in Nat
    BY <1>1, OutstandingWhenSettled
  <1> QED
    BY <1>5, <1>6, <1>7

\* A sample is where its tag must be the trainer's version.
TagMatters(s) == held = s \/ Hits(cancelQ, {s}) > 0 \/ s \in InFlight

\* Steps that tag nothing and bring no sample into such a place.
LEMMA TaggedKept ==
  ASSUME Tagged, Collecting, UNCHANGED <<trainVersion, startVer, doneVer>>,
         \A r \in Samples :
           /\ TagMatters(r)' => TagMatters(r)
           /\ r \in InFlight' /\ task'[r] # "new" => r \in InFlight /\ task[r] # "new"
           /\ task'[r] = "put" => task[r] = "put"
  PROVE  Tagged'
BY DEF Tagged, TagMatters

LEMMA TaggedSample ==
  ASSUME StaleAllowance = 0, TypeOK, Batches, Room, VersionKnown, Tagged, Collecting,
         NEW s \in Samples, SampleStep(s), UNCHANGED <<trainer, trainVars>>
  PROVE  Tagged'
PROOF
  <1>1. /\ task \in [Samples -> TaskStates] /\ cancelQ \in Seq(Samples)
        /\ startVer \in [Samples -> Nat \cup {NoVersion}]
        /\ doneVer \in [Samples -> Nat \cup {NoVersion}]
    BY DEF TypeOK, RollouterTypeOK, WorkTypeOK
  <1>2. UNCHANGED <<held, trainVersion>> /\ Collecting'
    BY DEF SampleStep, TaskStep, StartTask, SendSample, FinishTask, RequeueSample,
      RaiseTask, QueueSample, AcceptRequest, CompleteRequest, InterruptRequest, FailRequest,
      serviceFrame, taskFrame, procVars, trainVars, Collecting
  <1>3. s \in InFlight => version = trainVersion
    <2>1. s \in InFlight => Outstanding # 0
      BY NothingOut
    <2> QED
      BY <2>1, VersionOfOutstanding
  <1>4. \A r \in Samples :
          /\ TagMatters(r) => startVer[r] \in {NoVersion, trainVersion}
          /\ r \in InFlight /\ task[r] # "new" => startVer[r] = trainVersion
          /\ task[r] = "put" => doneVer[r] = trainVersion
    BY DEF Tagged, TagMatters
  <1>5. CASE StartTask(s)
    <2>1. /\ s \in InFlight /\ task[s] = "new" /\ UNCHANGED <<cancelQ, doneVer>>
          /\ \A r \in Samples : task'[r] = IF r = s THEN "request" ELSE task[r]
          /\ \A r \in Samples : startVer'[r] = IF r = s /\ startVer[s] = NoVersion THEN version
                                               ELSE startVer[r]
      BY <1>1, <1>5 DEF StartTask, InFlight
    <2>2. \A r \in Samples : (r \in InFlight') = (r \in InFlight)
      BY <2>1 DEF InFlight
    <2>3. startVer[s] \in {NoVersion, trainVersion} /\ version = trainVersion
      BY <1>3, <1>4, <2>1 DEF TagMatters
    <2>4. startVer'[s] = trainVersion
      BY <2>1, <2>3
    <2>5. ASSUME NEW r \in Samples
          PROVE  /\ TagMatters(r)' => startVer'[r] \in {NoVersion, trainVersion}
                 /\ r \in InFlight' /\ task'[r] # "new" => startVer'[r] = trainVersion
                 /\ task'[r] = "put" => doneVer'[r] = trainVersion
      <3>1. CASE r = s
        BY <2>1, <2>4, <3>1
      <3>2. CASE r # s
        <4>1. /\ startVer'[r] = startVer[r] /\ task'[r] = task[r]
              /\ r \in InFlight' <=> r \in InFlight
          BY <2>1, <2>2, <3>2
        <4>2. TagMatters(r)' <=> TagMatters(r)
          BY <1>2, <2>1, <4>1 DEF TagMatters
        <4> QED
          BY <1>4, <2>1, <4>1, <4>2
      <3> QED
        BY <3>1, <3>2
    <2> QED
      BY <1>2, <2>5 DEF Tagged, TagMatters
  <1>6. CASE SendSample(s)
    <2>1. /\ s \in InFlight /\ task[s] = "generated" /\ UNCHANGED <<cancelQ, startVer>>
          /\ \A r \in Samples : task'[r] = IF r = s THEN "put" ELSE task[r]
          /\ \A r \in Samples : doneVer'[r] = IF r = s THEN version ELSE doneVer[r]
      BY <1>1, <1>6 DEF SendSample, InFlight
    <2>2. \A r \in Samples : (r \in InFlight') <=> (r \in InFlight)
      BY <2>1 DEF InFlight
    <2>3. version = trainVersion
      BY <1>3, <2>1
    <2>4. \A r \in Samples : TagMatters(r)' <=> TagMatters(r)
      BY <1>2, <2>1, <2>2 DEF TagMatters
    <2>5. ASSUME NEW r \in Samples
          PROVE  /\ TagMatters(r)' => startVer'[r] \in {NoVersion, trainVersion}
                 /\ r \in InFlight' /\ task'[r] # "new" => startVer'[r] = trainVersion
                 /\ task'[r] = "put" => doneVer'[r] = trainVersion
      BY <1>4, <2>1, <2>2, <2>3, <2>4
    <2> QED
      BY <1>2, <2>5 DEF Tagged, TagMatters
  <1>7. CASE QueueSample(s)
    <2>1. /\ UNCHANGED cancelQ
          /\ \A r \in Samples : task'[r] = IF r = s THEN "acked" ELSE task[r]
          /\ \A r \in Samples : startVer'[r] = IF r = s THEN NoVersion ELSE startVer[r]
          /\ \A r \in Samples : doneVer'[r] = IF r = s THEN NoVersion ELSE doneVer[r]
      BY <1>1, <1>7 DEF QueueSample
    <2>2. s \notin InFlight' /\ \A r \in Samples : r # s => (r \in InFlight' <=> r \in InFlight)
      BY <2>1 DEF InFlight
    <2>5. ASSUME NEW r \in Samples
          PROVE  /\ TagMatters(r)' => startVer'[r] \in {NoVersion, trainVersion}
                 /\ r \in InFlight' /\ task'[r] # "new" => startVer'[r] = trainVersion
                 /\ task'[r] = "put" => doneVer'[r] = trainVersion
      <3>1. CASE r = s
        BY <2>1, <2>2, <3>1
      <3>2. CASE r # s
        <4>1. /\ startVer'[r] = startVer[r] /\ doneVer'[r] = doneVer[r] /\ task'[r] = task[r]
              /\ (r \in InFlight' <=> r \in InFlight)
          BY <2>1, <2>2, <3>2
        <4>2. TagMatters(r)' <=> TagMatters(r)
          BY <1>2, <2>1, <4>1 DEF TagMatters
        <4> QED
          BY <1>4, <4>1, <4>2
      <3> QED
        BY <3>1, <3>2
    <2> QED
      BY <1>2, <2>5 DEF Tagged, TagMatters
  <1>8. CASE RequeueSample(s)
    <2>1. /\ s \in InFlight /\ cancelQ' = Append(cancelQ, s) /\ UNCHANGED <<startVer, doneVer>>
          /\ \A r \in Samples : task'[r] = IF r = s THEN "none" ELSE task[r]
      BY <1>1, <1>8 DEF RequeueSample, EndTask, InFlight
    <2>2. \A r \in Samples : Hits(cancelQ', {r}) = Hits(cancelQ, {r}) + One(s \in {r})
      BY <1>1, <2>1, HitsAppend
    <2>3. ASSUME NEW r \in Samples
          PROVE  /\ TagMatters(r)' => TagMatters(r)
                 /\ r \in InFlight' /\ task'[r] # "new" => r \in InFlight /\ task[r] # "new"
                 /\ task'[r] = "put" => task[r] = "put"
      <3>1. r \in InFlight' => r \in InFlight
        BY <2>1 DEF InFlight
      <3>2. r # s => Hits(cancelQ', {r}) = Hits(cancelQ, {r})
        <4>1. r # s => One(s \in {r}) = 0
          BY DEF One
        <4>2. Hits(cancelQ, {r}) \in Nat
          BY Numbers
        <4> QED
          BY <2>2, <4>1, <4>2
      <3>3. TagMatters(r)' => TagMatters(r)
        BY <1>2, <2>1, <3>1, <3>2 DEF TagMatters
      <3> QED
        BY <2>1, <3>1, <3>3 DEF InFlight
    <2> QED
      BY <1>2, <2>1, <2>3, TaggedKept
  <1>9. CASE FinishTask(s) \/ RaiseTask(s) \/ AcceptRequest(s) \/ CompleteRequest(s)
             \/ InterruptRequest(s) \/ FailRequest(s)
    <2>1. /\ UNCHANGED <<cancelQ, startVer, doneVer>>
          /\ task[s] \in {"acked", "error", "request", "generating"}
          /\ task[s] = "acked" => task'[s] = "none"
          /\ task'[s] \in {"none", "cancelled", "generating", "generated", "error"}
          /\ \A r \in Samples : r # s => task'[r] = task[r]
      BY <1>1, <1>9 DEF FinishTask, RaiseTask, EndTask, AcceptRequest, CompleteRequest,
        InterruptRequest, FailRequest, serviceFrame
    <2>2. ASSUME NEW r \in Samples
          PROVE  /\ TagMatters(r)' => TagMatters(r)
                 /\ r \in InFlight' /\ task'[r] # "new" => r \in InFlight /\ task[r] # "new"
                 /\ task'[r] = "put" => task[r] = "put"
      <3>1. r \in InFlight' => r \in InFlight
        BY <2>1 DEF InFlight
      <3>2. TagMatters(r)' => TagMatters(r)
        BY <1>2, <2>1, <3>1 DEF TagMatters
      <3> QED
        BY <2>1, <3>1, <3>2
    <2> QED
      BY <1>2, <2>1, <2>2, TaggedKept
  <1> QED
    BY <1>5, <1>6, <1>7, <1>8, <1>9 DEF SampleStep, TaskStep

LEMMA TaggedNext ==
  ASSUME StaleAllowance = 0, TypeOK, Batches, Room, VersionKnown, StillUnborn, Untagged, Tagged,
         [Next]_vars
  PROVE  Tagged'
PROOF
  <1> SUFFICES ASSUME Collecting'
               PROVE  Tagged'
    BY DEF Tagged
  <1>1. /\ task \in [Samples -> TaskStates] /\ cancelQ \in Seq(Samples)
        /\ pending \in Seq(1..Done)
    BY DEF TypeOK, RollouterTypeOK, WorkTypeOK
  <1>2. CASE RollouterStep /\ UNCHANGED <<trainer, trainVars, sync>>
    <2>1. Collecting /\ UNCHANGED <<trainer, trainVars, trainVersion>>
      BY <1>2 DEF Collecting, trainVars
    <2>2. CASE \E s \in Samples : SampleStep(s)
      BY <2>1, <2>2, TaggedSample
    <2>3. CASE TakePending
      <3>1. /\ UNCHANGED <<task, startVer, doneVer, cancelQ>>
            /\ held' = held \/ (pending # << >> /\ held' = Head(pending))
        BY <2>3 DEF TakePending, taskVars
      <3>2. InFlight' = InFlight
        BY <3>1 DEF InFlight
      <3>3. \A r \in Samples : TagMatters(r)' => TagMatters(r) \/ startVer[r] = NoVersion
        <4>1. ASSUME NEW r \in Samples, pending # << >>, Head(pending) = r
              PROVE  startVer[r] = NoVersion
          <5>1. Hits(Tail(pending), {r}) = Hits(pending, {r}) - One(Head(pending) \in {r})
            BY <1>1, <4>1, HitsTail
          <5>2. Tail(pending) \in Seq(1..Done) /\ Hits(Tail(pending), {r}) \in Nat
            BY <1>1, <4>1, TailType, HitsType
          <5>3. One(Head(pending) \in {r}) = 1 /\ Hits(pending, {r}) \in Nat
            BY <4>1, Numbers DEF One
          <5>4. Hits(pending, {r}) > 0
            BY <5>1, <5>2, <5>3
          <5> QED
            BY <5>4 DEF Untagged
        <4> QED
          BY <3>1, <3>2, <4>1 DEF TagMatters
      <3> QED
        BY <2>1, <3>1, <3>2, <3>3 DEF Tagged, TagMatters
    <2>4. CASE TakeCancelled
      <3>1. /\ UNCHANGED <<task, startVer, doneVer>> /\ cancelQ # << >>
            /\ held' = Head(cancelQ) /\ cancelQ' = Tail(cancelQ)
        BY <2>4 DEF TakeCancelled, CancelledRest, taskVars
      <3>2. InFlight' = InFlight
        BY <3>1 DEF InFlight
      <3>3. ASSUME NEW r \in Samples, TagMatters(r)'
            PROVE  TagMatters(r)
        <4>1. Hits(Tail(cancelQ), {r}) = Hits(cancelQ, {r}) - One(Head(cancelQ) \in {r})
          BY <1>1, <3>1, HitsTail
        <4>2. Hits(Tail(cancelQ), {r}) \in Nat /\ Hits(cancelQ, {r}) \in Nat
          BY <1>1, <3>1, TailType, HitsType, Numbers
        <4>3. One(Head(cancelQ) \in {r}) \in {0, 1}
              /\ (Head(cancelQ) = r => One(Head(cancelQ) \in {r}) = 1)
          BY DEF One
        <4>4. Head(cancelQ) = r \/ Hits(cancelQ', {r}) > 0 => Hits(cancelQ, {r}) > 0
          BY <3>1, <4>1, <4>2, <4>3
        <4> QED
          BY <3>1, <3>2, <3>3, <4>4 DEF TagMatters
      <3> QED
        BY <2>1, <3>1, <3>2, <3>3, TaggedKept
    <2>5. CASE Submit
      <3>1. /\ UNCHANGED <<startVer, doneVer, cancelQ>>
            /\ \/ UNCHANGED <<task, held>>
               \/ held' = None /\ task' = [task EXCEPT ![held] = "new"]
        BY <2>5 DEF Submit
      <3>2. \A r \in Samples : None # r
        BY DEF None, Samples
      <3>3. CASE UNCHANGED <<task, held>>
        BY <2>1, <3>1, <3>3, TaggedKept DEF TagMatters, InFlight
      <3>4. CASE held' = None /\ task' = [task EXCEPT ![held] = "new"]
        <4>1. \A r \in Samples : task'[r] = IF r = held THEN "new" ELSE task[r]
          BY <1>1, <3>4
        <4>2. ASSUME NEW r \in Samples
              PROVE  /\ TagMatters(r)' => TagMatters(r)
                     /\ r \in InFlight' /\ task'[r] # "new" => r \in InFlight /\ task[r] # "new"
                     /\ task'[r] = "put" => task[r] = "put"
          <5>1. r \in InFlight' => r \in InFlight \/ r = held
            BY <4>1 DEF InFlight
          <5>2. TagMatters(r)' => TagMatters(r)
            BY <3>1, <3>2, <3>4, <5>1 DEF TagMatters
          <5>3. r \in InFlight' /\ task'[r] # "new" => r \in InFlight /\ task[r] # "new"
            BY <4>1 DEF InFlight
          <5> QED
            BY <4>1, <5>2, <5>3
        <4> QED
          BY <2>1, <3>1, <4>2, TaggedKept
      <3> QED
        BY <3>1, <3>3, <3>4
    <2>6. CASE UNCHANGED <<cancelQ, held, task, startVer, doneVer>>
      <3>1. \A r \in Samples : TagMatters(r)' <=> TagMatters(r)
        BY <2>6 DEF TagMatters, InFlight
      <3> QED
        BY <2>1, <2>6, <3>1, TaggedKept DEF InFlight
    <2>7. FeedSamples => UNCHANGED <<cancelQ, held, task, startVer, doneVer>>
      BY DEF FeedSamples, taskVars, procVars
    <2> QED
      BY <1>2, <2>2, <2>3, <2>4, <2>5, <2>6, <2>7, QuietSteps
  <1>3. CASE Launch
    <2>1. held = None /\ cancelQ = << >> /\ Live = {} /\ UNCHANGED <<held, cancelQ, task>>
      BY <1>3 DEF Launch, StartFit, StillUnborn, Loading, taskVars
    <2>2. \A r \in Samples : ~TagMatters(r)' /\ task'[r] # "put" /\ r \notin InFlight'
      BY <2>1, HitsEmpty DEF TagMatters, InFlight, Live, None, Samples
    <2> QED
      BY <2>2 DEF Tagged, TagMatters
  <1>4. CASE ((TrainerStep \/ SyncStep) /\ ~Launch) \/ UNCHANGED vars
    <2>1. UNCHANGED <<cancelQ, held, task, startVer, doneVer>>
      BY <1>4, AcrossFrame DEF vars, rolloutVars, taskVars, procVars
    <2>2. InFlight' = InFlight /\ \A r \in Samples : TagMatters(r)' <=> TagMatters(r)
      BY <2>1 DEF TagMatters, InFlight
    <2>3. CASE TrainStep /\ trainer' = "waitLast"
      <3>1. held = None /\ cancelQ = << >> /\ InFlight = {}
        BY <2>3, LastStep, NothingOut
      <3>2. \A r \in Samples : ~TagMatters(r)' /\ r \notin InFlight' /\ task'[r] # "put"
        BY <2>1, <2>2, <3>1, HitsEmpty DEF TagMatters, InFlight, None, Samples
      <3> QED
        BY <3>2 DEF Tagged, TagMatters
    <2>4. CASE ~(TrainStep /\ trainer' = "waitLast")
      <3>1. Collecting /\ UNCHANGED trainVersion
        BY <1>4, <2>4
        DEF TrainerStep, SyncStep, Load, LogValidation, AwaitSamples, CollectSample, TrainStep,
          StartSync, FinishTraining, FinishValidation, ClearAtEnd, SyncAnnounce, SyncEnd, vars,
          trainVars, Collecting
      <3> QED
        BY <2>1, <2>2, <3>1, TaggedKept
    <2> QED
      BY <2>3, <2>4
  <1> QED
    BY <1>2, <1>3, <1>4, StepSides

\* Entries of the queue after the queue's methods: old ones, and the one put.
LEMMA PutEntries ==
  ASSUME QueueTypeOK, NEW e \in QueueEntries, MQ!PutSample(e)
  PROVE  /\ \A i \in DOMAIN queue' :
              queue'[i] = e \/ \E j \in DOMAIN queue : queue'[i] = queue[j]
         /\ Len(queue) <= MaxRequired => Len(queue') <= MaxRequired
PROOF
  <1> DEFINE kept == IF MQ!QueueFull THEN Tail(queue) ELSE queue
  <1>1. queue \in Seq(QueueEntries) /\ MaxRequired \in Nat \ {0} /\ Len(queue) \in Nat
    BY MaxRequiredType DEF QueueTypeOK
  <1>2. queue' = Append(kept, e)
    BY DEF MQ!PutSample, MQ!PopLeft
  <1>3. MQ!QueueFull <=> Len(queue) >= MaxRequired
    BY DEF MQ!QueueFull
  <1>4. MQ!QueueFull => queue # << >>
    BY <1>1, <1>3
  <1>5. /\ kept \in Seq(QueueEntries)
        /\ \A i \in DOMAIN kept : \E j \in DOMAIN queue : kept[i] = queue[j]
    <2>1. CASE MQ!QueueFull
      <3>1. queue # << >> /\ kept = Tail(queue)
        BY <1>4, <2>1
      <3>2. Tail(queue) \in Seq(QueueEntries) /\ Len(Tail(queue)) = Len(queue) - 1
            /\ \A i \in 1..Len(Tail(queue)) :
                 Tail(queue)[i] = queue[i + 1] /\ i + 1 \in DOMAIN queue
        BY <1>1, <3>1
      <3>3. DOMAIN Tail(queue) = 1..Len(Tail(queue))
        BY <3>2
      <3>4. \A i \in DOMAIN Tail(queue) : \E j \in DOMAIN queue : Tail(queue)[i] = queue[j]
        BY <3>2, <3>3
      <3> HIDE DEF kept
      <3> QED
        BY <3>1, <3>2, <3>4
    <2>2. CASE ~MQ!QueueFull
      BY <1>1, <2>2
    <2> QED
      BY <2>1, <2>2
  <1>6. Len(queue) <= MaxRequired => Len(kept) < MaxRequired
    <2>1. CASE MQ!QueueFull
      <3>1. Len(kept) = Len(queue) - 1
        BY <1>1, <1>4, <2>1
      <3> QED
        BY <1>1, <3>1
    <2>2. CASE ~MQ!QueueFull
      BY <1>1, <1>3, <2>2
    <2> QED
      BY <2>1, <2>2
  <1> HIDE DEF kept
  <1>7. Len(queue') = Len(kept) + 1
        /\ \A i \in DOMAIN queue' : queue'[i] = e \/ (i \in DOMAIN kept /\ queue'[i] = kept[i])
    BY <1>2, <1>5
  <1>8. Len(kept) \in Nat
    BY <1>5
  <1> QED
    BY <1>1, <1>5, <1>6, <1>7, <1>8

LEMMA GetEntries ==
  ASSUME QueueTypeOK, MQ!GetSample("trainer")
  PROVE  /\ \A i \in DOMAIN queue' : \E j \in DOMAIN queue : queue'[i] = queue[j]
         /\ Head(queue) = queue[1] /\ 1 \in DOMAIN queue
         /\ Len(queue') <= Len(queue)
PROOF
  <1>1. queue \in Seq(QueueEntries) /\ queue # << >> /\ queue' = Tail(queue)
    BY DEF QueueTypeOK, MQ!GetSample, MQ!PopLeft
  <1>2. Len(Tail(queue)) = Len(queue) - 1 /\ Len(queue) \in Nat
        /\ \A i \in 1..Len(Tail(queue)) : Tail(queue)[i] = queue[i + 1] /\ i + 1 \in DOMAIN queue
    BY <1>1
  <1>3. DOMAIN Tail(queue) = 1..Len(Tail(queue))
    BY <1>1
  <1> QED
    BY <1>1, <1>2, <1>3

\* Only put_sample, get_sample and clear_queue change the queue.
LEMMA QueueMoves ==
  ASSUME [Next]_vars
  PROVE  \/ UNCHANGED queue
         \/ \E s \in Samples : QueueSample(s) /\ UNCHANGED <<trainer, trainVars, sync>>
         \/ PutEnd /\ UNCHANGED <<trainer, trainVars, sync>>
         \/ CollectSample
         \/ ClearAtEnd
PROOF
  <1>1. CASE RollouterStep /\ UNCHANGED <<trainer, trainVars, sync>>
    <2>1. CASE FeedSamples \/ TakePending \/ TakeCancelled \/ Submit
      BY <2>1 DEF FeedSamples, TakePending, TakeCancelled, Submit, mqVars
    <2>2. CASE \E s \in Samples : SampleStep(s) /\ ~QueueSample(s)
      BY <2>2 DEF SampleStep, TaskStep, StartTask, SendSample, FinishTask, RequeueSample,
        RaiseTask, AcceptRequest, CompleteRequest, InterruptRequest, FailRequest, serviceFrame,
        mqVars
    <2>3. CASE \E s \in Samples : QueueSample(s)
      BY <1>1, <2>3
    <2> QED
      BY <1>1, <2>1, <2>2, <2>3, QuietSteps
  <1>2. CASE TrainerStep /\ ~CollectSample /\ ~ClearAtEnd
    BY <1>2 DEF TrainerStep, Load, Launch, StartFit, LogValidation, AwaitSamples, TrainStep,
      StartSync, FinishTraining, FinishValidation, TakeValidation, MQ!GetValidate,
      MQ!AwaitSample, mqVars
  <1>3. CASE SyncStep \/ UNCHANGED vars
    BY <1>3 DEF SyncStep, SyncAnnounce, SyncEnd, MQ!UpdateMqVersion, vars, mqVars
  <1> QED
    BY <1>1, <1>2, <1>3, StepSides

LEMMA QueueBoundedNext ==
  ASSUME TypeOK, QueueBounded, [Next]_vars
  PROVE  QueueBounded'
PROOF
  <1>1. QueueTypeOK /\ queue \in Seq(QueueEntries) /\ MaxRequired \in Nat /\ Len(queue) \in Nat
        /\ Len(queue) <= MaxRequired
    BY MaxRequiredType DEF TypeOK, RollouterTypeOK, QueueTypeOK, QueueBounded
  <1>2. ASSUME Len(queue') <= MaxRequired PROVE QueueBounded'
    BY <1>2 DEF QueueBounded, MaxRequired
  <1>3. CASE UNCHANGED queue
    BY <1>1, <1>2, <1>3
  <1>4. CASE \E s \in Samples : QueueSample(s)
    <2>1. PICK s \in Samples : QueueSample(s)
      BY <1>4
    <2>2. [id |-> s, start |-> startVer[s], ver |-> doneVer[s]] \in QueueEntries
      BY DEF QueueEntries, SampleEntries, TypeOK, RollouterTypeOK, WorkTypeOK
    <2> QED
      BY <1>1, <1>2, <2>1, <2>2, PutEntries DEF QueueSample
  <1>5. CASE PutEnd
    BY <1>1, <1>2, <1>5, PutEntries DEF PutEnd, QueueEntries
  <1>6. CASE CollectSample
    <2>1. Len(queue') <= Len(queue) /\ Len(queue') \in Nat
      <3>1. MQ!GetSample("trainer")
        BY <1>6 DEF CollectSample
      <3>2. queue' = Tail(queue) /\ queue # << >>
        BY <3>1 DEF MQ!GetSample, MQ!PopLeft
      <3> QED
        BY <1>1, <3>2
    <2> QED
      BY <1>1, <1>2, <2>1
  <1>7. CASE ClearAtEnd
    BY <1>1, <1>2, <1>7 DEF ClearAtEnd, MQ!ClearQueue
  <1> QED
    BY <1>3, <1>4, <1>5, <1>6, <1>7, QueueMoves

LEMMA CurrentNext ==
  ASSUME StaleAllowance = 0, TypeOK, TypeOK', Batches, Room, StillUnborn, Tagged, Current,
         [Next]_vars
  PROVE  Current'
PROOF
  <1> SUFFICES ASSUME Collecting'
               PROVE  Current'
    BY DEF Current
  <1>1. QueueTypeOK /\ queue \in Seq(QueueEntries) /\ batch \in Seq(SampleEntries)
    BY DEF TypeOK, RollouterTypeOK, QueueTypeOK
  <1>2. ASSUME Collecting, UNCHANGED <<trainVersion>>,
               \A i \in DOMAIN queue' : queue'[i] # End =>
                 \/ OfVersion(queue'[i])
                 \/ \E j \in DOMAIN queue : queue'[i] = queue[j],
               \A i \in DOMAIN batch' :
                 OfVersion(batch'[i]) \/ (i \in DOMAIN batch /\ batch'[i] = batch[i])
        PROVE  Current'
    BY <1>2 DEF Current, OfVersion
  <1>3. CASE \E s \in Samples : QueueSample(s) /\ UNCHANGED <<trainer, trainVars, sync>>
    <2>1. PICK s \in Samples : QueueSample(s) /\ UNCHANGED <<trainer, trainVars, sync>>
      BY <1>3
    <2> DEFINE e == [id |-> s, start |-> startVer[s], ver |-> doneVer[s]]
    <2>2. Collecting /\ UNCHANGED <<trainVersion, batch>>
      BY <2>1 DEF Collecting, trainVars
    <2>3. MQ!PutSample(e) /\ task[s] = "put"
      BY <2>1 DEF QueueSample
    <2>4. e \in QueueEntries
      BY DEF QueueEntries, SampleEntries, TypeOK, RollouterTypeOK, WorkTypeOK
    <2>5. s \in InFlight
      BY <2>3 DEF InFlight
    <2>6. OfVersion(e)
      BY <2>2, <2>3, <2>5 DEF Tagged, OfVersion
    <2> HIDE DEF e
    <2>7. \A i \in DOMAIN queue' : queue'[i] = e \/ \E j \in DOMAIN queue : queue'[i] = queue[j]
      BY <1>1, <2>3, <2>4, PutEntries
    <2> QED
      BY <1>2, <2>2, <2>6, <2>7
  <1>4. CASE PutEnd /\ UNCHANGED <<trainer, trainVars, sync>>
    <2>1. Collecting /\ UNCHANGED <<trainVersion, batch>> /\ MQ!PutSample(End)
      BY <1>4 DEF Collecting, trainVars, PutEnd
    <2>2. \A i \in DOMAIN queue' : queue'[i] = End \/ \E j \in DOMAIN queue : queue'[i] = queue[j]
      BY <1>1, <2>1, PutEntries DEF QueueEntries
    <2> QED
      BY <1>2, <2>1, <2>2
  <1>5. CASE CollectSample
    <2>1. trainer' # "final" /\ Collecting /\ UNCHANGED trainVersion /\ MQ!GetSample("trainer")
      BY <1>5 DEF CollectSample, Collecting
    <2>2. Head(queue) \in SampleEntries /\ batch' = Append(batch, Head(queue))
      BY <1>5, <2>1, CollectMoves
    <2>3. /\ \A i \in DOMAIN queue' : \E j \in DOMAIN queue : queue'[i] = queue[j]
          /\ Head(queue) = queue[1] /\ 1 \in DOMAIN queue
      BY <1>1, <2>1, GetEntries
    <2>4. Head(queue) # End
      BY <2>2 DEF SampleEntries, End, None, Samples
    <2>5. OfVersion(Head(queue))
      BY <2>1, <2>3, <2>4 DEF Current
    <2>6. \A i \in DOMAIN batch' :
            batch'[i] = Head(queue) \/ (i \in DOMAIN batch /\ batch'[i] = batch[i])
      BY <1>1, <2>2
    <2> QED
      BY <1>2, <2>1, <2>3, <2>5, <2>6
  <1>6. CASE UNCHANGED queue /\ ~CollectSample
    <2>1. CASE Launch
      <3>1. queue' = << >> /\ batch' = << >>
        BY <1>6, <2>1 DEF Launch, StillUnborn, Loading, trainVars
      <3> QED
        BY <3>1 DEF Current
    <2>2. CASE TrainStep
      <3>1. Collecting /\ batch' = << >> /\ (trainer' = "waitLast" \/ UNCHANGED trainVersion)
        BY <2>2 DEF TrainStep, Collecting
      <3>2. CASE trainer' = "waitLast"
        <4>1. \A i \in DOMAIN queue : queue[i] = End
          BY <2>2, <3>2, LastStep, NothingOut
        <4> QED
          BY <1>6, <3>1, <4>1 DEF Current
      <3>3. CASE UNCHANGED trainVersion
        BY <1>2, <1>6, <3>1, <3>3
      <3> QED
        BY <3>1, <3>2, <3>3
    <2>3. CASE ~Launch /\ ~TrainStep
      <3>1. Collecting /\ UNCHANGED <<trainVersion, batch>>
        BY <1>6, <2>3, StepSides
        DEF TrainerStep, SyncStep, Load, LogValidation, AwaitSamples, StartSync, FinishTraining,
          FinishValidation, ClearAtEnd, SyncAnnounce, SyncEnd, vars, trainVars, Collecting
      <3> QED
        BY <1>2, <1>6, <3>1
    <2> QED
      BY <2>1, <2>2, <2>3
  <1>7. ~ClearAtEnd
    BY DEF ClearAtEnd, Collecting
  <1> QED
    BY <1>3, <1>4, <1>5, <1>6, <1>7, QueueMoves

LEMMA SynchronousInit == Init => Synchronous
PROOF
  <1> SUFFICES ASSUME Init
               PROVE  Synchronous
    OBVIOUS
  <1>1. /\ trainer = "load" /\ sync = "idle" /\ rpc = "none" /\ main = "unborn" /\ proc = "unborn"
        /\ version = 0 /\ trainVersion = 0 /\ localStep = 1 /\ batch = << >> /\ queue = << >>
        /\ cancelQ = << >> /\ held = None /\ unreaped = 0 /\ staleness = 0 /\ sizeSum = 0
        /\ rpcVersion = 0 /\ task = [s \in Samples |-> "none"]
        /\ startVer = [s \in Samples |-> NoVersion]
    BY DEF Init, RollouterInit, MQ!MQInit
  <1>2. CallPhase
    BY <1>1 DEF CallPhase, PauseCalls
  <1>3. StillUnborn
    BY <1>1 DEF StillUnborn, Live
  <1>4. Loading /\ ~Collecting
    BY <1>1 DEF Loading, Collecting
  <1>5. Untagged
    BY <1>1 DEF Untagged
  <1>6. QueueBounded
    BY <1>1, MaxRequiredType DEF QueueBounded
  <1> QED
    BY <1>2, <1>3, <1>4, <1>5, <1>6
    DEF Synchronous, Room, Batches, CountsNothing, VersionKnown, Tagged, Current

LEMMA SynchronousNext ==
  ASSUME StaleAllowance = 0, TypeOK, TypeOK', Located, Synchronous, [Next]_vars
  PROVE  Synchronous'
PROOF
  <1> USE DEF Synchronous
  <1>1. CASE RollouterStep /\ UNCHANGED <<trainer, trainVars, sync>>
    <2>1. Room'
      BY <1>1, RoomRollouter
    <2> QED
      BY <2>1, PhaseNext, UnbornNext, BatchesNext, CountsNothingNext, VersionKnownNext,
         TaggedNext, CurrentNext, UntaggedNext, QueueBoundedNext
  <1>2. CASE TrainerStep \/ SyncStep
    <2>1. Room'
      BY <1>2, RoomAcross
    <2> QED
      BY <2>1, PhaseNext, UnbornNext, BatchesNext, CountsNothingNext, VersionKnownNext,
         TaggedNext, CurrentNext, UntaggedNext, QueueBoundedNext
  <1>3. CASE UNCHANGED vars
    <2>1. Room'
      <3>1. UNCHANGED <<trainer, sync, rpc, localStep, batch, staleness, proc>>
        BY <1>3 DEF vars, rolloutVars, rpcVars, trainVars, procVars
      <3>2. Outstanding' = Outstanding
        BY <1>3 DEF vars, rolloutVars, mqVars, procVars, taskVars, Outstanding, Generated, InFlight
      <3>3. Consumed' = Consumed
        BY <3>1 DEF Consumed, Settled, Announced, MaxRequired
      <3> QED
        BY <3>1, <3>2, <3>3 DEF Room, Collecting, MaxRequired
    <2> QED
      BY <2>1, PhaseNext, UnbornNext, BatchesNext, CountsNothingNext, VersionKnownNext,
         TaggedNext, CurrentNext, UntaggedNext, QueueBoundedNext
  <1> QED
    BY <1>1, <1>2, <1>3, StepSides

\* The invariant of SynchronousIsOnPolicy.
LEMMA SynchronousInvariant ==
  ASSUME StaleAllowance = 0
  PROVE  Spec => []Synchronous
PROOF
  <1>1. Init => Synchronous
    BY SynchronousInit
  <1>2. TypeOK /\ HolderInv /\ Located /\ Synchronous /\ [Next]_vars => Synchronous'
    BY TypesNext, SynchronousNext
  <1> QED
    BY <1>1, <1>2, Invariant, BudgetInvariant, PTL DEF Spec

\* With staleness_threshold = 0 every sample of a batch was generated, from its first
\* token to its last, by the version that is training on it.
THEOREM SynchronousIsOnPolicy ==
  ASSUME StaleAllowance = 0
  PROVE  Spec => []OnPolicy
PROOF
  <1>1. TypeOK /\ Synchronous => OnPolicy
    <2> SUFFICES ASSUME TypeOK, Batches, Current, StillUnborn
                 PROVE  OnPolicy
      BY DEF Synchronous
    <2>1. CASE Collecting
      BY <2>1 DEF Current, OnPolicy, OfVersion
    <2>2. CASE ~Collecting
      BY <2>2 DEF Batches, StillUnborn, OnPolicy
    <2> QED
      BY <2>1, <2>2
  <1> QED
    BY <1>1, Invariant, SynchronousInvariant, PTL
-----------------------------------------------------------------------------
(* The processor's local done_tasks.                                       *)

FirstFill == IF Done < PendingCap THEN Done ELSE PendingCap

\* Before fit() nothing is fed.
NothingFed == Loading => pending = << >> /\ fed = 0

\* The processor has not run yet: nothing has, but for the feeder and the monitor.
Ready ==
  /\ proc = "top" /\ trainer \in {"log", "get"} /\ main = "wait" /\ rpc = "none" /\ sync = "idle"
  /\ queue = << >> /\ cancelQ = << >> /\ held = None /\ Live = {} /\ unreaped = 0
  /\ staleness = 0 /\ ~paused
  /\ fed \in {0, FirstFill} /\ pending = [i \in 1..fed |-> i]
  /\ \/ cpu = "free" /\ lockQ = << >>
     \/ cpu = "monitor" /\ lockQ = <<"monitor">>

\* Once it runs it keeps the event loop until it has tasks to wait for: it finds the
\* lock free each time, and pending_queue does not run out under it.
Taken == fed - Len(pending)
Carrying == proc \in {"reap", "reapLock", "submitLock"} /\ why # "pause"
Submitted == Taken - One(Carrying)
Burst ==
  /\ cpu = "processor" /\ fed = FirstFill /\ unreaped = 0 /\ cancelQ = << >>
  /\ Len(pending) < fed /\ \A i \in 1..Len(pending) : pending[i] = Taken + i
  /\ Live = 1..Submitted /\ Submitted <= MaxConcurrent
  /\ lockQ = IF proc \in {"top", "reap"} THEN << >> ELSE <<"processor">>
  /\ \/ proc \in {"top", "pauseLock"} /\ Taken <= N
     \/ proc \in {"reap", "reapLock"} /\ why = "pause"
     \/ proc \in {"reap", "reapLock"} /\ why = "done" /\ Taken = Done
     \/ /\ proc \in {"reap", "reapLock", "submitLock"} /\ why = "cap"
        /\ held = Taken /\ Taken <= N /\ ~paused
        /\ proc = "submitLock" => Submitted < MaxConcurrent
        /\ proc = "reapLock" => Submitted > 0

\* Until done_tasks is assigned the processor is in its first burst, or waits where it
\* will assign it.
FirstBurst == bound \/ proc \in {"unborn", "reapWait"} \/ Ready \/ Burst

\* Without a failing generation no task ends by raising.
NoFailure == failures = 0 => ~broken /\ \A s \in Samples : task[s] # "error"

\* ProcessorSurvives, without its condition.
Survives == failures = 0 => proc # "crashed"
Survival == NothingFed /\ FirstBurst /\ NoFailure /\ Survives

LEMMA FeedTypes ==
  ASSUME TypeOK
  PROVE  /\ N \in Nat \ {0} /\ Done = N + 1 /\ PendingCap \in Nat \ {0}
         /\ MaxConcurrent \in Nat \ {0}
         /\ pending \in Seq(1..Done) /\ Len(pending) \in Nat /\ fed \in Nat /\ fed <= Done
         /\ unreaped \in Nat /\ FirstFill \in Nat \ {0}
         /\ FirstFill <= Done /\ FirstFill <= PendingCap
         /\ FirstFill = Done \/ FirstFill = PendingCap
PROOF
  <1>1. /\ N \in Nat \ {0} /\ PendingCap \in Nat \ {0} /\ MaxConcurrent \in Nat \ {0}
        /\ Done = N + 1
    BY RolloutAssumption, MaxRequiredType DEF RolloutAssumption, Done
  <1>2. /\ pending \in Seq(1..Done) /\ fed \in 0..Done /\ unreaped \in Nat
    BY DEF TypeOK, RollouterTypeOK, WorkTypeOK
  <1> QED
    BY <1>1, <1>2 DEF FirstFill

LEMMA SubmittedTypes ==
  ASSUME TypeOK, Burst
  PROVE  /\ Taken \in Nat \ {0} /\ Submitted \in Nat
         /\ ~Carrying => Submitted = Taken
         /\ Carrying => Submitted = Taken - 1
         /\ ActiveTasks = Submitted
PROOF
  <1>1. Taken \in Nat \ {0}
    BY FeedTypes DEF Burst, Taken
  <1>2. (~Carrying => One(Carrying) = 0) /\ (Carrying => One(Carrying) = 1)
    BY DEF One
  <1>3. Submitted \in Nat /\ (~Carrying => Submitted = Taken) /\ (Carrying => Submitted = Taken - 1)
    BY <1>1, <1>2 DEF Submitted
  <1>4. Cardinality(1..Submitted) = Submitted
    <2>1. Cardinality(1..Submitted) = IF 1 > Submitted THEN 0 ELSE Submitted - 1 + 1
      BY <1>3, FS_Interval
    <2> QED
      BY <1>3, <2>1
  <1> QED
    BY <1>1, <1>3, <1>4 DEF Burst, ActiveTasks

LEMMA BoundStays == ASSUME [Next]_vars, bound, bound \in BOOLEAN PROVE bound'
PROOF
  <1>1. CASE RollouterStep
    BY <1>1 DEF RollouterStep, LoopStep, RemoteStep, FeedSamples, ProcessorStep, SeePause,
      TakeCancelled, AwaitPending, TakePending, PauseSelf, TestDrain, EnterDrain, Reap, Idle,
      Submit, Wake, procFrame, TaskStep, StartTask, SendSample, FinishTask, RequeueSample,
      RaiseTask, taskFrame, MonitorStart, MonitorCheck, MonitorWake, MonitorLift, AskStop,
      StopRunning, PutEnd, monitorFrame, mainFrame, QueueSample, AcceptRequest,
      CompleteRequest, InterruptRequest, FailRequest, serviceFrame, PauseServers,
      ResumeServers, CallArrives, PauseBegin, PauseCancelled, PauseGathered, PauseEnd,
      UpdateBegin, UpdateSize, UpdateStaleness, UpdateEnd, ResumeBegin, ResumeEnd, callFrame,
      rpcFrame, procVars
  <1>2. CASE Launch
    BY <1>2 DEF Launch, StartFit
  <1>3. CASE UNCHANGED rolloutVars
    BY <1>3 DEF rolloutVars, procVars
  <1> QED
    BY <1>1, <1>2, <1>3, StepSides, AcrossFrame DEF vars

\* No step but the processor's own changes what a burst is made of.
BurstVars == <<feedVars, procVars, cancelQ, unreaped, paused, lockQ, cpu, Live>>

LEMMA SameBurst == ASSUME Burst, UNCHANGED BurstVars PROVE Burst'
BY DEF Burst, BurstVars, feedVars, procVars, Taken, Submitted, Carrying

LEMMA BurstFrame ==
  ASSUME TypeOK, Burst, RollouterStep, ~ProcessorStep
  PROVE  UNCHANGED BurstVars
PROOF
  <1>1. cpu = "processor" /\ ~Holds("rpc") /\ ~FeedSamples /\ ~PutEnd
    BY DEF Burst, Holds, FeedSamples, PutEnd
  <1>2. ~(MonitorStart \/ MonitorCheck \/ MonitorWake \/ MonitorLift \/ AskStop \/ StopRunning)
    BY <1>1 DEF MonitorStart, MonitorCheck, MonitorWake, MonitorLift, AskStop, StopRunning, Runs
  <1>3. ~(\E s \in Samples : TaskStep(s)) /\ ~RpcStep
    BY <1>1 DEF TaskStep, StartTask, SendSample, FinishTask, RequeueSample, RaiseTask,
      RpcStep, CallArrives, PauseBegin, PauseCancelled, PauseGathered, PauseEnd, UpdateBegin,
      UpdateStaleness, UpdateEnd, ResumeBegin, ResumeEnd, InCall
  <1>4. CASE PauseServers \/ ResumeServers \/ UpdateSize
    BY <1>4 DEF PauseServers, ResumeServers, UpdateSize, serviceFrame, taskFrame, callFrame,
      rpcFrame, BurstVars, Live, poolVars, aroundVars, flagVars, loopVars, feedVars, procVars,
      taskVars
  <1>5. ASSUME NEW s \in Samples,
               \/ QueueSample(s) \/ AcceptRequest(s) \/ CompleteRequest(s)
               \/ InterruptRequest(s) \/ FailRequest(s)
        PROVE  UNCHANGED BurstVars
    <2>1. UNCHANGED <<feedVars, procVars, cancelQ, unreaped, paused, lockQ, cpu>>
      BY <1>5 DEF QueueSample, AcceptRequest, CompleteRequest, InterruptRequest, FailRequest,
        serviceFrame, taskFrame, poolVars, aroundVars, flagVars, loopVars
    <2>2. task[s] # "none" /\ \E t \in TaskStates \ {"none"} : task' = [task EXCEPT ![s] = t]
      BY <1>5 DEF QueueSample, AcceptRequest, CompleteRequest, InterruptRequest, FailRequest,
        TaskStates
    <2>3. task \in [Samples -> TaskStates]
      BY DEF TypeOK, RollouterTypeOK, WorkTypeOK
    <2>4. \A q \in Samples : task'[q] = "none" <=> task[q] = "none"
      BY <2>2, <2>3
    <2>5. Live' = Live
      BY <2>4 DEF Live
    <2> QED
      BY <2>1, <2>5 DEF BurstVars
  <1> QED
    BY <1>1, <1>2, <1>3, <1>4, <1>5 DEF RollouterStep, LoopStep, RemoteStep, RpcStep

\* The burst goes on, or ends where done_tasks is assigned next.
LEMMA BurstProcessor ==
  ASSUME MaxConcurrent < PendingCap, TypeOK, TypeOK', Burst, ProcessorStep
  PROVE  Burst' \/ proc' = "reapWait"
PROOF
  <1>1. /\ cpu = "processor" /\ fed = FirstFill /\ unreaped = 0 /\ cancelQ = << >>
        /\ Len(pending) < fed /\ \A i \in 1..Len(pending) : pending[i] = Taken + i
        /\ Live = 1..Submitted /\ Submitted <= MaxConcurrent
        /\ lockQ = IF proc \in {"top", "reap"} THEN << >> ELSE <<"processor">>
    BY DEF Burst
  <1>2. /\ Taken \in Nat \ {0} /\ Submitted \in Nat /\ ActiveTasks = Submitted
        /\ ~Carrying => Submitted = Taken
        /\ Carrying => Submitted = Taken - 1
        /\ Taken = fed - Len(pending)
    BY SubmittedTypes DEF Taken
  <1>3. /\ N \in Nat \ {0} /\ Done = N + 1 /\ PendingCap \in Nat \ {0}
        /\ MaxConcurrent \in Nat \ {0}
        /\ pending \in Seq(1..Done) /\ Len(pending) \in Nat /\ fed \in Nat
        /\ fed = Done \/ fed = PendingCap
    BY <1>1, FeedTypes
  <1>4. /\ Tail(<<"processor">>) = << >> /\ Append(<< >>, "processor") = <<"processor">>
        /\ <<"processor">> # << >>
    OBVIOUS
  <1>5. (~Carrying' => One(Carrying') = 0) /\ (Carrying' => One(Carrying') = 1)
    BY DEF One
  <1>6. ASSUME UNCHANGED <<pending, fed, unreaped, cancelQ, Live>>, Carrying' = Carrying
        PROVE  /\ Submitted' = Submitted /\ Taken' = Taken
               /\ fed' = FirstFill /\ unreaped' = 0 /\ cancelQ' = << >>
               /\ Len(pending') < fed' /\ \A i \in 1..Len(pending') : pending'[i] = Taken' + i
               /\ Live' = 1..Submitted' /\ Submitted' <= MaxConcurrent
    BY <1>1, <1>6 DEF Taken, Submitted
  <1>7. CASE SeePause
    <2>1. /\ UNCHANGED <<pending, fed, unreaped, cancelQ, Live>>
          /\ proc = "top" /\ Carrying' = Carrying
      BY <1>7 DEF SeePause, AtTop, procFrame, feedVars, poolVars, taskVars, Live, Carrying
    <2>2. proc' = "pauseLock" /\ cpu' = "processor" /\ lockQ' = <<"processor">>
      BY <1>1, <1>4, <1>7, <2>1 DEF SeePause, Acquire
    <2>3. Taken <= N
      BY <2>1 DEF Burst
    <2> QED
      BY <1>6, <2>1, <2>2, <2>3 DEF Burst
  <1>8. ~TakeCancelled
    BY <1>1 DEF TakeCancelled
  <1>9. ~AwaitPending
    <2> SUFFICES ASSUME AwaitPending PROVE FALSE
      OBVIOUS
    <2>1. proc = "top" /\ pending = << >>
      BY DEF AwaitPending, AtTopGoing, AtTop
    <2>2. Taken <= N /\ ~Carrying /\ Len(pending) = 0
      BY <2>1 DEF Burst, Carrying
    <2> QED
      BY <1>1, <1>2, <1>3, <2>2
  <1>10. CASE TakePending
    <2>1. /\ proc = "top" /\ ~paused /\ pending # << >> /\ pending' = Tail(pending)
          /\ proc' = "reap" /\ cpu' = "processor" /\ paused' = paused
          /\ UNCHANGED <<fed, cancelQ, unreaped, lockQ, Live>>
          /\ IF Head(pending) = Done THEN why' = "done"
                                     ELSE why' = "cap" /\ held' = Head(pending)
      BY <1>1, <1>10 DEF TakePending, AtTopGoing, AtTop, taskVars, poolVars, flagVars, Live
    <2>2. Taken <= N /\ ~Carrying
      BY <2>1 DEF Burst, Carrying
    <2>3. /\ Len(pending') = Len(pending) - 1 /\ Head(pending) = pending[1]
          /\ \A i \in 1..Len(pending') : pending'[i] = pending[i + 1]
          /\ Len(pending) > 0
      BY <1>3, <2>1
    <2>4. Taken' = fed' - Len(pending')
      BY DEF Taken
    <2>5. Taken' = Taken + 1 /\ Head(pending) = Taken + 1
      <3>1. \A f, l \in Nat : f - (l - 1) = (f - l) + 1
        OBVIOUS
      <3>2. Taken' = fed - (Len(pending) - 1)
        BY <2>1, <2>3, <2>4
      <3>3. Taken' = Taken + 1
        BY <1>2, <1>3, <3>1, <3>2
      <3>4. 1 \in 1..Len(pending)
        BY <1>3, <2>3
      <3> QED
        BY <1>1, <2>3, <3>3, <3>4
    <2>6. Carrying'
      BY <2>1 DEF Carrying
    <2>7. Submitted' = Taken' - One(Carrying')
      BY DEF Submitted
    <2>8. Submitted' = Submitted
      <3>1. \A t \in Nat : (t + 1) - 1 = t
        OBVIOUS
      <3>2. Submitted' = (Taken + 1) - 1
        BY <1>5, <2>5, <2>6, <2>7
      <3> QED
        BY <1>2, <2>2, <3>1, <3>2
    <2>9. \A i \in 1..Len(pending') : pending'[i] = Taken' + i
      <3> TAKE i \in 1..Len(pending')
      <3>1. i + 1 \in 1..Len(pending) /\ i \in Nat
        BY <1>3, <2>3
      <3>2. pending'[i] = Taken + (i + 1)
        BY <1>1, <2>3, <3>1
      <3> QED
        BY <1>2, <2>5, <3>1, <3>2
    <2>10. Len(pending') < fed'
      BY <1>1, <1>3, <2>1, <2>3
    <2>11. lockQ' = << >> /\ fed' = FirstFill /\ unreaped' = 0 /\ cancelQ' = << >>
           /\ Live' = 1..Submitted' /\ Submitted' <= MaxConcurrent
      BY <1>1, <2>1, <2>8
    <2>12. \/ why' = "done" /\ Taken' = Done
           \/ why' = "cap" /\ held' = Taken' /\ Taken' <= N /\ ~paused'
      BY <1>2, <1>3, <2>1, <2>2, <2>5
    <2> QED
      BY <2>1, <2>9, <2>10, <2>11, <2>12 DEF Burst
  <1>11. CASE PauseSelf
    <2>1. UNCHANGED <<pending, fed, unreaped, cancelQ, Live>> /\ proc = "pauseLock"
          /\ proc' = "reap" /\ why' = "pause" /\ cpu' = "processor" /\ lockQ' = Tail(lockQ)
      BY <1>11 DEF PauseSelf, feedVars, poolVars, taskVars, Live, ReleaseAndRun
    <2>2. Carrying' = Carrying
      BY <2>1 DEF Carrying
    <2>3. lockQ' = << >>
      BY <1>1, <1>4, <2>1
    <2> QED
      BY <1>6, <2>1, <2>2, <2>3 DEF Burst
  <1>12. CASE TestDrain
    <2>1. UNCHANGED <<pending, fed, unreaped, cancelQ, Live, why, held, paused>> /\ proc = "reap"
      BY <1>12 DEF TestDrain, procFrame, feedVars, poolVars, taskVars, Live, aroundVars, flagVars
    <2>2. Append(lockQ, "processor") = <<"processor">> /\ lockQ = << >>
      BY <1>1, <1>4, <2>1
    <2>3. Acquire("processor") => lockQ' = <<"processor">> /\ cpu' = "processor"
      BY <2>2 DEF Acquire
    <2>4. CASE why = "pause" \/ (why = "done" /\ Taken = Done)
      <3>1. Submitted > 0
        BY <1>2, <1>3, <2>4 DEF Carrying
      <3>2. Draining
        BY <1>2, <2>4, <3>1 DEF Draining
      <3>3. proc' = "reapLock" /\ lockQ' = <<"processor">> /\ cpu' = "processor"
        BY <1>12, <2>3, <3>2 DEF TestDrain
      <3>4. Carrying' = Carrying
        BY <2>1, <3>3 DEF Carrying
      <3>5. Taken' = Taken
        BY <2>1 DEF Taken
      <3> QED
        BY <1>6, <2>1, <2>4, <3>3, <3>4, <3>5 DEF Burst
    <2>5. CASE why = "cap"
      <3>1. held = Taken /\ Taken <= N /\ ~paused
        BY <2>1, <2>5 DEF Burst
      <3>2. Draining <=> Submitted >= MaxConcurrent
        BY <1>2, <2>5 DEF Draining
      <3>3. /\ proc' = IF Draining THEN "reapLock" ELSE "submitLock"
            /\ lockQ' = <<"processor">> /\ cpu' = "processor"
        BY <1>12, <2>3, <2>5 DEF TestDrain
      <3>4. Carrying' = Carrying
        BY <2>1, <2>5, <3>3 DEF Carrying
      <3>5. /\ Submitted' = Submitted /\ Taken' = Taken
            /\ fed' = FirstFill /\ unreaped' = 0 /\ cancelQ' = << >>
            /\ Len(pending') < fed' /\ \A i \in 1..Len(pending') : pending'[i] = Taken' + i
            /\ Live' = 1..Submitted' /\ Submitted' <= MaxConcurrent
        BY <1>6, <2>1, <3>4
      <3>6. /\ proc' = "submitLock" => Submitted' < MaxConcurrent
            /\ proc' = "reapLock" => Submitted' > 0
        BY <1>2, <1>3, <3>2, <3>3, <3>5
      <3>7. held' = Taken' /\ Taken' <= N /\ ~paused' /\ why' = "cap"
        BY <2>1, <2>5, <3>1, <3>5
      <3>8. proc' \in {"reapLock", "submitLock"}
        BY <3>3
      <3> QED
        BY <3>3, <3>5, <3>6, <3>7, <3>8 DEF Burst
    <2> QED
      BY <2>1, <2>4, <2>5 DEF Burst
  <1>13. CASE EnterDrain
    <2>1. proc = "reapLock"
      BY <1>13 DEF EnterDrain
    <2>2. ActiveTasks > 0
      BY <1>2, <1>3, <2>1 DEF Burst, Carrying
    <2> QED
      BY <1>13, <2>2 DEF EnterDrain, TasksLeft
  <1>14. ~Reap /\ ~Idle /\ ~Wake
    BY DEF Burst, Reap, Idle, Wake
  <1>15. CASE Submit
    <2>1. proc = "submitLock"
      BY <1>15 DEF Submit
    <2>2. held = Taken /\ Taken <= N /\ ~paused /\ Submitted < MaxConcurrent /\ Carrying
      BY <2>1 DEF Burst, Carrying
    <2>3. /\ task' = [task EXCEPT ![held] = "new"] /\ proc' = "top"
          /\ cpu' = "processor" /\ lockQ' = Tail(lockQ)
          /\ UNCHANGED <<pending, fed, unreaped, cancelQ>>
      BY <1>15, <2>2 DEF Submit, ReleaseAndRun, feedVars, poolVars
    <2>4. lockQ' = << >> /\ ~Carrying'
      BY <1>1, <1>4, <2>1, <2>3 DEF Carrying
    <2>5. Taken' = Taken
      BY <2>3 DEF Taken
    <2>6. Submitted' = Taken' - One(Carrying')
      BY DEF Submitted
    <2>7. Submitted' = Submitted + 1 /\ Submitted' = Taken
      BY <1>2, <1>5, <2>2, <2>4, <2>5, <2>6
    <2>8. task \in [Samples -> TaskStates] /\ held \in Samples
      <3>1. Taken \in 1..N
        BY <1>2, <1>3, <2>2
      <3> QED
        BY <2>2, <3>1 DEF TypeOK, RollouterTypeOK, WorkTypeOK, Samples
    <2>9. Live' = Live \cup {held}
      BY <2>3, <2>8 DEF Live
    <2>10. 1..Submitted \cup {Taken} = 1..Taken
      BY <1>2, <2>2
    <2>11. Live' = 1..Submitted'
      BY <1>1, <2>2, <2>7, <2>9, <2>10
    <2>12. Submitted' <= MaxConcurrent
      BY <1>2, <1>3, <2>2, <2>7
    <2>13. /\ fed' = FirstFill /\ unreaped' = 0 /\ cancelQ' = << >>
           /\ Len(pending') < fed' /\ \A i \in 1..Len(pending') : pending'[i] = Taken' + i
      BY <1>1, <2>3, <2>5
    <2> QED
      BY <2>2, <2>3, <2>4, <2>5, <2>11, <2>12, <2>13 DEF Burst
  <1> QED
    BY <1>7, <1>8, <1>9, <1>10, <1>11, <1>12, <1>13, <1>14, <1>15 DEF ProcessorStep

LEMMA BurstNext ==
  ASSUME MaxConcurrent < PendingCap, TypeOK, TypeOK', StillUnborn, Burst, [Next]_vars
  PROVE  Burst' \/ proc' = "reapWait"
PROOF
  <1>1. CASE RollouterStep
    BY <1>1, BurstFrame, BurstProcessor, SameBurst
  <1>2. ~Launch
    BY DEF Burst, Launch, StillUnborn, Loading
  <1>3. CASE UNCHANGED rolloutVars
    <2>1. UNCHANGED BurstVars
      BY <1>3 DEF rolloutVars, BurstVars, feedVars, taskVars, poolVars, procVars, flagVars,
        loopVars, Live
    <2> QED
      BY <2>1, SameBurst
  <1> QED
    BY <1>1, <1>2, <1>3, StepSides, AcrossFrame DEF vars

\* The processor's first step takes sample 1.
LEMMA FirstTake ==
  ASSUME TypeOK, TypeOK', Ready, ProcessorStep
  PROVE  Burst'
PROOF
  <1>1. /\ N \in Nat \ {0} /\ Done = N + 1 /\ MaxConcurrent \in Nat \ {0}
        /\ fed \in Nat /\ MaxRequired \in Nat \ {0} /\ Len(<< >>) = 0
    BY FeedTypes, MaxRequiredType
  <1>2. /\ proc = "top" /\ ~paused /\ cancelQ = << >> /\ held = None /\ Live = {}
        /\ pending = [i \in 1..fed |-> i] /\ fed \in {0, FirstFill} /\ unreaped = 0
    BY DEF Ready
  <1>3. ~ShouldPause
    BY <1>1, RolloutAssumption DEF Ready, ShouldPause
  <1>4. AtTop
    BY <1>2 DEF ProcessorStep, SeePause, TakeCancelled, AwaitPending, TakePending, PauseSelf,
      TestDrain, EnterDrain, Reap, Idle, Submit, Wake, AtTopGoing
  <1>5. fed > 0 /\ fed = FirstFill /\ cpu = "free" /\ lockQ = << >>
    BY <1>2, <1>4 DEF AtTop, Runs, Ready
  <1>6. pending \in Seq(Nat) /\ Len(pending) = fed /\ pending # << >> /\ Head(pending) = 1
    BY <1>1, <1>2, <1>5
  <1>7. TakePending
    BY <1>2, <1>3, <1>6 DEF ProcessorStep, SeePause, TakeCancelled, AwaitPending, PauseSelf,
      TestDrain, EnterDrain, Reap, Idle, Submit, Wake, AtTopGoing
  <1>8. /\ pending' = Tail(pending) /\ held' = 1 /\ why' = "cap" /\ proc' = "reap"
        /\ cpu' = "processor" /\ lockQ' = << >> /\ ~paused' /\ cancelQ' = << >>
        /\ fed' = fed /\ unreaped' = 0 /\ Live' = {}
    BY <1>1, <1>2, <1>5, <1>6, <1>7 DEF TakePending, taskVars, poolVars, flagVars, Live
  <1>9. Len(pending') = fed - 1 /\ \A i \in 1..Len(pending') : pending'[i] = 1 + i
    BY <1>1, <1>2, <1>5, <1>6, <1>8
  <1>10. Taken' = fed' - Len(pending')
    BY DEF Taken
  <1>11. Taken' = 1
    <2>1. \A f \in Nat : f - (f - 1) = 1
      OBVIOUS
    <2>2. Taken' = fed - (fed - 1)
      BY <1>8, <1>9, <1>10
    <2> QED
      BY <1>1, <2>1, <2>2
  <1>12. Submitted' = 0
    <2>1. Carrying' /\ Submitted' = Taken' - One(Carrying')
      BY <1>8 DEF Carrying, Submitted
    <2>2. One(Carrying') = 1
      BY <2>1 DEF One
    <2> QED
      <3>1. Submitted' = 1 - 1
        BY <1>11, <2>1, <2>2
      <3> QED
        BY <3>1
  <1>13. /\ Len(pending') < fed' /\ \A i \in 1..Len(pending') : pending'[i] = Taken' + i
         /\ Live' = 1..Submitted' /\ Submitted' <= MaxConcurrent /\ fed' = FirstFill
         /\ held' = Taken' /\ Taken' <= N
    BY <1>1, <1>5, <1>8, <1>9, <1>11, <1>12
  <1> QED
    BY <1>8, <1>13 DEF Burst

\* Before that, only the feeder and the monitor run.
LEMMA ReadyRollouter ==
  ASSUME TypeOK, Ready, RollouterStep, ~ProcessorStep, UNCHANGED <<trainer, trainVars, sync>>
  PROVE  Ready'
PROOF
  <1>1. /\ proc = "top" /\ trainer \in {"log", "get"} /\ main = "wait" /\ rpc = "none"
        /\ sync = "idle" /\ queue = << >> /\ cancelQ = << >> /\ held = None /\ Live = {}
        /\ unreaped = 0 /\ staleness = 0 /\ ~paused
        /\ fed \in {0, FirstFill} /\ pending = [i \in 1..fed |-> i]
        /\ \/ cpu = "free" /\ lockQ = << >>
           \/ cpu = "monitor" /\ lockQ = <<"monitor">>
    BY DEF Ready
  <1>2. FeedSamples \/ MonitorStart \/ MonitorCheck \/ MonitorWake \/ MonitorLift
    <2>1. ~AskStop /\ ~StopRunning /\ ~PutEnd /\ ~PauseServers /\ ~ResumeServers /\ ~UpdateSize
          /\ ~RpcStep
      BY <1>1 DEF AskStop, StopRunning, PutEnd, PauseServers, ResumeServers, UpdateSize, RpcStep,
        CallArrives, PauseBegin, PauseCancelled, PauseGathered, PauseEnd, UpdateBegin,
        UpdateStaleness, UpdateEnd, ResumeBegin, ResumeEnd, InCall
    <2>2. \A s \in Samples : task[s] = "none"
      BY <1>1 DEF Live
    <2>3. \A s \in Samples :
            /\ ~TaskStep(s) /\ ~QueueSample(s) /\ ~AcceptRequest(s) /\ ~CompleteRequest(s)
            /\ ~InterruptRequest(s) /\ ~FailRequest(s)
      BY <2>2 DEF TaskStep, StartTask, SendSample, FinishTask, RequeueSample, RaiseTask,
        QueueSample, AcceptRequest, CompleteRequest, InterruptRequest, FailRequest
    <2> QED
      BY <2>1, <2>3 DEF RollouterStep, LoopStep, RemoteStep, RpcStep
  <1>3. UNCHANGED <<trainer, main, rpc, sync, queue, cancelQ, held, unreaped, staleness, Live>>
    BY <1>2 DEF FeedSamples, MonitorStart, MonitorCheck, MonitorWake, MonitorLift, monitorFrame,
      mqVars, taskVars, poolVars, procVars, aroundVars, rpcVars, Live
  <1>4. CASE FeedSamples
    <2>1. /\ pending' = pending \o [i \in 1..FeedCount |-> fed + i] /\ fed' = fed + FeedCount
          /\ fed < Done /\ Len(pending) < PendingCap
          /\ UNCHANGED <<proc, paused, cpu, lockQ>>
      BY <1>4 DEF FeedSamples, procVars, aroundVars, flagVars, loopVars
    <2>2. /\ Done \in Nat \ {0} /\ PendingCap \in Nat \ {0} /\ FirstFill \in Nat \ {0}
          /\ FirstFill = Done \/ FirstFill = PendingCap
      BY FeedTypes
    <2>3. fed = 0
      <3> SUFFICES ASSUME fed = FirstFill PROVE FALSE
        BY <1>1
      <3>1. Len(pending) = fed
        BY <1>1, <2>2
      <3> QED
        BY <2>1, <2>2, <3>1
    <2>4. pending = << >>
      BY <1>1, <2>3
    <2>5. FeedCount = FirstFill
      BY <2>2, <2>3, <2>4 DEF FeedCount, FirstFill
    <2>6. fed' = FirstFill
      BY <2>1, <2>2, <2>3, <2>5
    <2>7. pending' = [i \in 1..FirstFill |-> i]
      <3> DEFINE q == [i \in 1..FirstFill |-> 0 + i]
      <3>1. q = [i \in 1..FirstFill |-> i]
        BY <2>2
      <3>2. q \in Seq(Nat)
        BY <2>2, <3>1
      <3>3. << >> \o q = q
        BY <3>2
      <3>4. pending' = << >> \o q
        BY <2>1, <2>3, <2>4, <2>5
      <3> QED
        BY <3>1, <3>3, <3>4
    <2> QED
      BY <1>1, <1>3, <2>1, <2>6, <2>7 DEF Ready
  <1>5. CASE MonitorStart \/ MonitorCheck \/ MonitorWake \/ MonitorLift
    <2>1. UNCHANGED <<pending, fed>> /\ proc' = "top" /\ ~paused'
      BY <1>1, <1>5 DEF MonitorStart, MonitorCheck, MonitorWake, MonitorLift, monitorFrame,
        feedVars, Notify, Notified
    <2>2. /\ Append(<< >>, "monitor") = <<"monitor">> /\ Tail(<<"monitor">>) = << >>
          /\ Len(<<"monitor">>) = 1
      OBVIOUS
    <2>3. CASE MonitorStart \/ MonitorWake
      <3>1. cpu = "free" /\ Acquire("monitor")
        BY <2>3 DEF MonitorStart, MonitorWake
      <3>2. cpu' = "monitor" /\ lockQ' = <<"monitor">>
        BY <1>1, <2>2, <3>1 DEF Acquire
      <3> QED
        BY <1>1, <1>3, <2>1, <3>2 DEF Ready
    <2>4. CASE MonitorCheck \/ MonitorLift
      <3>1. lockQ = <<"monitor">>
        BY <1>1, <2>4 DEF MonitorCheck, MonitorLift, Holds
      <3>2. \/ cpu' = "free" /\ lockQ' = << >>
            \/ cpu' = "monitor" /\ lockQ' = <<"monitor">>
        BY <2>2, <2>4, <3>1 DEF MonitorCheck, MonitorLift, ReleaseAndYield, ReleaseAndAcquire
      <3> QED
        BY <1>1, <1>3, <2>1, <3>2 DEF Ready
    <2> QED
      BY <1>5, <2>3, <2>4
  <1> QED
    BY <1>2, <1>4, <1>5

LEMMA ReadyNext ==
  ASSUME TypeOK, TypeOK', Ready, [Next]_vars
  PROVE  Ready' \/ Burst'
PROOF
  <1>1. CASE RollouterStep /\ UNCHANGED <<trainer, trainVars, sync>>
    BY <1>1, FirstTake, ReadyRollouter
  <1>2. ~SyncStep
    BY DEF Ready, SyncStep, SyncAnnounce, SyncEnd
  <1>3. CASE TrainerStep
    <2>1. LogValidation \/ AwaitSamples
      BY <1>3 DEF Ready, TrainerStep, Load, Launch, CollectSample, MQ!GetSample, TrainStep,
        StartSync, FinishTraining, FinishValidation, ClearAtEnd
    <2>2. UNCHANGED <<rolloutVars, rpc, sync, queue>> /\ trainer' \in {"log", "get"}
      BY <2>1 DEF LogValidation, TakeValidation, MQ!GetValidate, AwaitSamples, MQ!AwaitSample,
        rpcVars, Ready
    <2> QED
      BY <2>2 DEF Ready, rolloutVars, feedVars, taskVars, poolVars, procVars, flagVars, loopVars,
        Live
  <1>4. CASE UNCHANGED vars
    BY <1>4 DEF vars, Ready, mqVars, rolloutVars, rpcVars, feedVars, taskVars, poolVars, procVars,
      flagVars, loopVars, Live
  <1> QED
    BY <1>1, <1>2, <1>3, <1>4, StepSides

\* fit() starts the processor in a rollouter that has done nothing.
LEMMA LaunchReady ==
  ASSUME TypeOK, StillUnborn, NothingFed, Launch
  PROVE  Ready'
PROOF
  <1>1. /\ trainer = "loaded" /\ sync = "idle" /\ rpc = "none"
        /\ cpu = "free" /\ lockQ = << >> /\ proc' = "top" /\ main' = "wait" /\ ~paused'
        /\ trainer' = "log"
        /\ UNCHANGED <<queue, cancelQ, held, task, unreaped, staleness, pending, fed, cpu, lockQ,
                       sync, rpc>>
    BY DEF Launch, LastSyncOver, StartFit, mqVars, feedVars, taskVars, poolVars, rpcVars, loopVars
  <1>2. /\ queue = << >> /\ cancelQ = << >> /\ held = None /\ Live = {} /\ unreaped = 0
        /\ staleness = 0 /\ pending = << >> /\ fed = 0
    BY <1>1 DEF StillUnborn, NothingFed, Loading
  <1>3. << >> = [i \in 1..0 |-> i]
    OBVIOUS
  <1>4. Live' = {} /\ fed' = 0 /\ pending' = [i \in 1..fed' |-> i]
    BY <1>1, <1>2, <1>3 DEF Live
  <1> QED
    BY <1>1, <1>2, <1>4 DEF Ready

\* In its first states and in asyncio.wait the processor moves only where it should.
LEMMA WaitNext ==
  ASSUME TypeOK, StillUnborn, [Next]_vars, proc \in {"unborn", "reapWait"}, ~Launch
  PROVE  proc' = proc \/ bound'
PROOF
  <1>1. CASE RollouterStep
    BY <1>1 DEF RollouterStep, LoopStep, RemoteStep, FeedSamples, ProcessorStep, SeePause,
      TakeCancelled, AwaitPending, TakePending, PauseSelf, TestDrain, EnterDrain, Reap, Idle,
      Submit, Wake, AtTop, AtTopGoing, procFrame, TaskStep, StartTask, SendSample, FinishTask,
      RequeueSample, RaiseTask, taskFrame, MonitorStart, MonitorCheck, MonitorWake, MonitorLift,
      AskStop, StopRunning, PutEnd, monitorFrame, mainFrame, QueueSample, AcceptRequest,
      CompleteRequest, InterruptRequest, FailRequest, serviceFrame, PauseServers,
      ResumeServers, CallArrives, PauseBegin, PauseCancelled, PauseGathered, PauseEnd,
      UpdateBegin, UpdateSize, UpdateStaleness, UpdateEnd, ResumeBegin, ResumeEnd, callFrame,
      rpcFrame, procVars, Notify, Notified
  <1>2. CASE UNCHANGED rolloutVars
    BY <1>2 DEF rolloutVars, procVars
  <1> QED
    BY <1>1, <1>2, StepSides, AcrossFrame DEF vars

LEMMA FirstBurstNext ==
  ASSUME MaxConcurrent < PendingCap, TypeOK, TypeOK', StillUnborn, NothingFed, FirstBurst,
         [Next]_vars
  PROVE  FirstBurst'
PROOF
  <1>1. CASE bound
    <2>1. bound \in BOOLEAN
      BY DEF TypeOK, RollouterTypeOK, LoopTypeOK
    <2> QED
      BY <1>1, <2>1, BoundStays DEF FirstBurst
  <1>2. CASE Launch
    BY <1>2, LaunchReady DEF FirstBurst
  <1>3. CASE proc \in {"unborn", "reapWait"} /\ ~Launch
    BY <1>3, WaitNext DEF FirstBurst
  <1>4. CASE Ready
    BY <1>4, ReadyNext DEF FirstBurst
  <1>5. CASE Burst
    BY <1>5, BurstNext DEF FirstBurst
  <1> QED
    BY <1>1, <1>2, <1>3, <1>4, <1>5 DEF FirstBurst

LEMMA NothingFedNext ==
  ASSUME StillUnborn, NothingFed, [Next]_vars
  PROVE  NothingFed'
PROOF
  <1> SUFFICES ASSUME Loading' PROVE pending' = << >> /\ fed' = 0
    BY DEF NothingFed
  <1>1. CASE RollouterStep /\ UNCHANGED <<trainer, trainVars, sync>>
    <2>1. Loading
      BY <1>1 DEF Loading
    <2>2. pending = << >> /\ fed = 0 /\ main = "unborn" /\ proc = "unborn"
      BY <2>1 DEF NothingFed, StillUnborn
    <2>3. ~FeedSamples /\ ~ProcessorStep
      BY <2>2 DEF FeedSamples, ProcessorStep, SeePause, TakeCancelled, AwaitPending, TakePending,
        PauseSelf, TestDrain, EnterDrain, Reap, Idle, Submit, Wake, AtTop, AtTopGoing
    <2>4. UNCHANGED feedVars
      BY <1>1, <2>3 DEF RollouterStep, LoopStep, RemoteStep, TaskStep, StartTask, SendSample,
        FinishTask, RequeueSample, RaiseTask, taskFrame, MonitorStart, MonitorCheck, MonitorWake,
        MonitorLift, AskStop, StopRunning, PutEnd, monitorFrame, mainFrame, QueueSample,
        AcceptRequest, CompleteRequest, InterruptRequest, FailRequest, serviceFrame,
        PauseServers, ResumeServers, CallArrives, PauseBegin, PauseCancelled, PauseGathered,
        PauseEnd, UpdateBegin, UpdateSize, UpdateStaleness, UpdateEnd, ResumeBegin, ResumeEnd,
        callFrame, rpcFrame
    <2> QED
      BY <2>2, <2>4 DEF feedVars
  <1>2. CASE TrainerStep \/ SyncStep
    <2>1. ~Launch /\ Loading
      BY <1>2 DEF TrainerStep, SyncStep, Load, Launch, LogValidation, AwaitSamples,
        CollectSample, TrainStep, StartSync, FinishTraining, FinishValidation, ClearAtEnd,
        SyncAnnounce, SyncEnd, Loading
    <2>2. UNCHANGED <<pending, fed>>
      BY <1>2, <2>1, AcrossFrame DEF rolloutVars, feedVars
    <2> QED
      BY <2>1, <2>2 DEF NothingFed
  <1>3. CASE UNCHANGED vars
    BY <1>3 DEF vars, rolloutVars, feedVars, NothingFed, Loading
  <1> QED
    BY <1>1, <1>2, <1>3, StepSides

\* Only a task whose generation failed breaks the pool, and failures are never undone.
LEMMA NoFailureNext ==
  ASSUME TypeOK, TypeOK', NoFailure, [Next]_vars
  PROVE  NoFailure' /\ (failures' = 0 => failures = 0)
PROOF
  <1>1. failures \in Nat /\ task \in [Samples -> TaskStates] /\ failures' \in Nat
    BY RolloutAssumption
    DEF TypeOK, RollouterTypeOK, WorkTypeOK, RolloutAssumption
  <1>2. CASE \E s \in Samples : RaiseTask(s)
    <2>1. PICK s \in Samples : RaiseTask(s)
      BY <1>2
    <2>2. failures # 0 /\ failures' = failures
      BY <2>1 DEF RaiseTask, NoFailure
    <2> QED
      BY <2>2 DEF NoFailure
  <1>3. CASE \E s \in Samples : FailRequest(s)
    <2>1. failures' = failures + 1
      BY <1>3 DEF FailRequest
    <2>2. failures' # 0
      BY <1>1, <2>1
    <2> QED
      BY <2>2 DEF NoFailure
  <1>4. ASSUME NEW s \in Samples,
               \/ StartTask(s) \/ SendSample(s) \/ FinishTask(s) \/ RequeueSample(s)
               \/ QueueSample(s) \/ AcceptRequest(s) \/ CompleteRequest(s) \/ InterruptRequest(s)
        PROVE  NoFailure' /\ failures' = failures
    <2>1. UNCHANGED <<broken, failures>>
      BY <1>4 DEF StartTask, SendSample, FinishTask, RequeueSample, QueueSample, AcceptRequest,
        CompleteRequest, InterruptRequest, serviceFrame, taskFrame, poolVars
    <2>2. \E t \in TaskStates \ {"error"} : task' = [task EXCEPT ![s] = t]
      BY <1>4 DEF StartTask, SendSample, FinishTask, RequeueSample, QueueSample, AcceptRequest,
        CompleteRequest, InterruptRequest, EndTask, TaskStates
    <2>3. \A q \in Samples : task'[q] = "error" => task[q] = "error"
      BY <1>1, <2>2
    <2> QED
      BY <2>1, <2>3 DEF NoFailure
  <1>5. CASE /\ UNCHANGED <<trainer, trainVars, sync>>
             /\ FeedSamples \/ ProcessorStep
    <2>1. failures' = failures /\ (broken' = broken \/ ~broken')
      BY <1>5 DEF FeedSamples, ProcessorStep, SeePause, TakeCancelled, AwaitPending, TakePending,
        PauseSelf, TestDrain, EnterDrain, Reap, Idle, Submit, Wake, procFrame, taskVars, poolVars
    <2>2. UNCHANGED task \/ task' = [task EXCEPT ![held] = "new"]
      BY <1>5 DEF FeedSamples, ProcessorStep, SeePause, TakeCancelled, AwaitPending, TakePending,
        PauseSelf, TestDrain, EnterDrain, Reap, Idle, Submit, Wake, procFrame, taskVars, poolVars
    <2>3. \A q \in Samples : task'[q] = "error" => task[q] = "error"
      BY <1>1, <2>2
    <2> QED
      BY <2>1, <2>3 DEF NoFailure
  <1>6. CASE \/ MonitorStart \/ MonitorCheck \/ MonitorWake \/ MonitorLift
             \/ AskStop \/ StopRunning \/ PutEnd \/ PauseServers \/ ResumeServers
             \/ RpcStep \/ UpdateSize
    <2>1. UNCHANGED <<failures, task>> /\ (broken' = broken \/ ~broken')
      BY <1>6 DEF MonitorStart, MonitorCheck, MonitorWake, MonitorLift, AskStop, StopRunning,
        PutEnd, PauseServers, ResumeServers, RpcStep, CallArrives, PauseBegin, PauseCancelled,
        PauseGathered, PauseEnd, UpdateBegin, UpdateSize, UpdateStaleness, UpdateEnd,
        ResumeBegin, ResumeEnd, callFrame, rpcFrame, monitorFrame, mainFrame, serviceFrame,
        taskFrame, taskVars, poolVars
    <2> QED
      BY <2>1 DEF NoFailure
  <1>7. CASE TrainerStep \/ SyncStep \/ UNCHANGED vars
    <2>1. UNCHANGED <<failures, task, broken>>
      BY <1>7, AcrossFrame DEF Launch, StartFit, rolloutVars, taskVars, poolVars, vars
    <2> QED
      BY <2>1 DEF NoFailure
  <1> QED
    BY <1>2, <1>3, <1>4, <1>5, <1>6, <1>7, StepSides
    DEF RollouterStep, LoopStep, RemoteStep, TaskStep, RpcStep

LEMMA SurvivesNext ==
  ASSUME TypeOK, TypeOK', StillUnborn, FirstBurst, NoFailure, Survives, [Next]_vars
  PROVE  Survives'
PROOF
  <1> SUFFICES ASSUME failures' = 0 PROVE proc' # "crashed"
    BY DEF Survives
  <1>1. failures = 0 /\ proc # "crashed" /\ ~broken
    BY NoFailureNext DEF Survives, NoFailure
  <1>2. CASE EnterDrain
    <2>1. CASE TasksLeft
      BY <1>2, <2>1 DEF EnterDrain, TasksLeft
    <2>2. CASE ~TasksLeft
      <3>1. proc = "reapLock"
        BY <1>2 DEF EnterDrain
      <3>2. bound
        <4>1. ~Ready
          BY <3>1 DEF Ready
        <4>2. ~Burst
          <5> SUFFICES ASSUME Burst PROVE FALSE
            OBVIOUS
          <5>1. ActiveTasks = Submitted /\ Submitted \in Nat /\ Submitted > 0
            <6>1. /\ Taken \in Nat \ {0} /\ (~Carrying => Submitted = Taken)
                  /\ (Carrying => Submitted = Taken - 1) /\ ActiveTasks = Submitted
                  /\ Submitted \in Nat
              BY SubmittedTypes
            <6>2. N \in Nat \ {0} /\ Done = N + 1
              BY FeedTypes
            <6> QED
              BY <3>1, <6>1, <6>2 DEF Burst, Carrying
          <5> QED
            BY <2>2, <5>1 DEF TasksLeft
        <4> QED
          BY <3>1, <4>1, <4>2 DEF FirstBurst
      <3> QED
        BY <1>2, <2>2, <3>2 DEF EnterDrain
    <2> QED
      BY <2>1, <2>2
  <1>3. CASE RollouterStep /\ ~EnterDrain
    BY <1>1, <1>3 DEF RollouterStep, LoopStep, RemoteStep, FeedSamples, ProcessorStep, SeePause,
      TakeCancelled, AwaitPending, TakePending, PauseSelf, TestDrain, Reap, Idle,
      Submit, Wake, AtTop, AtTopGoing, procFrame, TaskStep, StartTask, SendSample, FinishTask,
      RequeueSample, RaiseTask, taskFrame, MonitorStart, MonitorCheck, MonitorWake, MonitorLift,
      AskStop, StopRunning, PutEnd, monitorFrame, mainFrame, QueueSample, AcceptRequest,
      CompleteRequest, InterruptRequest, FailRequest, serviceFrame, PauseServers,
      ResumeServers, CallArrives, PauseBegin, PauseCancelled, PauseGathered, PauseEnd,
      UpdateBegin, UpdateSize, UpdateStaleness, UpdateEnd, ResumeBegin, ResumeEnd, callFrame,
      rpcFrame, procVars, Notify, Notified
  <1>4. CASE UNCHANGED rolloutVars \/ Launch
    BY <1>1, <1>4 DEF rolloutVars, procVars, Launch, StartFit
  <1> QED
    BY <1>2, <1>3, <1>4, StepSides, AcrossFrame DEF vars

LEMMA SurvivalInit == Init => StillUnborn /\ CallPhase /\ Survival
PROOF
  <1> SUFFICES ASSUME Init PROVE StillUnborn /\ CallPhase /\ Survival
    OBVIOUS
  <1>1. /\ trainer = "load" /\ rpc = "none" /\ sync = "idle" /\ proc = "unborn"
        /\ pending = << >> /\ fed = 0 /\ ~broken
        /\ \A s \in Samples : task[s] = "none"
    BY DEF Init, RollouterInit
  <1>2. Survival
    BY <1>1 DEF Survival, NothingFed, FirstBurst, NoFailure, Survives
  <1>3. CallPhase
    BY <1>1 DEF CallPhase, PauseCalls
  <1>4. StillUnborn
    BY <1>1 DEF Init, RollouterInit, MQ!MQInit, StillUnborn, Live
  <1> QED
    BY <1>2, <1>3, <1>4

\* Nothing runs before fit(), the calls follow each other, and the processor survives.
Survived == StillUnborn /\ CallPhase /\ Survival

\* The invariant of ProcessorAlwaysSurvives.
LEMMA SurvivalInvariant ==
  ASSUME MaxConcurrent < PendingCap
  PROVE  Spec => []Survived
PROOF
  <1>1. Init => Survived
    BY SurvivalInit DEF Survived
  <1>2. TypeOK /\ HolderInv /\ Survived /\ [Next]_vars => Survived'
    <2> SUFFICES ASSUME TypeOK, HolderInv, StillUnborn, CallPhase, NothingFed, FirstBurst,
                        NoFailure, Survives, [Next]_vars
                 PROVE  Survived'
      BY DEF Survived, Survival
    <2>1. TypeOK'
      BY TypesNext
    <2>2. StillUnborn' /\ CallPhase'
      BY UnbornNext, PhaseNext
    <2>3. NothingFed'
      BY NothingFedNext
    <2>4. FirstBurst'
      BY <2>1, FirstBurstNext
    <2>5. NoFailure' /\ Survives'
      BY <2>1, NoFailureNext, SurvivesNext
    <2> QED
      BY <2>2, <2>3, <2>4, <2>5 DEF Survived, Survival
  <1> QED
    BY <1>1, <1>2, Invariant, PTL DEF Spec

\* Unless a generation raises the processor never does, if pending_queue has room for
\* more samples than may run at once: then it cannot sleep in pending_queue.get() before
\* a first task is waited for, and its done_tasks is assigned ever after.
THEOREM ProcessorAlwaysSurvives == Spec => []ProcessorSurvives
PROOF
  <1>1. CASE MaxConcurrent < PendingCap
    <2>1. Survived => ProcessorSurvives
      BY DEF Survived, Survival, Survives, ProcessorSurvives
    <2> QED
      BY <1>1, <2>1, SurvivalInvariant, PTL
  <1>2. CASE ~(MaxConcurrent < PendingCap)
    <2>1. ProcessorSurvives
      BY <1>2 DEF ProcessorSurvives
    <2> QED
      BY <2>1, PTL
  <1> QED
    BY <1>1, <1>2

-----------------------------------------------------------------------------
(* The end of the stream.                                                  *)

\* put_sample(None) is done; the trainer has taken it.
Ended == main \in {"acked", "stopLock", "done"}
Closing == trainer \in {"final", "finalSync", "finalWait", "done", "cleared"}

\* Without partial rollout no generation is interrupted.
NothingCancelled ==
  /\ cancelQ = << >> /\ ~serversPaused /\ rpc # "pauseCancel"
  /\ \A s \in Samples : task[s] # "cancelled"

\* The processor finishes when its tasks are over, and then the main coroutine ends the
\* stream.
Finished ==
  /\ proc = "finished" => Live = {} /\ why = "done"
  /\ Ended => proc \in {"finished", "crashed"}
  /\ Closing \/ (\E i \in DOMAIN queue : queue[i] = End) => Ended

\* Nothing follows the end of the stream.
EndIsLast == failures = 0 =>
  /\ \A i \in DOMAIN queue : queue[i] = End => i = Len(queue)
  /\ Closing => queue = << >>

\* What a step of the rollouter's side does to the processor's place.
LEMMA ProcMoves ==
  ASSUME [Next]_vars
  PROVE  \/ ProcessorStep \/ Launch
         \/ UNCHANGED why /\ (proc' = proc \/ proc' = Notified)
PROOF
  <1>1. CASE RollouterStep /\ ~ProcessorStep
    BY <1>1 DEF RollouterStep, LoopStep, RemoteStep, FeedSamples, TaskStep, StartTask, SendSample,
      FinishTask, RequeueSample, RaiseTask, taskFrame, MonitorStart, MonitorCheck, MonitorWake,
      MonitorLift, AskStop, StopRunning, PutEnd, monitorFrame, mainFrame, QueueSample,
      AcceptRequest, CompleteRequest, InterruptRequest, FailRequest, serviceFrame, PauseServers,
      ResumeServers, CallArrives, PauseBegin, PauseCancelled, PauseGathered, PauseEnd,
      UpdateBegin, UpdateSize, UpdateStaleness, UpdateEnd, ResumeBegin, ResumeEnd, callFrame,
      rpcFrame, procVars, Notify
  <1>2. CASE UNCHANGED rolloutVars \/ Launch
    BY <1>2 DEF rolloutVars, procVars
  <1> QED
    BY <1>1, <1>2, StepSides, AcrossFrame DEF vars

\* A processor that is over stays so.
LEMMA OverStays ==
  ASSUME [Next]_vars, proc \in {"finished", "crashed"}, StillUnborn
  PROVE  UNCHANGED <<proc, why>> /\ ~ProcessorStep /\ ~Launch
PROOF
  <1>1. ~ProcessorStep
    BY DEF ProcessorStep, SeePause, TakeCancelled, AwaitPending, TakePending, PauseSelf,
      TestDrain, EnterDrain, Reap, Idle, Submit, Wake, AtTop, AtTopGoing
  <1>2. ~Launch
    BY DEF Launch, StillUnborn, Loading
  <1> QED
    BY <1>1, <1>2, ProcMoves DEF Notified

\* Only the processor starts tasks.
LEMMA TasksStart ==
  ASSUME TypeOK, [Next]_vars, ~Submit
  PROVE  \A s \in Samples : task'[s] # "none" => task[s] # "none"
PROOF
  <1>1. task \in [Samples -> TaskStates]
    BY DEF TypeOK, RollouterTypeOK, WorkTypeOK
  <1>2. ASSUME NEW s \in Samples, SampleStep(s)
        PROVE  \E t \in TaskStates : task' = [task EXCEPT ![s] = t] /\ task[s] # "none"
    BY <1>2 DEF SampleStep, TaskStep, StartTask, SendSample, FinishTask, RequeueSample,
      RaiseTask, EndTask, QueueSample, AcceptRequest, CompleteRequest, InterruptRequest,
      FailRequest, TaskStates
  <1>3. CASE \E s \in Samples : SampleStep(s)
    BY <1>1, <1>2, <1>3
  <1>4. CASE FeedSamples \/ TakePending \/ TakeCancelled
    BY <1>4 DEF FeedSamples, TakePending, TakeCancelled, taskVars
  <1>5. CASE UNCHANGED rolloutVars \/ Launch
    BY <1>5 DEF rolloutVars, taskVars, Launch, StartFit
  <1> QED
    BY <1>3, <1>4, <1>5, StepSides, AcrossFrame, QuietSteps DEF vars

LEMMA NothingCancelledNext ==
  ASSUME ~PartialRollout, TypeOK, NothingCancelled, [Next]_vars
  PROVE  NothingCancelled'
PROOF
  <1>0. task \in [Samples -> TaskStates]
    BY DEF TypeOK, RollouterTypeOK, WorkTypeOK
  <1>1. rpc' # "pauseCancel"
    <2>1. CASE UNCHANGED rpc
      BY <2>1 DEF NothingCancelled
    <2>2. CASE RpcStep \/ UpdateSize
      BY <2>2 DEF RpcStep, CallArrives, PauseBegin, PauseCancelled, PauseGathered, PauseEnd,
        UpdateBegin, UpdateSize, UpdateStaleness, UpdateEnd, ResumeBegin, ResumeEnd
    <2>3. CASE TrainerStep \/ SyncStep
      BY <2>3 DEF NothingCancelled, TrainerStep, SyncStep, Load, Launch, StartFit, LogValidation,
        AwaitSamples, CollectSample, TrainStep, StartSync, FinishTraining, FinishValidation,
        ClearAtEnd, SyncAnnounce, SyncEnd, SyncBegin, rpcVars
    <2> QED
      BY <2>1, <2>2, <2>3, StepSides, CallFrame DEF vars, rpcVars
  <1>2. ASSUME NEW s \in Samples, SampleStep(s)
        PROVE  /\ UNCHANGED <<cancelQ, serversPaused>>
               /\ \E t \in TaskStates \ {"cancelled"} : task' = [task EXCEPT ![s] = t]
    <2>1. ~RequeueSample(s) /\ ~InterruptRequest(s)
      BY DEF NothingCancelled, RequeueSample, InterruptRequest, SomePaused
    <2>2. UNCHANGED <<cancelQ, serversPaused>>
      BY <1>2, <2>1 DEF SampleStep, TaskStep, StartTask, SendSample, FinishTask,
        RaiseTask, QueueSample, AcceptRequest, CompleteRequest, FailRequest, serviceFrame
    <2>3. \E t \in TaskStates \ {"cancelled"} : task' = [task EXCEPT ![s] = t]
      BY <1>2, <2>1 DEF SampleStep, TaskStep, StartTask, SendSample, FinishTask,
        RaiseTask, EndTask, QueueSample, AcceptRequest, CompleteRequest, FailRequest, TaskStates,
        NothingCancelled, SomePaused
    <2> QED
      BY <2>2, <2>3
  <1>3. CASE \E s \in Samples : SampleStep(s)
    BY <1>0, <1>1, <1>2, <1>3 DEF NothingCancelled
  <1>4. CASE FeedSamples \/ TakePending \/ TakeCancelled
    BY <1>1, <1>4 DEF FeedSamples, TakePending, TakeCancelled, taskVars, NothingCancelled
  <1>5. CASE Submit
    <2>1. UNCHANGED <<cancelQ, serversPaused>>
      BY <1>5 DEF Submit
    <2>2. UNCHANGED task \/ task' = [task EXCEPT ![held] = "new"]
      BY <1>5 DEF Submit
    <2> QED
      BY <1>0, <1>1, <2>1, <2>2 DEF NothingCancelled
  <1>6. CASE UNCHANGED rolloutVars \/ Launch
    BY <1>1, <1>6 DEF rolloutVars, taskVars, Launch, StartFit, NothingCancelled
  <1>7. CASE /\ RollouterStep /\ ~FeedSamples /\ ~TakePending /\ ~TakeCancelled /\ ~Submit
             /\ ~ \E s \in Samples : SampleStep(s)
    <2>1. UNCHANGED <<cancelQ, task>>
      BY <1>7, QuietSteps
    <2>2. UNCHANGED serversPaused \/ ~serversPaused'
      <3>1. CASE ProcessorStep
        BY <1>7, <3>1 DEF ProcessorStep, SeePause, AwaitPending, PauseSelf, TestDrain, EnterDrain,
          Reap, Idle, Wake, procFrame, taskVars
      <3>2. CASE MonitorStart \/ MonitorCheck \/ MonitorWake \/ MonitorLift \/ AskStop
                 \/ StopRunning \/ PutEnd
        BY <3>2 DEF MonitorStart, MonitorCheck, MonitorWake, MonitorLift, AskStop, StopRunning,
          PutEnd, monitorFrame, mainFrame, taskVars
      <3>3. CASE RpcStep \/ UpdateSize \/ PauseServers \/ ResumeServers
        BY <3>3 DEF RpcStep, CallArrives, PauseBegin, PauseCancelled, PauseGathered, PauseEnd,
          UpdateBegin, UpdateSize, UpdateStaleness, UpdateEnd, ResumeBegin, ResumeEnd, callFrame,
          rpcFrame, PauseServers, ResumeServers, NothingCancelled, taskVars
      <3> QED
        BY <1>7, <3>1, <3>2, <3>3 DEF RollouterStep, LoopStep, RemoteStep, RpcStep, SampleStep
    <2> QED
      BY <1>1, <2>1, <2>2 DEF NothingCancelled
  <1> QED
    BY <1>3, <1>4, <1>5, <1>6, <1>7, StepSides, AcrossFrame DEF vars

\* Where the main coroutine and the trainer go.
LEMMA EndMoves ==
  ASSUME [Next]_vars
  PROVE  /\ UNCHANGED main \/ Launch \/ PutEnd \/ AskStop \/ StopRunning
         /\ Closing' => Closing \/ CollectSample
PROOF
  <1>1. CASE RollouterStep /\ UNCHANGED <<trainer, trainVars, sync>>
    <2>1. Closing' => Closing
      BY <1>1 DEF Closing
    <2>2. UNCHANGED main \/ PutEnd \/ AskStop \/ StopRunning
      BY <1>1 DEF RollouterStep, LoopStep, RemoteStep, FeedSamples, ProcessorStep, SeePause,
        TakeCancelled, AwaitPending, TakePending, PauseSelf, TestDrain, EnterDrain, Reap, Idle,
        Submit, Wake, procFrame, TaskStep, StartTask, SendSample, FinishTask, RequeueSample,
        RaiseTask, taskFrame, MonitorStart, MonitorCheck, MonitorWake, MonitorLift, monitorFrame,
        QueueSample, AcceptRequest, CompleteRequest, InterruptRequest, FailRequest, serviceFrame,
        PauseServers, ResumeServers, CallArrives, PauseBegin, PauseCancelled, PauseGathered,
        PauseEnd, UpdateBegin, UpdateSize, UpdateStaleness, UpdateEnd, ResumeBegin, ResumeEnd,
        callFrame, rpcFrame, aroundVars
    <2> QED
      BY <2>1, <2>2
  <1>2. CASE TrainerStep \/ SyncStep
    <2>1. UNCHANGED main \/ Launch
      BY <1>2, AcrossFrame DEF rolloutVars
    <2>2. Closing' => Closing \/ CollectSample
      BY <1>2 DEF Closing, TrainerStep, SyncStep, Load, Launch, LogValidation, AwaitSamples,
        TrainStep, StartSync, FinishTraining, FinishValidation, ClearAtEnd, SyncAnnounce, SyncEnd
    <2> QED
      BY <2>1, <2>2
  <1>3. CASE UNCHANGED vars
    BY <1>3 DEF vars, rolloutVars, Closing
  <1> QED
    BY <1>1, <1>2, <1>3, StepSides

\* What put_sample adds comes last.
LEMMA PutPlaces ==
  ASSUME QueueTypeOK, NEW e \in QueueEntries, MQ!PutSample(e)
  PROVE  /\ queue' \in Seq(QueueEntries) /\ DOMAIN queue' = 1..Len(queue') /\ Len(queue') \in Nat
         /\ queue'[Len(queue')] = e
         /\ \A i \in DOMAIN queue' :
              i = Len(queue') \/ \E j \in DOMAIN queue : queue'[i] = queue[j]
PROOF
  <1> DEFINE kept == IF MQ!QueueFull THEN Tail(queue) ELSE queue
  <1>1. queue \in Seq(QueueEntries) /\ MaxRequired \in Nat \ {0} /\ Len(queue) \in Nat
    BY MaxRequiredType DEF QueueTypeOK
  <1>2. queue' = Append(kept, e)
    BY DEF MQ!PutSample, MQ!PopLeft
  <1>3. MQ!QueueFull => queue # << >>
    BY <1>1 DEF MQ!QueueFull
  <1>4. /\ kept \in Seq(QueueEntries)
        /\ \A i \in DOMAIN kept : \E j \in DOMAIN queue : kept[i] = queue[j]
    <2>1. CASE MQ!QueueFull
      <3>1. queue # << >> /\ kept = Tail(queue)
        BY <1>3, <2>1
      <3>2. Tail(queue) \in Seq(QueueEntries)
            /\ \A i \in 1..Len(Tail(queue)) :
                 Tail(queue)[i] = queue[i + 1] /\ i + 1 \in DOMAIN queue
        BY <1>1, <3>1
      <3>3. DOMAIN Tail(queue) = 1..Len(Tail(queue))
        BY <3>2
      <3>4. \A i \in DOMAIN Tail(queue) : \E j \in DOMAIN queue : Tail(queue)[i] = queue[j]
        BY <3>2, <3>3
      <3> HIDE DEF kept
      <3> QED
        BY <3>1, <3>2, <3>4
    <2>2. CASE ~MQ!QueueFull
      BY <1>1, <2>2
    <2> QED
      BY <2>1, <2>2
  <1> HIDE DEF kept
  <1>5. /\ queue' \in Seq(QueueEntries) /\ Len(queue') = Len(kept) + 1 /\ Len(kept) \in Nat
        /\ queue'[Len(queue')] = e
        /\ \A i \in 1..Len(kept) : queue'[i] = kept[i] /\ i \in DOMAIN kept
    BY <1>2, <1>4
  <1>6. DOMAIN queue' = 1..Len(queue') /\ Len(queue') \in Nat
    BY <1>5
  <1>7. ASSUME NEW i \in DOMAIN queue', i # Len(queue')
        PROVE  \E j \in DOMAIN queue : queue'[i] = queue[j]
    <2>1. i \in 1..Len(kept)
      BY <1>5, <1>6, <1>7
    <2> QED
      BY <1>4, <1>5, <2>1
  <1> QED
    BY <1>5, <1>6, <1>7

LEMMA EndIsNoSample ==
  ASSUME NEW s \in Samples, NEW x, NEW y
  PROVE  [id |-> s, start |-> x, ver |-> y] # End
  BY RolloutAssumption DEF RolloutAssumption, Samples, End, None

\* The entry a task puts.
LEMMA EntryType ==
  ASSUME TypeOK, NEW s \in Samples
  PROVE  [id |-> s, start |-> startVer[s], ver |-> doneVer[s]] \in QueueEntries
  BY DEF TypeOK, RollouterTypeOK, WorkTypeOK, QueueEntries, SampleEntries

LEMMA FinishedNext ==
  ASSUME TypeOK, StillUnborn, Finished, [Next]_vars
  PROVE  Finished'
PROOF
  <1>1. ASSUME proc' = "finished" PROVE Live' = {} /\ why' = "done"
    <2>1. CASE proc = "finished"
      <3>1. ~Submit /\ why' = why /\ Live = {} /\ why = "done"
        BY <2>1, OverStays DEF ProcessorStep, Finished
      <3>2. \A s \in Samples : task[s] = "none"
        BY <3>1 DEF Live
      <3>3. \A s \in Samples : task'[s] = "none"
        BY <3>1, <3>2, TasksStart
      <3> QED
        BY <3>1, <3>3 DEF Live
    <2>2. CASE proc # "finished"
      <3>1. ProcessorStep
        BY <1>1, <2>2, ProcMoves DEF Notified, Launch, StartFit
      <3>2. TestDrain
        BY <1>1, <2>2, <3>1 DEF ProcessorStep, SeePause, TakeCancelled, AwaitPending,
          TakePending, PauseSelf, EnterDrain, Reap, Idle, Submit, Wake
      <3>3. ~Draining /\ why = "done" /\ UNCHANGED <<why, task>>
        BY <1>1, <3>2 DEF TestDrain, procFrame, taskVars
      <3>4. Cardinality(Live) \in Nat /\ unreaped \in Nat /\ IsFiniteSet(Live)
        <4>1. IsFiniteSet(Samples) /\ Live \in SUBSET Samples
          BY RolloutAssumption, FS_Interval DEF RolloutAssumption, Samples, Live
        <4> QED
          BY <4>1, FS_Subset, FS_CardinalityType DEF TypeOK, RollouterTypeOK, WorkTypeOK
      <3>5. Cardinality(Live) = 0
        BY <3>3, <3>4 DEF Draining, ActiveTasks
      <3>6. Live = {}
        BY <3>4, <3>5, FS_EmptySet
      <3> QED
        BY <3>3, <3>6 DEF Live
    <2> QED
      BY <2>1, <2>2
  <1>2. Ended => Ended'
    BY EndMoves, OverStays DEF Finished, Ended, PutEnd, AskStop, StopRunning
  <1>3. ASSUME Ended' PROVE proc' \in {"finished", "crashed"}
    <2>1. Ended \/ PutEnd
      BY <1>3, EndMoves DEF Ended, Launch, StartFit, AskStop, StopRunning
    <2>2. proc \in {"finished", "crashed"}
      BY <2>1 DEF Finished, PutEnd
    <2> QED
      BY <2>2, OverStays
  <1>4. ASSUME NEW i \in DOMAIN queue', queue'[i] = End PROVE Ended'
    <2>1. CASE UNCHANGED queue
      BY <1>2, <1>4, <2>1 DEF Finished
    <2>2. ASSUME NEW s \in Samples, QueueSample(s) PROVE Ended'
      <3> DEFINE e == [id |-> s, start |-> startVer[s], ver |-> doneVer[s]]
      <3>1. e # End /\ e \in QueueEntries /\ MQ!PutSample(e)
        BY <2>2, EndIsNoSample, EntryType DEF QueueSample
      <3> HIDE DEF e
      <3>2. \E j \in DOMAIN queue : queue'[i] = queue[j]
        BY <1>4, <3>1, PutEntries DEF TypeOK, RollouterTypeOK
      <3> QED
        BY <1>2, <1>4, <3>2 DEF Finished
    <2>3. CASE PutEnd
      BY <2>3 DEF PutEnd, Ended
    <2>4. CASE CollectSample
      <3>1. \E j \in DOMAIN queue : queue'[i] = queue[j]
        BY <1>4, <2>4, GetEntries DEF CollectSample, TypeOK, RollouterTypeOK
      <3> QED
        BY <1>2, <1>4, <3>1 DEF Finished
    <2>5. CASE ClearAtEnd
      BY <1>4, <2>5 DEF ClearAtEnd, MQ!ClearQueue
    <2> QED
      BY <2>1, <2>2, <2>3, <2>4, <2>5, QueueMoves
  <1>5. ASSUME Closing' PROVE Ended'
    <2>1. CASE Closing
      BY <1>2, <2>1 DEF Finished
    <2>2. CASE ~Closing /\ CollectSample
      <3>1. Head(queue) = End
        BY <1>5, <2>2 DEF CollectSample, Closing, MQ!PopLeft
      <3>2. \E j \in DOMAIN queue : queue[j] = End
        BY <2>2, <3>1, GetEntries DEF CollectSample, TypeOK, RollouterTypeOK
      <3> QED
        BY <1>2, <3>2 DEF Finished
    <2> QED
      BY <1>5, <2>1, <2>2, EndMoves
  <1> QED
    BY <1>1, <1>3, <1>4, <1>5 DEF Finished

LEMMA EndIsLastNext ==
  ASSUME TypeOK, TypeOK', StillUnborn, NoFailure, Survives, Finished, EndIsLast,
         [Next]_vars
  PROVE  EndIsLast'
PROOF
  <1> SUFFICES ASSUME failures' = 0
               PROVE  /\ \A i \in DOMAIN queue' : queue'[i] = End => i = Len(queue')
                      /\ Closing' => queue' = << >>
    BY DEF EndIsLast
  <1>1. failures = 0 /\ proc # "crashed"
    BY NoFailureNext DEF Survives
  <1>2. /\ \A i \in DOMAIN queue : queue[i] = End => i = Len(queue)
        /\ Closing => queue = << >>
    BY <1>1 DEF EndIsLast
  <1>3. Ended => Live = {}
    BY <1>1 DEF Finished
  <1>4. queue \in Seq(QueueEntries) /\ QueueTypeOK
    BY DEF TypeOK, RollouterTypeOK, QueueTypeOK
  <1>5. CASE UNCHANGED queue
    <2>1. Closing' => Closing \/ queue # queue'
      <3>1. CASE CollectSample
        <4>1. queue # << >> /\ queue' = Tail(queue)
          BY <3>1 DEF CollectSample, MQ!GetSample, MQ!PopLeft
        <4>2. Len(Tail(queue)) = Len(queue) - 1 /\ Len(queue) \in Nat
          BY <1>4, <4>1
        <4>3. Len(queue') = Len(queue) - 1
          BY <4>1, <4>2
        <4>4. Len(queue') # Len(queue)
          BY <4>2, <4>3
        <4> QED
          BY <4>4
      <3> QED
        BY <3>1, EndMoves
    <2> QED
      BY <1>2, <1>5, <2>1
  <1>6. ASSUME NEW s \in Samples, QueueSample(s), UNCHANGED <<trainer, trainVars, sync>>
        PROVE  /\ \A i \in DOMAIN queue' : queue'[i] = End => i = Len(queue')
               /\ Closing' => queue' = << >>
    <2> DEFINE e == [id |-> s, start |-> startVer[s], ver |-> doneVer[s]]
    <2>1. e # End /\ e \in QueueEntries /\ MQ!PutSample(e) /\ task[s] # "none"
      BY <1>6, EndIsNoSample, EntryType DEF QueueSample
    <2> HIDE DEF e
    <2>2. ~Ended
      BY <1>3, <2>1 DEF Live
    <2>3. ~Closing /\ \A j \in DOMAIN queue : queue[j] # End
      BY <2>2 DEF Finished
    <2>4. ~Closing'
      BY <1>6, <2>3 DEF Closing
    <2>5. \A i \in DOMAIN queue' : queue'[i] # End
      BY <1>4, <2>1, <2>3, PutEntries
    <2> QED
      BY <2>4, <2>5
  <1>7. CASE PutEnd /\ UNCHANGED <<trainer, trainVars, sync>>
    <2>1. ~Ended /\ MQ!PutSample(End) /\ End \in QueueEntries
      BY <1>7 DEF PutEnd, Ended, QueueEntries
    <2>2. ~Closing /\ \A j \in DOMAIN queue : queue[j] # End
      BY <2>1 DEF Finished
    <2>3. ~Closing'
      BY <1>7, <2>2 DEF Closing
    <2>4. \A i \in DOMAIN queue' : queue'[i] = End => i = Len(queue')
      BY <1>4, <2>1, <2>2, PutPlaces
    <2> QED
      BY <2>3, <2>4
  <1>8. CASE CollectSample
    <2>1. queue # << >> /\ queue' = Tail(queue) /\ ~Closing
          /\ (Closing' => Head(queue) = End)
      BY <1>8 DEF CollectSample, MQ!GetSample, MQ!PopLeft, Closing
    <2>2. /\ Len(queue) \in Nat \ {0} /\ Tail(queue) \in Seq(QueueEntries)
          /\ Len(Tail(queue)) = Len(queue) - 1 /\ Head(queue) = queue[1] /\ 1 \in DOMAIN queue
          /\ \A i \in 1..Len(Tail(queue)) :
               Tail(queue)[i] = queue[i + 1] /\ i + 1 \in DOMAIN queue
      BY <1>4, <2>1
    <2>3. DOMAIN Tail(queue) = 1..Len(Tail(queue)) /\ (Len(Tail(queue)) = 0 => Tail(queue) = << >>)
      BY <2>2
    <2>4. ASSUME NEW i \in DOMAIN queue', queue'[i] = End PROVE i = Len(queue')
      <3>1. i \in 1..Len(Tail(queue)) /\ queue[i + 1] = End /\ i + 1 \in DOMAIN queue
        BY <2>1, <2>2, <2>3, <2>4
      <3>2. i + 1 = Len(queue)
        BY <1>2, <3>1
      <3> QED
        BY <2>1, <2>2, <3>1, <3>2
    <2>5. ASSUME Closing' PROVE queue' = << >>
      <3>1. Len(queue) = 1
        BY <1>2, <2>1, <2>2, <2>5
      <3> QED
        BY <2>1, <2>2, <2>3, <3>1
    <2> QED
      BY <2>4, <2>5
  <1>9. CASE ClearAtEnd
    BY <1>9 DEF ClearAtEnd, MQ!ClearQueue
  <1> QED
    BY <1>5, <1>6, <1>7, <1>8, <1>9, QueueMoves

LEMMA EndingInvariant ==
  ASSUME MaxConcurrent < PendingCap
  PROVE  Spec => [](Finished /\ EndIsLast)
PROOF
  <1>1. Init => Finished /\ EndIsLast
    <2> SUFFICES ASSUME Init PROVE Finished /\ EndIsLast
      OBVIOUS
    <2>1. proc = "unborn" /\ main = "unborn" /\ trainer = "load" /\ queue = << >>
      BY DEF Init, RollouterInit, MQ!MQInit
    <2>2. DOMAIN queue = {}
      BY <2>1
    <2> QED
      BY <2>1, <2>2 DEF Finished, EndIsLast, Ended, Closing
  <1>2. TypeOK /\ Survived /\ Finished /\ EndIsLast /\ [Next]_vars /\ TypeOK'
          => (Finished /\ EndIsLast)'
    BY FinishedNext, EndIsLastNext DEF Survived, Survival
  <1> QED
    BY <1>1, <1>2, Invariant, SurvivalInvariant, PTL DEF Spec

\* When training is over nothing is left: not behind the end of the stream, not in a
\* task, and without partial rollout not among the interrupted samples.
THEOREM NothingIsLeft ==
  ASSUME ~PartialRollout, MaxConcurrent < PendingCap
  PROVE  Spec => [](failures = 0 /\ dropped = 0 => NothingLeftBehind)
PROOF
  <1>1. Init => NothingCancelled
    <2> SUFFICES ASSUME Init PROVE NothingCancelled
      OBVIOUS
    <2>1. cancelQ = << >> /\ ~serversPaused /\ rpc = "none" /\ task = [s \in Samples |-> "none"]
      BY DEF Init, RollouterInit
    <2> QED
      BY <2>1 DEF NothingCancelled
  <1>2. TypeOK /\ NothingCancelled /\ [Next]_vars => NothingCancelled'
    BY NothingCancelledNext
  <1>3. Survived /\ Finished /\ EndIsLast /\ NothingCancelled
          => (failures = 0 /\ dropped = 0 => NothingLeftBehind)
    <2> SUFFICES ASSUME Survived, Finished, EndIsLast, NothingCancelled, failures = 0,
                        dropped = 0, trainer = "done"
                 PROVE  queue = << >> /\ Live = {} /\ cancelQ = << >>
      BY DEF NothingLeftBehind
    <2>1. Closing /\ proc # "crashed"
      BY DEF Closing, Survived, Survival, Survives
    <2>2. Ended /\ queue = << >>
      BY <2>1 DEF Finished, EndIsLast
    <2>3. Live = {}
      BY <2>1, <2>2 DEF Finished
    <2> QED
      BY <2>2, <2>3 DEF NothingCancelled
  <1> QED
    BY <1>1, <1>2, <1>3, Invariant, SurvivalInvariant, EndingInvariant, PTL DEF Spec

\* The "DONE" of pending_queue is taken with room for the None that will follow it, and
\* the processor only drains after it.
DoneTaken == why = "done" =>
  /\ proc \in {"reap", "reapLock", "reapWait", "finished", "crashed"}
  /\ Outstanding < MaxRequired

LEMMA DoneTakenNext ==
  ASSUME StaleAllowance = 0, TypeOK, TypeOK', StillUnborn, Finished, Batches, Room, Room',
         DoneTaken, [Next]_vars
  PROVE  DoneTaken'
PROOF
  <1> SUFFICES ASSUME why' = "done"
               PROVE  /\ proc' \in {"reap", "reapLock", "reapWait", "finished", "crashed"}
                      /\ Outstanding' < MaxRequired
    BY DEF DoneTaken, MaxRequired
  <1>1. Outstanding \in Nat /\ Outstanding' \in Nat /\ MaxRequired \in Nat
    BY OutstandingSteps, MaxRequiredType
  <1>2. CASE why = "done"
    <2>1. /\ proc \in {"reap", "reapLock", "reapWait", "finished", "crashed"}
          /\ Outstanding < MaxRequired
      BY <1>2 DEF DoneTaken
    <2>2. ~TakePending /\ ~Launch
      BY <2>1 DEF TakePending, AtTopGoing, AtTop, Launch, StillUnborn, Loading
    <2>3. Outstanding' <= Outstanding
      BY <2>2, OutstandingSteps
    <2>4. proc' \in {"reap", "reapLock", "reapWait", "finished", "crashed"}
      <3>1. CASE ProcessorStep
        BY <1>2, <2>1, <3>1 DEF ProcessorStep, SeePause, TakeCancelled, AwaitPending, TakePending,
          PauseSelf, TestDrain, EnterDrain, Reap, Idle, Submit, Wake, AtTop, AtTopGoing
      <3>2. CASE proc' = proc \/ proc' = Notified
        BY <2>1, <3>2 DEF Notified
      <3> QED
        BY <2>2, <3>1, <3>2, ProcMoves
    <2> HIDE DEF Outstanding, MaxRequired
    <2> QED
      BY <1>1, <2>1, <2>3, <2>4
  <1>3. CASE why # "done"
    <2>1. ProcessorStep /\ UNCHANGED trainer
      <3>1. ProcessorStep
        BY <1>3, ProcMoves DEF Launch, StartFit
      <3>2. ~TrainerStep /\ ~SyncStep
        BY <1>3, AcrossFrame DEF Launch, StartFit, rolloutVars, procVars
      <3> QED
        BY <1>3, <3>1, <3>2, StepSides DEF vars, rolloutVars, procVars
    <2>2. TakePending /\ Head(pending) = Done
      BY <1>3, <2>1 DEF ProcessorStep, SeePause, TakeCancelled, AwaitPending, TakePending,
        PauseSelf, TestDrain, EnterDrain, Reap, Idle, Submit, Wake, procFrame
    <2>3. proc' = "reap" /\ staleness' = staleness + 1
          /\ UNCHANGED <<held, cancelQ, queue, task>>
      BY <2>2 DEF TakePending, mqVars, taskVars
    <2>4. Outstanding' = Outstanding
      BY <2>3 DEF Outstanding, Generated, InFlight
    <2>5. Collecting /\ Collecting'
      <3>1. ~Loading
        BY <2>2 DEF TakePending, AtTopGoing, AtTop, StillUnborn
      <3>2. ~Closing
        BY <2>2 DEF TakePending, AtTopGoing, AtTop, Finished
      <3> QED
        BY <2>1, <3>1, <3>2 DEF Loading, Closing, Collecting, TypeOK
    <2>6. /\ Consumed \in Nat /\ Consumed + Outstanding <= staleness
          /\ staleness + 1 <= MaxRequired /\ staleness \in Nat
      <3>1. Consumed \in Nat /\ staleness \in Nat
        BY <2>5, OutstandingWhenSettled
      <3>2. Consumed + Outstanding <= staleness
        BY <2>5 DEF Room
      <3>3. staleness' <= MaxRequired
        BY <2>5 DEF Room, MaxRequired
      <3> QED
        BY <2>3, <3>1, <3>2, <3>3
    <2> HIDE DEF Outstanding, Consumed, MaxRequired
    <2>7. Outstanding' < MaxRequired
      BY <1>1, <2>4, <2>6
    <2> QED
      BY <2>3, <2>7
  <1> QED
    BY <1>2, <1>3

\* With all samples of the queue among what is outstanding, one more finds room.
LEMMA QueueOut ==
  ASSUME TypeOK, \A i \in DOMAIN queue : queue[i] # End
  PROVE  /\ Len(queue) <= Outstanding
         /\ InFlight # {} => Len(queue) < Outstanding
PROOF
  <1>1. queue \in Seq(QueueEntries) /\ DOMAIN queue = 1..Len(queue) /\ Len(queue) \in Nat
    BY DEF TypeOK, RollouterTypeOK, QueueTypeOK
  <1>2. {i \in DOMAIN queue : queue[i] \in SampleEntries} = 1..Len(queue)
    BY <1>1 DEF QueueEntries
  <1>3. Hits(queue, SampleEntries) = Len(queue)
    <2>1. Hits(queue, SampleEntries) = Cardinality(1..Len(queue))
      BY <1>2 DEF Hits
    <2>2. Cardinality(1..Len(queue)) = Len(queue)
      BY <1>1, FS_Interval
    <2> QED
      BY <2>1, <2>2
  <1>4. /\ Cardinality(InFlight) \in Nat /\ IsFiniteSet(InFlight) /\ Len(cancelQ) \in Nat
        /\ Generated = Started + Hits(queue, SampleEntries)
        /\ Outstanding = Generated + One(held # None) /\ One(held # None) \in {0, 1}
    BY Numbers
  <1>5. InFlight # {} => Cardinality(InFlight) > 0
    BY <1>4, FS_EmptySet
  <1>6. Started = Cardinality(InFlight) + Len(cancelQ)
    BY DEF Started
  <1>7. Outstanding = Cardinality(InFlight) + Len(cancelQ) + Len(queue) + One(held # None)
    BY <1>1, <1>3, <1>4, <1>6
  <1> HIDE DEF Outstanding
  <1> QED
    BY <1>1, <1>4, <1>5, <1>7

\* Only put_sample drops, and only from a full queue.
LEMMA DropMoves ==
  ASSUME [Next]_vars
  PROVE  \/ UNCHANGED dropped
         \/ \E s \in Samples : QueueSample(s)
         \/ PutEnd
PROOF
  <1>1. CASE RollouterStep /\ ~PutEnd /\ ~ \E s \in Samples : QueueSample(s)
    BY <1>1 DEF RollouterStep, LoopStep, RemoteStep, FeedSamples, ProcessorStep, SeePause,
      TakeCancelled, AwaitPending, TakePending, PauseSelf, TestDrain, EnterDrain, Reap, Idle,
      Submit, Wake, procFrame, TaskStep, StartTask, SendSample, FinishTask, RequeueSample,
      RaiseTask, MonitorStart, MonitorCheck, MonitorWake, MonitorLift, monitorFrame, AskStop,
      StopRunning, AcceptRequest, CompleteRequest, InterruptRequest, FailRequest, serviceFrame,
      PauseServers, ResumeServers, CallArrives, PauseBegin, PauseCancelled, PauseGathered,
      PauseEnd, UpdateBegin, UpdateSize, UpdateStaleness, UpdateEnd, ResumeBegin, ResumeEnd,
      callFrame, MQ!PutValidate, mqVars
  <1>2. CASE TrainerStep \/ SyncStep \/ UNCHANGED vars
    BY <1>2 DEF TrainerStep, Load, Launch, StartFit, LogValidation, AwaitSamples, CollectSample,
      TrainStep, StartSync, FinishTraining, FinishValidation, ClearAtEnd, TakeValidation,
      MQ!GetValidate, MQ!AwaitSample, MQ!GetSample, MQ!ClearQueue, SyncStep, SyncAnnounce,
      SyncEnd, MQ!UpdateMqVersion, vars, mqVars
  <1> QED
    BY <1>1, <1>2, StepSides

LEMMA NoDropNext ==
  ASSUME StaleAllowance = 0, TypeOK, TypeOK', StillUnborn, Batches, Room, NoFailure,
         Survives, Finished, DoneTaken, failures = 0 => dropped = 0, [Next]_vars
  PROVE  failures' = 0 => dropped' = 0
PROOF
  <1> SUFFICES ASSUME failures' = 0 PROVE dropped' = 0
    OBVIOUS
  <1>1. failures = 0 /\ proc # "crashed" /\ dropped = 0
    BY NoFailureNext DEF Survives
  <1>2. Outstanding \in Nat /\ MaxRequired \in Nat /\ Len(queue) \in Nat
    BY OutstandingSteps, MaxRequiredType, Numbers
  <1>3. ASSUME NEW e, MQ!PutSample(e), Len(queue) < MaxRequired PROVE dropped' = 0
    <2>1. ~MQ!QueueFull
      BY <1>2, <1>3 DEF MQ!QueueFull
    <2> QED
      BY <1>1, <1>3, <2>1 DEF MQ!PutSample
  <1>4. ASSUME NEW s \in Samples, QueueSample(s) PROVE dropped' = 0
    <2>1. s \in InFlight /\ s \in Live
      BY <1>4 DEF QueueSample, InFlight, Live
    <2>2. ~Ended /\ ~Loading
      BY <1>1, <2>1 DEF Finished, StillUnborn
    <2>3. Collecting /\ \A i \in DOMAIN queue : queue[i] # End
      BY <2>2 DEF Finished, Loading, Closing, Collecting, TypeOK
    <2>4. Consumed \in Nat /\ staleness \in Nat
      BY <2>3, OutstandingWhenSettled
    <2>5. Consumed + Outstanding <= staleness /\ staleness <= MaxRequired
      BY <2>3 DEF Room
    <2>6. Len(queue) < Outstanding
      BY <2>1, <2>3, QueueOut
    <2> HIDE DEF Outstanding, Consumed, MaxRequired
    <2>7. Len(queue) < MaxRequired
      BY <1>2, <2>4, <2>5, <2>6
    <2> QED
      BY <1>3, <1>4, <2>7 DEF QueueSample
  <1>5. CASE PutEnd
    <2>1. proc = "finished" /\ ~Ended
      BY <1>1, <1>5 DEF PutEnd, Ended
    <2>2. Outstanding < MaxRequired /\ \A i \in DOMAIN queue : queue[i] # End
      BY <2>1 DEF Finished, DoneTaken
    <2>3. Len(queue) <= Outstanding
      BY <2>2, QueueOut
    <2> HIDE DEF Outstanding, MaxRequired
    <2>4. Len(queue) < MaxRequired
      BY <1>2, <2>2, <2>3
    <2> QED
      BY <1>3, <1>5, <2>4 DEF PutEnd
  <1> QED
    BY <1>1, <1>4, <1>5, DropMoves

\* With staleness_threshold = 0 and no failing generation put_sample drops nothing,
\* neither a sample nor for the None that ends the stream (message_queue.py, put_sample).
LEMMA SynchronousDropsNone ==
  ASSUME StaleAllowance = 0, MaxConcurrent < PendingCap
  PROVE  Spec => [](failures = 0 => dropped = 0)
PROOF
  <1> DEFINE NoDrop == failures = 0 => dropped = 0
  <1>1. Init => DoneTaken /\ NoDrop
    <2> SUFFICES ASSUME Init PROVE DoneTaken /\ NoDrop
      OBVIOUS
    <2>1. why = "pause" /\ dropped = 0
      BY DEF Init, RollouterInit, MQ!MQInit
    <2> QED
      BY <2>1 DEF DoneTaken
  <1>2. TypeOK /\ TypeOK' /\ Survived /\ Synchronous /\ Synchronous' /\ Finished
          /\ DoneTaken /\ NoDrop /\ [Next]_vars => DoneTaken' /\ NoDrop'
    <2> SUFFICES ASSUME TypeOK, TypeOK', Survived, Synchronous, Synchronous', Finished,
                        DoneTaken, NoDrop, [Next]_vars
                 PROVE  DoneTaken' /\ NoDrop'
      OBVIOUS
    <2>1. StillUnborn /\ NoFailure /\ Survives /\ Batches /\ Room /\ Room'
      BY DEF Survived, Survival, Synchronous
    <2>2. DoneTaken'
      BY <2>1, DoneTakenNext
    <2>3. NoDrop'
      BY <2>1, NoDropNext
    <2> QED
      BY <2>2, <2>3
  <1> HIDE DEF NoDrop
  <1>3. Spec => []NoDrop
    BY <1>1, <1>2, Invariant, SurvivalInvariant, SynchronousInvariant, EndingInvariant, PTL
    DEF Spec
  <1> QED
    BY <1>3 DEF NoDrop

\* With staleness_threshold = 0 no sample is lost at all.
THEOREM SynchronousLosesNothing ==
  ASSUME StaleAllowance = 0, ~PartialRollout, MaxConcurrent < PendingCap
  PROVE  Spec => [](failures = 0 => NothingLeftBehind)
PROOF
  <1>1. (failures = 0 => dropped = 0) /\ (failures = 0 /\ dropped = 0 => NothingLeftBehind)
          => (failures = 0 => NothingLeftBehind)
    OBVIOUS
  <1> QED
    BY <1>1, SynchronousDropsNone, NothingIsLeft, PTL

-----------------------------------------------------------------------------
(* Without partial rollout, no sample is trained on long after it was begun. *)

\* Samples of one synchronization; and those of the training steps done.
OneSync == Required * Trigger
TrainedOn == trainVersion * OneSync + (localStep - 1) * Required

\* pause() has seen every task over, and update_param_version() has not noted the
\* new version.
Gathered == rpc \in {"pauseClear", "paused"} \cup Noted

\* The batch and the step, in each phase of the trainer.
TrainerPhases ==
  /\ ~Collecting => batch = << >>
  /\ Collecting =>
       /\ sync # "idle" => trainer = "sync"
       /\ trainer \in {"waitLast", "sync"} => localStep = 1
       /\ trainer \in {"log", "waitLast", "sync"} => batch = << >>
       /\ trainer = "get" => Len(batch) < Required
       /\ trainer = "train" => Len(batch) = Required

\* The synchronizer is at most one version behind the trainer, the rollouter one behind
\* the synchronizer.
VersionLags == Collecting =>
  /\ trainVersion = rpcVersion + One(trainer = "waitLast")
  /\ rpcVersion = version + One(~Announced)

\* A sample has no version until its one task starts.
Fresh == \A s \in Samples :
  /\ held = s \/ task[s] = "new" => startVer[s] = NoVersion
  /\ task[s] \notin {"none", "new", "acked"} => startVer[s] # NoVersion

\* pause() lets no task live on: what runs is of this version or of the last.
Recent == Collecting =>
  \A s \in Live : startVer[s] # NoVersion => version <= startVer[s] + One(~Gathered)

\* The k-th sample from now that the trainer takes was started late enough for it.
InTime(e, k) == k <= (e.start + 2) * OneSync + MaxRequired
Ahead == Collecting =>
  /\ \A i \in DOMAIN queue : queue[i] # End => InTime(queue[i], TrainedOn + Len(batch) + i)
  /\ \A j \in DOMAIN batch : InTime(batch[j], TrainedOn + j)

LEMMA PhasesNext ==
  ASSUME TypeOK, TypeOK', StillUnborn, TrainerPhases, [Next]_vars
  PROVE  TrainerPhases'
PROOF
  <1>1. Required \in Nat \ {0} /\ Len(<< >>) = 0 /\ Len(batch) \in Nat
    BY RolloutAssumption DEF RolloutAssumption, TypeOK
  <1>2. CASE UNCHANGED <<trainer, trainVars, sync>>
    BY <1>2 DEF trainVars, TrainerPhases, Collecting
  <1>3. CASE SyncStep
    BY <1>1, <1>3 DEF SyncStep, SyncAnnounce, SyncEnd, trainVars, TrainerPhases, Collecting
  <1>4. CASE Load \/ StartSync
    BY <1>1, <1>4 DEF Load, StartSync, trainVars, TrainerPhases, Collecting
  <1>5. CASE Launch
    BY <1>5 DEF Launch, StillUnborn, Loading, LastSyncOver, trainVars, TrainerPhases, Collecting
  <1>6. CASE LogValidation \/ AwaitSamples
    BY <1>1, <1>6 DEF LogValidation, AwaitSamples, trainVars, TrainerPhases, Collecting
  <1>7. CASE CollectSample /\ trainer' = "final"
    BY <1>7 DEF CollectSample, TrainerPhases, Collecting
  <1>8. CASE CollectSample /\ trainer' # "final"
    <2>1. /\ trainer = "get" /\ UNCHANGED <<sync, localStep>> /\ Len(batch') = Len(batch) + 1
          /\ trainer' = IF Len(batch) + 1 = Required THEN "train" ELSE "get"
      BY <1>8, CollectMoves DEF CollectSample
    <2>2. Len(batch) < Required /\ sync = "idle"
      BY <2>1 DEF TrainerPhases, Collecting
    <2>3. \/ trainer' = "train" /\ Len(batch') = Required
          \/ trainer' = "get" /\ Len(batch') < Required
      BY <1>1, <2>1, <2>2
    <2> QED
      BY <2>1, <2>2, <2>3 DEF TrainerPhases, Collecting
  <1>9. CASE TrainStep
    BY <1>9 DEF TrainStep, TrainerPhases, Collecting
  <1>10. CASE FinishTraining \/ FinishValidation \/ ClearAtEnd
    BY <1>10 DEF FinishTraining, FinishValidation, ClearAtEnd, trainVars, TrainerPhases, Collecting
  <1> QED
    BY <1>2, <1>3, <1>4, <1>5, <1>6, <1>7, <1>8, <1>9, <1>10, StepSides DEF TrainerStep, vars

LEMMA LagsNext ==
  ASSUME TypeOK, CallPhase, StillUnborn, TrainerPhases, VersionLags, [Next]_vars
  PROVE  VersionLags'
PROOF
  <1> SUFFICES ASSUME Collecting'
               PROVE  VersionLags'
    BY DEF VersionLags
  <1>1. version \in Nat /\ rpcVersion \in Nat /\ trainVersion \in Nat
    BY DEF TypeOK, RollouterTypeOK, LoopTypeOK
  <1>2. CASE RollouterStep /\ UNCHANGED <<trainer, trainVars, sync>>
    <2>1. Collecting /\ UNCHANGED <<trainVersion, trainer>>
      BY <1>2 DEF Collecting, trainVars
    <2>2. CASE UpdateBegin
      <3>1. rpc = "updateLock" /\ version' = rpcVersion /\ UNCHANGED rpcVersion
            /\ rpc' = "updateSize"
        BY <2>2 DEF UpdateBegin, InCall, rpcFrame
      <3>2. sync = "idle" /\ sync' = "idle"
        BY <1>2, <3>1 DEF CallPhase, PauseCalls, TypeOK
      <3>3. Announced'
        BY <3>1, <3>2 DEF Announced, Noted
      <3> QED
        BY <1>1, <2>1, <3>1, <3>3 DEF VersionLags, One
    <2>3. CASE ~UpdateBegin
      <3>1. Announced' = Announced
        BY <1>2, <2>3, SettledSteps
      <3>2. UNCHANGED <<version, rpcVersion>>
        <4>1. CASE RpcStep \/ UpdateSize
          BY <2>3, <4>1 DEF RpcStep, CallArrives, PauseBegin, PauseCancelled, PauseGathered,
            PauseEnd, UpdateSize, UpdateStaleness, UpdateEnd, ResumeBegin, ResumeEnd, callFrame,
            rpcFrame
        <4>2. CASE ~RpcStep /\ ~UpdateSize
          BY <1>2, <4>2, CallFrame DEF rpcVars
        <4> QED
          BY <4>1, <4>2
      <3> QED
        BY <2>1, <3>1, <3>2 DEF VersionLags
    <2> QED
      BY <2>2, <2>3
  <1>3. CASE UNCHANGED vars
    BY <1>3 DEF vars, VersionLags, Collecting, Announced, trainVars, rpcVars, rolloutVars
  <1>4. CASE SyncStep
    <2>1. /\ sync # "idle" /\ UNCHANGED <<rpcVersion, version, trainVersion>>
          /\ sync' # "idle" \/ rpc' = "updateCall"
          /\ UNCHANGED trainer \/ (trainer = "sync" /\ trainer' = "log")
      BY <1>4 DEF SyncStep, SyncAnnounce, SyncEnd, Collecting, rpcVars, trainVars, rolloutVars
    <2>2. Collecting /\ (trainer = "waitLast" <=> trainer' = "waitLast")
      BY <2>1 DEF Collecting
    <2>3. ~Announced /\ ~Announced'
      BY <2>1 DEF Announced, Noted
    <2> QED
      BY <2>1, <2>2, <2>3 DEF VersionLags
  <1>5. CASE StartSync
    <2>1. /\ trainer = "waitLast" /\ trainer' = "sync" /\ sync = "idle" /\ rpc = "none"
          /\ sync' = "pausing" /\ rpcVersion' = trainVersion /\ UNCHANGED <<version, trainVersion>>
      BY <1>5 DEF StartSync, SyncBegin, LastSyncOver, trainVars, rolloutVars
    <2>2. Collecting /\ Announced /\ ~Announced'
      BY <2>1 DEF Collecting, Announced, Noted
    <2> QED
      BY <1>1, <2>1, <2>2 DEF VersionLags, One
  <1>6. CASE Launch
    <2>1. /\ trainer' = "log" /\ sync' = "idle" /\ rpc' = "none"
          /\ version' = 0 /\ rpcVersion' = 0 /\ trainVersion' = 0
      BY <1>6 DEF Launch, StartFit, LastSyncOver, StillUnborn, Loading, trainVars, rpcVars
    <2>2. Announced'
      BY <2>1 DEF Announced, Noted
    <2> QED
      BY <1>1, <2>1, <2>2 DEF VersionLags, One
  <1>7. CASE LogValidation \/ AwaitSamples \/ CollectSample \/ TrainStep
    <2>1. /\ UNCHANGED <<sync, rpcVars, version>> /\ trainer # "waitLast" /\ Collecting
          /\ \/ trainer' = "waitLast" /\ trainVersion' = trainVersion + 1
             \/ trainer' # "waitLast" /\ UNCHANGED trainVersion
      BY <1>7 DEF LogValidation, AwaitSamples, CollectSample, TrainStep, rolloutVars, trainVars,
        Collecting
    <2>2. Announced' = Announced /\ UNCHANGED rpcVersion
      BY <2>1 DEF Announced, rpcVars
    <2> QED
      BY <1>1, <2>1, <2>2 DEF VersionLags, One
  <1>8. ~Load /\ ~FinishTraining /\ ~FinishValidation /\ ~ClearAtEnd
    BY DEF Load, FinishTraining, FinishValidation, ClearAtEnd, Collecting
  <1> QED
    BY <1>2, <1>3, <1>4, <1>5, <1>6, <1>7, <1>8, StepSides DEF TrainerStep

\* The sample the processor holds has no task.
LEMMA HeldHasNoTask ==
  ASSUME TypeOK, Located, NEW s \in Samples, held = s
  PROVE  s \notin InFlight
PROOF
  <1> SUFFICES ASSUME s \in InFlight
               PROVE  FALSE
    OBVIOUS
  <1>1. One(s \in InFlight) = 1 /\ One(held = s) = 1
    BY DEF One
  <1>2. /\ Hits(pending, {s}) \in Nat /\ Hits(cancelQ, {s}) \in Nat
        /\ Hits(queue, With(s)) \in Nat /\ Hits(batch, With(s)) \in Nat
        /\ One(s \in trained) \in {0, 1}
    BY Parts
  <1>3. Whole(s) <= 1
    BY DEF Located
  <1>4. Whole(s) = Hits(pending, {s}) + 1 + Hits(cancelQ, {s}) + 1
                     + Hits(queue, With(s)) + Hits(batch, With(s)) + One(s \in trained)
    BY <1>1 DEF Whole
  <1> QED
    BY <1>2, <1>3, <1>4

LEMMA FreshNext ==
  ASSUME ~PartialRollout, TypeOK, Located, Untagged, NothingCancelled, Fresh, [Next]_vars
  PROVE  Fresh'
PROOF
  <1>1. /\ pending \in Seq(1..Done) /\ task \in [Samples -> TaskStates]
        /\ startVer \in [Samples -> Nat \cup {NoVersion}] /\ version \in Nat
        /\ None \notin Samples /\ NoVersion \notin Nat
    BY RolloutAssumption
    DEF TypeOK, RollouterTypeOK, WorkTypeOK, LoopTypeOK, RolloutAssumption, Samples, None, NoVersion
  <1>2. CASE UNCHANGED <<held, task, startVer>>
    BY <1>2 DEF Fresh
  <1>3. CASE TakePending
    <2>1. pending # << >> /\ UNCHANGED <<task, startVer>>
          /\ (held' = held \/ held' = Head(pending))
      BY <1>3 DEF TakePending, taskVars
    <2>2. ASSUME NEW s \in Samples, Head(pending) = s
          PROVE  startVer[s] = NoVersion
      <3>1. Hits(Tail(pending), {s}) = Hits(pending, {s}) - One(Head(pending) \in {s})
        BY <1>1, <2>1, HitsTail
      <3>2. Tail(pending) \in Seq(1..Done)
        BY <1>1, <2>1
      <3>3. Hits(Tail(pending), {s}) \in Nat /\ Hits(pending, {s}) \in Nat
        BY <1>1, <3>2, HitsType
      <3>4. One(Head(pending) \in {s}) = 1
        BY <2>2 DEF One
      <3>5. Hits(pending, {s}) > 0
        BY <3>1, <3>3, <3>4
      <3> QED
        BY <3>5 DEF Untagged
    <2> QED
      BY <2>1, <2>2 DEF Fresh
  <1>4. CASE Submit
    <2>1. UNCHANGED startVer
          /\ (UNCHANGED <<held, task>> \/ (held' = None /\ task' = [task EXCEPT ![held] = "new"]))
      BY <1>4 DEF Submit
    <2> QED
      BY <1>1, <2>1 DEF Fresh
  <1>5. CASE \E s \in Samples : SampleStep(s)
    <2>1. PICK s \in Samples : SampleStep(s)
      BY <1>5
    <2>2. UNCHANGED held
      BY <2>1 DEF SampleStep, TaskStep, StartTask, SendSample, FinishTask, RequeueSample,
        RaiseTask, QueueSample, AcceptRequest, CompleteRequest, InterruptRequest, FailRequest,
        serviceFrame, taskFrame, procVars
    <2>3. CASE StartTask(s)
      <3>1. s \in InFlight /\ task' = [task EXCEPT ![s] = "request"] /\ task[s] = "new"
            /\ startVer' = [startVer EXCEPT ![s] = IF @ = NoVersion THEN version ELSE @]
        BY <1>1, <2>3 DEF StartTask, InFlight
      <3>2. held # s
        BY <3>1, HeldHasNoTask
      <3>3. task'[s] = "request" /\ startVer'[s] # NoVersion
        BY <1>1, <3>1
      <3>4. \A r \in Samples : r # s => task'[r] = task[r] /\ startVer'[r] = startVer[r]
        BY <1>1, <3>1
      <3> QED
        BY <2>2, <3>2, <3>3, <3>4 DEF Fresh
    <2>4. CASE QueueSample(s)
      BY <1>1, <2>2, <2>4 DEF QueueSample, Fresh
    <2>5. CASE ~StartTask(s) /\ ~QueueSample(s)
      <3>1. UNCHANGED startVer
        BY <2>1, <2>5 DEF SampleStep, TaskStep, SendSample, FinishTask, RequeueSample,
          RaiseTask, AcceptRequest, CompleteRequest, InterruptRequest, FailRequest, serviceFrame
      <3>2. \E t \in TaskStates \ {"new"} : task' = [task EXCEPT ![s] = t]
        BY <2>1, <2>5 DEF SampleStep, TaskStep, SendSample, FinishTask, RequeueSample,
          RaiseTask, EndTask, AcceptRequest, CompleteRequest, InterruptRequest, FailRequest,
          TaskStates
      <3>3. task[s] \notin {"new", "acked"} \/ task'[s] = "none"
        BY <1>1, <2>1, <2>5 DEF SampleStep, TaskStep, SendSample, FinishTask, RequeueSample,
          RaiseTask, EndTask, AcceptRequest, CompleteRequest, InterruptRequest, FailRequest
      <3>4. task[s] # "none"
        BY <2>1 DEF SampleStep, TaskStep, StartTask, SendSample, FinishTask, RequeueSample,
          RaiseTask, QueueSample, AcceptRequest, CompleteRequest, InterruptRequest, FailRequest
      <3> QED
        BY <1>1, <2>2, <3>1, <3>2, <3>3, <3>4 DEF Fresh
    <2> QED
      BY <2>3, <2>4, <2>5
  <1>6. ~TakeCancelled
    BY DEF TakeCancelled, NothingCancelled
  <1>7. CASE FeedSamples
    BY <1>2, <1>7 DEF FeedSamples, taskVars, procVars
  <1>8. CASE TrainerStep \/ SyncStep \/ UNCHANGED vars
    <2>1. CASE Launch
      BY <1>2, <2>1 DEF Launch, StartFit, taskVars
    <2>2. CASE ~Launch
      BY <1>2, <1>8, <2>2, AcrossFrame DEF vars, rolloutVars, taskVars, procVars
    <2> QED
      BY <2>1, <2>2
  <1>9. CASE RollouterStep /\ ~FeedSamples /\ ~TakePending /\ ~TakeCancelled /\ ~Submit
             /\ ~ \E s \in Samples : SampleStep(s)
    BY <1>2, <1>9, QuietSteps
  <1> QED
    BY <1>3, <1>4, <1>5, <1>6, <1>7, <1>8, <1>9, StepSides

\* What the call in progress does to Gathered and to the version.
LEMMA GatheredSteps ==
  ASSUME TypeOK, CallPhase, RollouterStep, UNCHANGED <<trainer, trainVars, sync>>
  PROVE  \/ Gathered' = Gathered /\ UNCHANGED version
         \/ PauseGathered
         \/ UpdateBegin
PROOF
  <1> SUFFICES ASSUME ~PauseGathered, ~UpdateBegin
               PROVE  Gathered' = Gathered /\ UNCHANGED version
    OBVIOUS
  <1>1. CASE RpcStep \/ UpdateSize
    BY <1>1 DEF RpcStep, CallArrives, PauseBegin, PauseCancelled, PauseEnd, UpdateSize,
      UpdateStaleness, UpdateEnd, ResumeBegin, ResumeEnd, InCall, callFrame, Gathered, Noted
  <1>2. CASE ~RpcStep /\ ~UpdateSize
    BY <1>2, CallFrame DEF rpcVars, Gathered
  <1> QED
    BY <1>1, <1>2

LEMMA RecentNext ==
  ASSUME TypeOK, CallPhase, StillUnborn, VersionLags, Fresh, Recent, [Next]_vars
  PROVE  Recent'
PROOF
  <1> SUFFICES ASSUME Collecting'
               PROVE  Recent'
    BY DEF Recent
  <1>1. /\ task \in [Samples -> TaskStates] /\ version \in Nat /\ rpcVersion \in Nat
        /\ startVer \in [Samples -> Nat \cup {NoVersion}] /\ NoVersion = -1
    BY DEF TypeOK, RollouterTypeOK, WorkTypeOK, LoopTypeOK, NoVersion
  <1>2. CASE RollouterStep /\ UNCHANGED <<trainer, trainVars, sync>>
    <2>1. Collecting
      BY <1>2 DEF Collecting
    <2>2. CASE PauseGathered
      <3>1. Live = {} /\ UNCHANGED task
        BY <2>2 DEF PauseGathered, callFrame, rpcFrame, taskVars
      <3> QED
        BY <3>1 DEF Recent, Live
    <2>3. CASE UpdateBegin
      <3>1. rpc = "updateLock" /\ rpc' = "updateSize" /\ version' = rpcVersion
            /\ UNCHANGED <<task, startVer>>
        BY <2>3 DEF UpdateBegin, InCall, rpcFrame, taskVars
      <3>2. rpcVersion = version + 1 /\ One(~Gathered) = 0 /\ One(~Gathered') = 1
        BY <2>1, <3>1 DEF VersionLags, Announced, Noted, Gathered, One
      <3>3. ASSUME NEW s \in Live', startVer'[s] # NoVersion
            PROVE  version' <= startVer'[s] + One(~Gathered')
        <4>1. s \in Live /\ startVer'[s] = startVer[s] /\ startVer[s] \in Nat
          BY <1>1, <3>1, <3>3 DEF Live
        <4>2. version <= startVer[s] + 0
          BY <2>1, <3>2, <3>3, <4>1 DEF Recent
        <4> QED
          BY <1>1, <3>1, <3>2, <4>1, <4>2
      <3> QED
        BY <3>3 DEF Recent
    <2>4. CASE Gathered' = Gathered /\ UNCHANGED version
      <3>1. ASSUME NEW s \in Live', startVer'[s] # NoVersion,
                   \/ s \in Live /\ startVer'[s] = startVer[s]
                   \/ startVer'[s] = version
            PROVE  version' <= startVer'[s] + One(~Gathered')
        <4>1. One(~Gathered') = One(~Gathered) /\ One(~Gathered) \in {0, 1}
          BY <2>4 DEF One
        <4>2. CASE startVer'[s] = version
          BY <1>1, <2>4, <4>1, <4>2
        <4>3. CASE s \in Live /\ startVer'[s] = startVer[s]
          BY <2>1, <2>4, <3>1, <4>1, <4>3 DEF Recent
        <4> QED
          BY <3>1, <4>2, <4>3
      <3>2. ASSUME NEW s \in Live', startVer'[s] # NoVersion
            PROVE  \/ s \in Live /\ startVer'[s] = startVer[s]
                   \/ startVer'[s] = version
        <4>1. s \in Samples /\ task'[s] # "none"
          BY DEF Live
        <4>2. CASE Submit
          <5>1. UNCHANGED startVer
                /\ (UNCHANGED task \/ task' = [task EXCEPT ![held] = "new"])
            BY <4>2 DEF Submit
          <5>2. held # s
            BY <3>2, <4>1, <5>1 DEF Fresh
          <5> QED
            BY <1>1, <4>1, <5>1, <5>2 DEF Live
        <4>3. CASE ~Submit
          <5>1. s \in Live
            BY <4>1, <4>3, TasksStart DEF Live
          <5>2. startVer'[s] \in {startVer[s], NoVersion, version}
            <6>1. CASE \E r \in Samples : SampleStep(r)
              BY <1>1, <4>1, <6>1 DEF SampleStep, TaskStep, StartTask, SendSample, FinishTask,
                RequeueSample, RaiseTask, QueueSample, AcceptRequest, CompleteRequest,
                InterruptRequest, FailRequest, serviceFrame
            <6>2. CASE FeedSamples \/ TakePending \/ TakeCancelled
              BY <6>2 DEF FeedSamples, TakePending, TakeCancelled, taskVars
            <6> QED
              BY <1>2, <4>3, <6>1, <6>2, QuietSteps
          <5> QED
            BY <3>2, <5>1, <5>2
        <4> QED
          BY <4>2, <4>3
      <3> QED
        BY <3>1, <3>2 DEF Recent
    <2> QED
      BY <1>2, <2>2, <2>3, <2>4, GatheredSteps
  <1>3. CASE Launch
    <2>1. Live = {} /\ UNCHANGED task
      BY <1>3 DEF Launch, StartFit, StillUnborn, Loading, taskVars
    <2> QED
      BY <2>1 DEF Recent, Live
  <1>4. CASE ((TrainerStep \/ SyncStep) /\ ~Launch) \/ UNCHANGED vars
    <2>1. UNCHANGED <<task, startVer, version>>
      BY <1>4, AcrossFrame DEF vars, rolloutVars, taskVars
    <2>2. Gathered' = Gathered
      BY <1>4 DEF TrainerStep, SyncStep, Load, LogValidation, AwaitSamples, CollectSample,
        TrainStep, StartSync, FinishTraining, FinishValidation, ClearAtEnd, SyncAnnounce, SyncEnd,
        SyncBegin, LastSyncOver, CallPhase, rpcVars, vars, Gathered, Noted
    <2>3. Collecting
      BY <1>4 DEF TrainerStep, SyncStep, Load, LogValidation, AwaitSamples, CollectSample,
        TrainStep, StartSync, FinishTraining, FinishValidation, ClearAtEnd, SyncAnnounce, SyncEnd,
        vars, Collecting
    <2> QED
      BY <2>1, <2>2, <2>3 DEF Recent, Live
  <1> QED
    BY <1>2, <1>3, <1>4, StepSides

\* Products, for the solver.
LEMMA SyncProducts ==
  /\ OneSync \in Nat \ {0} /\ MaxRequired \in Nat /\ MaxRequired = OneSync + StaleAllowance
  /\ \A v \in Nat : v * OneSync \in Nat /\ (v + 1) * OneSync = v * OneSync + OneSync
  /\ \A v, w \in Int : v <= w => v * OneSync <= w * OneSync
  /\ \A k \in 1..Trigger :
       /\ (k - 1) * Required \in Nat /\ (k - 1) * Required + Required <= OneSync
       /\ k = 1 => (k - 1) * Required = 0
       /\ k + 1 - 1 = k /\ (k - 1) * Required + Required = k * Required
       /\ k = Trigger => (k - 1) * Required + Required = OneSync
PROOF
  <1>1. Required \in Nat \ {0} /\ Trigger \in Nat \ {0} /\ StaleAllowance \in Nat
    BY RolloutAssumption DEF RolloutAssumption
  <1>2. OneSync \in Nat \ {0} /\ OneSync = Required * Trigger
    <2>1. \A a, b \in Nat \ {0} : a * b \in Nat \ {0}
      OBVIOUS
    <2> QED
      BY <1>1, <2>1 DEF OneSync
  <1>3. MaxRequired = OneSync + StaleAllowance /\ MaxRequired \in Nat
    BY <1>1, <1>2 DEF MaxRequired
  <1> HIDE DEF MaxRequired
  <1>4. \A b \in Nat, v \in Nat : v * b \in Nat /\ (v + 1) * b = v * b + b
    OBVIOUS
  <1>5. \A b \in Nat : \A v, w \in Int : v <= w => v * b <= w * b
    OBVIOUS
  <1>6. ASSUME NEW k \in 1..Trigger
        PROVE  /\ (k - 1) * Required \in Nat /\ (k - 1) * Required + Required <= OneSync
               /\ k = 1 => (k - 1) * Required = 0
               /\ k + 1 - 1 = k /\ (k - 1) * Required + Required = k * Required
               /\ k = Trigger => (k - 1) * Required + Required = OneSync
    <2>1. k \in Nat /\ k - 1 \in Nat /\ k <= Trigger /\ (k - 1) + 1 = k /\ k + 1 - 1 = k
      BY <1>1
    <2>2. (k - 1) * Required \in Nat /\ (k - 1) * Required + Required = k * Required
      BY <1>1, <1>4, <2>1
    <2>3. k * Required <= Trigger * Required /\ Trigger * Required = OneSync
      <3>1. \A a, b \in Nat : a * b = b * a
        OBVIOUS
      <3> QED
        BY <1>1, <1>2, <1>5, <2>1, <3>1
    <2>4. k = 1 => (k - 1) * Required = 0
      BY <1>1
    <2> QED
      BY <2>1, <2>2, <2>3, <2>4
  <1> QED
    BY <1>2, <1>3, <1>4, <1>5, <1>6

\* How many samples the trainer has had, by the synchronizer's version.
LEMMA TakenBound ==
  ASSUME TypeOK, TrainerPhases, VersionLags, Collecting
  PROVE  /\ TrainedOn \in Nat /\ Len(batch) \in Nat
         /\ TrainedOn + Len(batch) <= (rpcVersion + 1) * OneSync
         /\ sync # "idle" => TrainedOn + Len(batch) = rpcVersion * OneSync
PROOF
  <1>1. /\ trainVersion \in Nat /\ rpcVersion \in Nat /\ Len(batch) \in Nat
        /\ localStep \in 1..Trigger /\ Len(<< >>) = 0 /\ Required \in Nat \ {0}
    BY RolloutAssumption DEF TypeOK, RollouterTypeOK, LoopTypeOK, RolloutAssumption
  <1> DEFINE p == (localStep - 1) * Required
             t == trainVersion * OneSync
  <1>2. /\ p \in Nat /\ p + Required <= OneSync /\ (localStep = 1 => p = 0)
        /\ t \in Nat /\ (trainVersion + 1) * OneSync = t + OneSync /\ TrainedOn = t + p
        /\ OneSync \in Nat
    BY <1>1, SyncProducts DEF TrainedOn
  <1> HIDE DEF p, t
  <1>3. Len(batch) <= Required
    BY <1>1 DEF TrainerPhases, Collecting
  <1>4. CASE trainer = "waitLast"
    <2>1. localStep = 1 /\ Len(batch) = 0 /\ trainVersion = rpcVersion + 1 /\ sync = "idle"
      BY <1>1, <1>4 DEF TrainerPhases, VersionLags, One
    <2> QED
      BY <1>1, <1>2, <2>1 DEF t
  <1>5. CASE trainer # "waitLast"
    <2>1. trainVersion = rpcVersion
      BY <1>1, <1>5 DEF VersionLags, One
    <2>2. sync # "idle" => localStep = 1 /\ Len(batch) = 0
      BY <1>1 DEF TrainerPhases
    <2>3. (rpcVersion + 1) * OneSync = t + OneSync /\ rpcVersion * OneSync = t
      BY <1>2, <2>1 DEF t
    <2> QED
      BY <1>1, <1>2, <1>3, <2>2, <2>3
  <1> QED
    BY <1>4, <1>5

\* What a task puts, it puts in time.
LEMMA PutInTime ==
  ASSUME TypeOK, CallPhase, TrainerPhases, VersionLags, Fresh, Recent, Collecting,
         NEW s \in Samples, task[s] = "put", NEW k \in Nat, k <= MaxRequired,
         NEW e, e.start = startVer[s]
  PROVE  InTime(e, TrainedOn + Len(batch) + k)
PROOF
  <1>1. startVer[s] \in Nat /\ version \in Nat /\ rpcVersion \in Nat
    BY DEF TypeOK, RollouterTypeOK, WorkTypeOK, LoopTypeOK, Fresh
  <1>2. version <= startVer[s] + One(~Gathered) /\ rpcVersion = version + One(~Announced)
    <2>1. s \in Live /\ startVer[s] # NoVersion
      BY DEF Live, Fresh
    <2> QED
      BY <2>1 DEF Recent, VersionLags
  <1>3. TrainedOn + Len(batch) <= (startVer[s] + 2) * OneSync
    <2>1. /\ TrainedOn + Len(batch) <= (rpcVersion + 1) * OneSync
          /\ sync # "idle" => TrainedOn + Len(batch) = rpcVersion * OneSync
          /\ TrainedOn + Len(batch) \in Nat
      BY TakenBound
    <2>2. \A v, w \in Int : v <= w => v * OneSync <= w * OneSync /\ v * OneSync \in Int
      BY SyncProducts
    <2>3. CASE Gathered \/ Announced
      <3>1. rpcVersion + 1 <= startVer[s] + 2
        BY <1>1, <1>2, <2>3 DEF One, Announced, Gathered
      <3>2. (rpcVersion + 1) * OneSync <= (startVer[s] + 2) * OneSync
        BY <1>1, <2>2, <3>1
      <3>3. (rpcVersion + 1) * OneSync \in Int /\ (startVer[s] + 2) * OneSync \in Int
        BY <1>1, <2>2
      <3> QED
        BY <2>1, <3>2, <3>3
    <2>4. CASE ~Gathered /\ ~Announced
      <3>1. sync # "idle" /\ rpcVersion <= startVer[s] + 2
        BY <1>1, <1>2, <2>4 DEF One, Announced, Gathered
      <3>2. rpcVersion * OneSync <= (startVer[s] + 2) * OneSync
        BY <1>1, <2>2, <3>1
      <3> QED
        BY <2>1, <3>1, <3>2
    <2> QED
      BY <2>3, <2>4
  <1>4. TrainedOn + Len(batch) \in Nat /\ (startVer[s] + 2) * OneSync \in Nat /\ MaxRequired \in Nat
    BY <1>1, TakenBound, SyncProducts
  <1> QED
    BY <1>3, <1>4 DEF InTime

\* put_sample moves entries forward only, and get_sample by one place.
LEMMA PutForward ==
  ASSUME QueueTypeOK, NEW e \in QueueEntries, MQ!PutSample(e)
  PROVE  \A i \in DOMAIN queue' :
           queue'[i] = e \/ \E j \in DOMAIN queue : i <= j /\ queue'[i] = queue[j]
PROOF
  <1> DEFINE kept == IF MQ!QueueFull THEN Tail(queue) ELSE queue
  <1>1. queue \in Seq(QueueEntries) /\ MaxRequired \in Nat \ {0} /\ Len(queue) \in Nat
    BY MaxRequiredType DEF QueueTypeOK
  <1>2. queue' = Append(kept, e)
    BY DEF MQ!PutSample, MQ!PopLeft
  <1>3. MQ!QueueFull => queue # << >>
    BY <1>1 DEF MQ!QueueFull
  <1>4. /\ kept \in Seq(QueueEntries)
        /\ \A i \in DOMAIN kept : \E j \in DOMAIN queue : i <= j /\ kept[i] = queue[j]
    <2>1. CASE MQ!QueueFull
      <3>1. queue # << >> /\ kept = Tail(queue)
        BY <1>3, <2>1
      <3>2. Tail(queue) \in Seq(QueueEntries)
            /\ \A i \in 1..Len(Tail(queue)) :
                 Tail(queue)[i] = queue[i + 1] /\ i + 1 \in DOMAIN queue /\ i <= i + 1
        BY <1>1, <3>1
      <3>3. DOMAIN Tail(queue) = 1..Len(Tail(queue))
        BY <3>2
      <3>4. \A i \in DOMAIN Tail(queue) :
              \E j \in DOMAIN queue : i <= j /\ Tail(queue)[i] = queue[j]
        BY <3>2, <3>3
      <3> HIDE DEF kept
      <3> QED
        BY <3>1, <3>2, <3>4
    <2>2. CASE ~MQ!QueueFull
      BY <1>1, <2>2
    <2> QED
      BY <2>1, <2>2
  <1> HIDE DEF kept
  <1> QED
    BY <1>2, <1>4

LEMMA InTimeEarlier ==
  ASSUME NEW e \in QueueEntries, NEW k \in Nat, NEW m \in Nat, m <= k, InTime(e, k)
  PROVE  InTime(e, m)
PROOF
  <1>1. e.start \in Int
    BY DEF QueueEntries, SampleEntries, End, NoVersion
  <1>2. (e.start + 2) * OneSync \in Int /\ MaxRequired \in Nat
    BY <1>1, SyncProducts
  <1>3. k <= (e.start + 2) * OneSync + MaxRequired
    BY DEF InTime
  <1> QED
    BY <1>2, <1>3 DEF InTime

\* A training step counts its batch.
LEMMA TrainStepCounts ==
  ASSUME TypeOK, TrainerPhases, TrainStep
  PROVE  TrainedOn' = TrainedOn + Len(batch) /\ batch' = << >>
PROOF
  <1>1. /\ trainVersion \in Nat /\ localStep \in 1..Trigger /\ Trigger \in Nat
        /\ Len(batch) = Required /\ Required \in Nat
    BY RolloutAssumption
    DEF TypeOK, RollouterTypeOK, LoopTypeOK, RolloutAssumption, TrainStep, TrainerPhases, Collecting
  <1> DEFINE p == (localStep - 1) * Required
             t == trainVersion * OneSync
  <1>2. /\ p \in Nat /\ p + Required = localStep * Required /\ t \in Nat /\ OneSync \in Nat
        /\ (localStep = Trigger => p + Required = OneSync)
        /\ (trainVersion + 1) * OneSync = t + OneSync /\ TrainedOn = t + p
        /\ (1 - 1) * Required = 0 /\ localStep + 1 - 1 = localStep
    BY <1>1, SyncProducts DEF TrainedOn
  <1>3. /\ \A v, k \in Int : trainVersion' = v /\ localStep' = k
                                => TrainedOn' = v * OneSync + (k - 1) * Required
        /\ batch' = << >>
    BY DEF TrainedOn, OneSync, TrainStep
  <1>4. CASE localStep < Trigger
    <2>1. localStep' = localStep + 1 /\ trainVersion' = trainVersion
      BY <1>4 DEF TrainStep
    <2>2. TrainedOn' = t + (localStep + 1 - 1) * Required
      BY <1>1, <1>3, <2>1
    <2>3. (localStep + 1 - 1) * Required = localStep * Required
      BY <1>2
    <2> HIDE DEF p, t
    <2>4. TrainedOn' = t + (p + Required)
      BY <1>2, <2>2, <2>3
    <2> QED
      BY <1>1, <1>2, <1>3, <2>4
  <1>5. CASE ~(localStep < Trigger)
    <2>1. localStep' = 1 /\ trainVersion' = trainVersion + 1 /\ localStep = Trigger
      BY <1>1, <1>5 DEF TrainStep
    <2>2. TrainedOn' = (trainVersion + 1) * OneSync + (1 - 1) * Required
      BY <1>1, <1>3, <2>1
    <2> HIDE DEF p, t
    <2>3. TrainedOn' = (t + OneSync) + 0
      BY <1>2, <2>2
    <2> QED
      BY <1>1, <1>2, <1>3, <2>1, <2>3
  <1> QED
    BY <1>4, <1>5

LEMMA AheadNext ==
  ASSUME TypeOK, TypeOK', CallPhase, StillUnborn, TrainerPhases, VersionLags, Fresh, Recent,
         Ahead, QueueBounded', [Next]_vars
  PROVE  Ahead'
PROOF
  <1> SUFFICES ASSUME Collecting'
               PROVE  Ahead'
    BY DEF Ahead
  <1>1. /\ QueueTypeOK /\ queue \in Seq(QueueEntries) /\ batch \in Seq(SampleEntries)
        /\ queue' \in Seq(QueueEntries)
    BY DEF TypeOK, RollouterTypeOK, QueueTypeOK
  <1>2. UNCHANGED <<trainVersion, localStep>> => TrainedOn' = TrainedOn
    BY DEF TrainedOn, OneSync
  <1>3. ASSUME \A i \in DOMAIN queue' : queue'[i] # End =>
                 InTime(queue'[i], TrainedOn' + Len(batch') + i),
               \A j \in DOMAIN batch' : InTime(batch'[j], TrainedOn' + j)
        PROVE  Ahead'
    BY <1>3 DEF Ahead, InTime, OneSync, MaxRequired
  <1>4. CASE \E s \in Samples : QueueSample(s) /\ UNCHANGED <<trainer, trainVars, sync>>
    <2>1. PICK s \in Samples : QueueSample(s) /\ UNCHANGED <<trainer, trainVars, sync>>
      BY <1>4
    <2> DEFINE e == [id |-> s, start |-> startVer[s], ver |-> doneVer[s]]
    <2>2. Collecting /\ UNCHANGED <<trainVersion, localStep, batch>> /\ TrainedOn' = TrainedOn
      BY <1>2, <2>1 DEF Collecting, trainVars
    <2>3. MQ!PutSample(e) /\ task[s] = "put" /\ e \in QueueEntries /\ e.start = startVer[s]
      BY <2>1, EntryType DEF QueueSample
    <2> HIDE DEF e
    <2>4. TrainedOn + Len(batch) \in Nat
      BY <2>2, TakenBound
    <2>5. ASSUME NEW i \in DOMAIN queue', queue'[i] # End
          PROVE  InTime(queue'[i], TrainedOn + Len(batch) + i)
      <3>1. i \in Nat /\ i <= Len(queue')
        BY <1>1
      <3>2. i <= MaxRequired
        <4>1. Len(queue') <= MaxRequired /\ Len(queue') \in Nat /\ MaxRequired \in Nat
          BY <1>1, SyncProducts DEF QueueBounded, MaxRequired
        <4> QED
          BY <3>1, <4>1
      <3>3. CASE queue'[i] = e
        BY <2>2, <2>3, <3>1, <3>2, <3>3, PutInTime
      <3>4. CASE \E j \in DOMAIN queue : i <= j /\ queue'[i] = queue[j]
        <4>1. PICK j \in DOMAIN queue : i <= j /\ queue'[i] = queue[j]
          BY <3>4
        <4>2. InTime(queue[j], TrainedOn + Len(batch) + j)
          BY <2>2, <2>5, <4>1 DEF Ahead
        <4>3. j \in Nat /\ queue[j] \in QueueEntries
          BY <1>1, <4>1
        <4>4. /\ TrainedOn + Len(batch) + i \in Nat /\ TrainedOn + Len(batch) + j \in Nat
              /\ TrainedOn + Len(batch) + i <= TrainedOn + Len(batch) + j
          BY <2>4, <3>1, <4>1, <4>3
        <4>5. InTime(queue[j], TrainedOn + Len(batch) + i)
          BY <4>2, <4>3, <4>4, InTimeEarlier
        <4> QED
          BY <4>1, <4>5
      <3> QED
        BY <1>1, <2>3, <3>3, <3>4, PutForward
    <2>6. \A j \in DOMAIN batch' : InTime(batch'[j], TrainedOn' + j)
      BY <2>2 DEF Ahead
    <2> QED
      BY <1>3, <2>2, <2>5, <2>6
  <1>5. CASE PutEnd /\ UNCHANGED <<trainer, trainVars, sync>>
    <2>1. Collecting /\ UNCHANGED <<trainVersion, localStep, batch>> /\ TrainedOn' = TrainedOn
      BY <1>2, <1>5 DEF Collecting, trainVars
    <2>2. MQ!PutSample(End) /\ End \in QueueEntries
      BY <1>5 DEF PutEnd, QueueEntries
    <2>3. TrainedOn + Len(batch) \in Nat
      BY <2>1, TakenBound
    <2>4. ASSUME NEW i \in DOMAIN queue', queue'[i] # End
          PROVE  InTime(queue'[i], TrainedOn + Len(batch) + i)
      <3>1. PICK j \in DOMAIN queue : i <= j /\ queue'[i] = queue[j]
        BY <1>1, <2>2, <2>4, PutForward
      <3>2. InTime(queue[j], TrainedOn + Len(batch) + j)
        BY <2>1, <2>4, <3>1 DEF Ahead
      <3>3. i \in Nat /\ j \in Nat /\ queue[j] \in QueueEntries
        BY <1>1, <3>1
      <3>4. /\ TrainedOn + Len(batch) + i \in Nat /\ TrainedOn + Len(batch) + j \in Nat
            /\ TrainedOn + Len(batch) + i <= TrainedOn + Len(batch) + j
        BY <2>3, <3>1, <3>3
      <3>5. InTime(queue[j], TrainedOn + Len(batch) + i)
        BY <3>2, <3>3, <3>4, InTimeEarlier
      <3> QED
        BY <3>1, <3>5
    <2>5. \A j \in DOMAIN batch' : InTime(batch'[j], TrainedOn' + j)
      BY <2>1 DEF Ahead
    <2> QED
      BY <1>3, <2>1, <2>4, <2>5
  <1>6. CASE CollectSample
    <2>1. trainer' # "final" /\ Collecting /\ UNCHANGED <<trainVersion, localStep>>
          /\ MQ!GetSample("trainer") /\ TrainedOn' = TrainedOn
      BY <1>2, <1>6 DEF CollectSample, Collecting
    <2>2. /\ Head(queue) \in SampleEntries /\ batch' = Append(batch, Head(queue))
          /\ Len(batch') = Len(batch) + 1
      BY <1>6, <2>1, CollectMoves
    <2>3. queue # << >> /\ queue' = Tail(queue) /\ Head(queue) = queue[1] /\ 1 \in DOMAIN queue
      BY <1>1, <2>1 DEF MQ!GetSample, MQ!PopLeft
    <2>4. TrainedOn + Len(batch) \in Nat /\ TrainedOn \in Nat /\ Len(batch) \in Nat
      BY <2>1, TakenBound
    <2>5. ASSUME NEW i \in DOMAIN queue', queue'[i] # End
          PROVE  InTime(queue'[i], TrainedOn' + Len(batch') + i)
      <3>1. i \in Nat /\ i + 1 \in DOMAIN queue /\ queue'[i] = queue[i + 1]
        BY <1>1, <2>3
      <3>2. InTime(queue[i + 1], TrainedOn + Len(batch) + (i + 1))
        BY <2>1, <2>5, <3>1 DEF Ahead
      <3>3. TrainedOn + Len(batch) + (i + 1) = TrainedOn + (Len(batch) + 1) + i
        BY <2>4, <3>1
      <3> QED
        BY <2>1, <2>2, <3>1, <3>2, <3>3
    <2>6. InTime(Head(queue), TrainedOn + (Len(batch) + 1))
      <3>1. Head(queue) # End
        BY <2>2 DEF SampleEntries, End, None, Samples
      <3>2. InTime(queue[1], TrainedOn + Len(batch) + 1)
        BY <2>1, <2>3, <3>1 DEF Ahead
      <3>3. TrainedOn + Len(batch) + 1 = TrainedOn + (Len(batch) + 1)
        BY <2>4
      <3> QED
        BY <2>3, <3>2, <3>3
    <2>7. ASSUME NEW j \in DOMAIN batch'
          PROVE  InTime(batch'[j], TrainedOn' + j)
      <3>1. \/ j = Len(batch) + 1 /\ batch'[j] = Head(queue)
            \/ j \in DOMAIN batch /\ batch'[j] = batch[j]
        BY <1>1, <2>2
      <3>2. CASE j = Len(batch) + 1 /\ batch'[j] = Head(queue)
        BY <2>1, <2>6, <3>2
      <3>3. CASE j \in DOMAIN batch /\ batch'[j] = batch[j]
        BY <2>1, <3>3 DEF Ahead
      <3> QED
        BY <3>1, <3>2, <3>3
    <2> QED
      BY <1>3, <2>5, <2>7
  <1>7. CASE UNCHANGED queue /\ ~CollectSample
    <2>1. CASE Launch
      <3>1. queue' = << >> /\ batch' = << >>
        BY <1>7, <2>1 DEF Launch, StillUnborn, Loading, trainVars
      <3> QED
        BY <1>3, <3>1
    <2>2. CASE TrainStep
      <3>1. Collecting /\ TrainedOn' = TrainedOn + Len(batch) /\ batch' = << >>
        BY <2>2, TrainStepCounts DEF TrainStep, Collecting
      <3>2. TrainedOn + Len(batch) \in Nat /\ Len(<< >>) = 0
        BY <3>1, TakenBound
      <3>3. TrainedOn' + Len(batch') = TrainedOn + Len(batch)
        BY <3>1, <3>2
      <3>4. \A i \in DOMAIN queue' : queue'[i] # End =>
              InTime(queue'[i], TrainedOn' + Len(batch') + i)
        BY <1>7, <3>1, <3>3 DEF Ahead
      <3> QED
        BY <1>3, <3>1, <3>4
    <2>3. CASE ~Launch /\ ~TrainStep
      <3>1. Collecting /\ UNCHANGED <<trainVersion, localStep, batch>> /\ TrainedOn' = TrainedOn
        BY <1>2, <1>7, <2>3, StepSides
        DEF TrainerStep, SyncStep, Load, LogValidation, AwaitSamples, StartSync, FinishTraining,
          FinishValidation, ClearAtEnd, SyncAnnounce, SyncEnd, vars, trainVars, Collecting
      <3> QED
        BY <1>3, <1>7, <3>1 DEF Ahead
    <2> QED
      BY <2>1, <2>2, <2>3
  <1>8. ~ClearAtEnd
    BY DEF ClearAtEnd, Collecting
  <1> QED
    BY <1>4, <1>5, <1>6, <1>7, <1>8, QueueMoves

\* Division, for the solver.
LEMMA Quotients ==
  ASSUME NEW b \in Nat \ {0}, NEW a \in Nat, NEW v \in Int, NEW w \in Int,
         v * b < (w + 3) * b + a
  PROVE  v - w <= 2 + ((a + b - 1) \div b)
PROOF
  <1> DEFINE q == (a + b - 1) \div b
  <1>1. q \in Int /\ a + b - 1 < (q + 1) * b
    OBVIOUS
  <1> HIDE DEF q
  <1>2. (q + 1) * b = q * b + b /\ (w + 3) * b = w * b + 3 * b
    BY <1>1
  <1>3. a <= q * b
    BY <1>1, <1>2
  <1>4. v * b < (w + 3) * b + q * b
    BY <1>1, <1>3
  <1>5. (w + 3) * b + q * b = (w + q + 3) * b
    BY <1>1
  <1>6. v * b < (w + q + 3) * b
    BY <1>4, <1>5
  <1>7. \A x, y \in Int : x <= y => x * b <= y * b
    OBVIOUS
  <1>8. w + q + 3 \in Int /\ v * b \in Int /\ (w + q + 3) * b \in Int
    BY <1>1
  <1>9. v < w + q + 3
    BY <1>6, <1>7, <1>8
  <1>10. v - w <= 2 + q
    BY <1>1, <1>9
  <1> QED
    BY <1>10 DEF q

\* The inductive invariant of StalenessAlwaysBounded.
Punctual ==
  /\ CallPhase /\ StillUnborn /\ Untagged /\ QueueBounded /\ NothingCancelled
  /\ TrainerPhases /\ VersionLags /\ Fresh /\ Recent /\ Ahead

LEMMA PunctualInvariant ==
  ASSUME ~PartialRollout
  PROVE  Spec => []Punctual
PROOF
  <1>1. Init => Punctual
    <2> SUFFICES ASSUME Init
                 PROVE  Punctual
      OBVIOUS
    <2>1. CallPhase /\ StillUnborn /\ Untagged /\ QueueBounded
      BY SynchronousInit DEF Synchronous
    <2>2. /\ trainer = "load" /\ batch = << >> /\ cancelQ = << >> /\ ~serversPaused
          /\ rpc = "none" /\ task = [s \in Samples |-> "none"] /\ held = None
          /\ startVer = [s \in Samples |-> NoVersion]
      BY DEF Init, RollouterInit
    <2>3. ~Collecting
      BY <2>2 DEF Collecting
    <2> QED
      BY <2>1, <2>2, <2>3
      DEF Punctual, NothingCancelled, TrainerPhases, VersionLags, Fresh, Recent, Ahead
  <1>2. TypeOK /\ HolderInv /\ Located /\ Punctual /\ [Next]_vars => Punctual'
    <2> SUFFICES ASSUME TypeOK, HolderInv, Located, Punctual, [Next]_vars
                 PROVE  Punctual'
      OBVIOUS
    <2>1. TypeOK'
      BY TypesNext
    <2> USE DEF Punctual
    <2>2. CallPhase' /\ StillUnborn' /\ Untagged' /\ QueueBounded' /\ NothingCancelled'
      BY PhaseNext, UnbornNext, UntaggedNext, QueueBoundedNext, NothingCancelledNext
    <2>3. TrainerPhases' /\ VersionLags' /\ Fresh' /\ Recent'
      BY <2>1, PhasesNext, LagsNext, FreshNext, RecentNext
    <2>4. Ahead'
      BY <2>1, <2>2, AheadNext
    <2> QED
      BY <2>2, <2>3, <2>4
  <1> QED
    BY <1>1, <1>2, Invariant, BudgetInvariant, PTL DEF Spec

\* Without partial rollout no sample of a batch was started more than two plus
\* staleness_threshold, rounded up, versions before the one that trains on it.
THEOREM StalenessAlwaysBounded ==
  ASSUME ~PartialRollout
  PROVE  Spec => []StalenessBound
PROOF
  <1>1. TypeOK /\ Punctual => StalenessBound
    <2> SUFFICES ASSUME TypeOK, TrainerPhases, Ahead, NEW i \in DOMAIN batch
                 PROVE  trainVersion - batch[i].start
                          <= 2 + ((StaleAllowance + OneSync - 1) \div OneSync)
      BY DEF Punctual, StalenessBound, OneSync
    <2>1. /\ trainVersion \in Nat /\ localStep \in 1..Trigger /\ batch \in Seq(SampleEntries)
          /\ StaleAllowance \in Nat
      BY RolloutAssumption DEF TypeOK, RollouterTypeOK, LoopTypeOK, RolloutAssumption
    <2>2. i \in Nat /\ i >= 1 /\ batch[i].start \in Int
      <3>1. i \in Nat /\ i >= 1 /\ batch[i] \in SampleEntries
        BY <2>1
      <3> QED
        BY <3>1 DEF SampleEntries, NoVersion
    <2>3. Collecting
      BY DEF TrainerPhases
    <2>4. TrainedOn + i <= (batch[i].start + 2) * OneSync + MaxRequired
      BY <2>3 DEF Ahead, InTime
    <2> DEFINE p == (localStep - 1) * Required
               t == trainVersion * OneSync
               w == batch[i].start
    <2>5. TrainedOn = t + p /\ p \in Nat /\ t \in Nat /\ OneSync \in Nat \ {0}
          /\ MaxRequired = OneSync + StaleAllowance
      BY <2>1, SyncProducts DEF TrainedOn
    <2>6. (w + 2) * OneSync + OneSync = (w + 3) * OneSync /\ (w + 2) * OneSync \in Int
      <3>1. \A x \in Int, b \in Nat : (x + 2) * b + b = (x + 3) * b /\ (x + 2) * b \in Int
        OBVIOUS
      <3> QED
        BY <2>2, <2>5, <3>1
    <2> HIDE DEF p, t, w
    <2>7. t + p + i <= (w + 2) * OneSync + (OneSync + StaleAllowance)
      BY <2>4, <2>5 DEF w
    <2>8. t < (w + 2) * OneSync + OneSync + StaleAllowance
      BY <2>1, <2>2, <2>5, <2>6, <2>7
    <2>9. trainVersion * OneSync < (w + 3) * OneSync + StaleAllowance
      BY <2>6, <2>8 DEF t
    <2>10. w \in Int /\ trainVersion \in Int
      BY <2>1, <2>2 DEF w
    <2> QED
      BY <2>1, <2>5, <2>9, <2>10, Quotients DEF w
  <1> QED
    BY <1>1, Invariant, PunctualInvariant, PTL
=============================================================================
