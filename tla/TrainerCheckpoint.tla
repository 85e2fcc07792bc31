-------------------------- MODULE TrainerCheckpoint --------------------------
(***************************************************************************)
(* Checkpoints and restarts of the PPO trainer:                            *)
(* trainer/ppo/ray_trainer.py (RayPPOTrainer.fit, _save_checkpoint,        *)
(* _load_checkpoint), utils/checkpoint/checkpoint_manager.py and           *)
(* fsdp_checkpoint_manager.py, with resume_mode "auto", save_freq > 0 and  *)
(* a local directory.                                                      *)
(*                                                                         *)
(* The job may crash between any two steps, in the middle of a write or of *)
(* a removal, and is launched again over the same directory, also when it  *)
(* had finished.  Weights are abstracted to the batches they were trained  *)
(* on: a sequence of <<life, position in the epoch>>.                      *)
(***************************************************************************)
EXTENDS Naturals, Sequences, FiniteSets

CONSTANTS
  Ranks,         \* the FSDP ranks of a worker group
  UseCritic,     \* use_critic
  EpochLength,   \* len(train_dataloader)
  TotalEpochs,
  Overrides,     \* values of trainer.total_training_steps; 0: None
  SaveFreq,
  KeepChoices,   \* values of max_actor_ckpt_to_keep, max_critic_ckpt_to_keep; 0: None
  MaxCrashes,    \* bound on the crashes and later launches
  Missing, Torn  \* the contents of a file that is absent, or half written

Roles == IF UseCritic THEN <<"actor", "critic">> ELSE <<"actor">>

\* The steps the epochs have batches for.
Steps == 1..EpochLength * TotalEpochs

\* What weights have been trained on: <<life, position in the epoch>> by step.
Lineages == Seq((1..MaxCrashes + 1) \X (0..EpochLength - 1))

ASSUME CheckpointAssumption ==
  /\ EpochLength \in Nat \ {0} /\ TotalEpochs \in Nat \ {0} /\ SaveFreq \in Nat \ {0}
  /\ Overrides \subseteq Nat /\ KeepChoices \subseteq Nat /\ MaxCrashes \in Nat
  /\ UseCritic \in BOOLEAN /\ Ranks # {}

ASSUME FileAssumption ==
  \A file \in {Missing, Torn} : file \notin Nat /\ file \notin Lineages

VARIABLES
  override,    \* trainer.total_training_steps
  keep,        \* max_ckpt_to_keep of each role
  life,        \* launches of the job so far
  pc,          \* what the trainer is about to do
  role,        \* the role whose checkpoint is being saved
  expiring,    \* the capacity block of this launch is close to its end
  todo,        \* ranks that have not written their shard
  globalStep,  \* global_steps
  epoch,
  yielded,     \* batches the dataloader has yielded in this epoch
  weights,     \* by role and rank
  saved,       \* previous_saved_paths of each role's rank 0
  disk,        \* the shards under global_step_<n>/<role>
  data,        \* global_step_<n>/data.pt
  tracker      \* latest_checkpointed_iteration.txt

loopVars == <<globalStep, epoch, yielded, weights>>
fileVars == <<disk, data, tracker>>
config == <<override, keep>>
vars == <<config, life, pc, role, expiring, todo, loopVars, saved, fileVars>>

\* total_training_steps: more or fewer than the epochs have, if it is overridden.
TotalSteps == IF override = 0 THEN EpochLength * TotalEpochs ELSE override

Fresh(value) == [n \in DOMAIN Roles |-> [k \in Ranks |-> value]]

Init ==
  /\ override \in Overrides /\ keep \in [DOMAIN Roles -> KeepChoices]
  /\ life = 1 /\ pc = "load" /\ role = 1 /\ expiring = FALSE /\ todo = {}
  /\ globalStep = 0 /\ epoch = 0 /\ yielded = 0 /\ weights = Fresh(<<>>)
  /\ saved = [n \in DOMAIN Roles |-> <<>>]
  /\ disk = [s \in Steps |-> Fresh(Missing)]
  /\ data = [s \in Steps |-> Missing] /\ tracker = Missing

Readable(file) == file \notin {Missing, Torn}
Loadable(s) ==
  /\ \A n \in DOMAIN Roles : \A k \in Ranks : Readable(disk[s][n][k])
  /\ data[s] # Torn

(***************************************************************************)
(* Launch and resume                                                       *)
(***************************************************************************)
FromScratch ==
  /\ pc = "load" /\ tracker = Missing
  /\ pc' = "train" /\ globalStep' = 1
  /\ UNCHANGED <<config, expiring, life, role, todo, epoch, yielded, weights, saved, fileVars>>

\* int() of a torn tracker, or torch.load of a missing or torn shard, raises.
Unloadable ==
  /\ pc = "load" /\ tracker # Missing
  /\ IF tracker = Torn THEN TRUE ELSE ~Loadable(tracker)
  /\ pc' = "failed"
  /\ UNCHANGED <<config, expiring, life, role, todo, loopVars, saved, fileVars>>

FromTheStart(s) == {0}                 \* mutant: data.pt is not loaded
\* Where the dataloader resumes: after a whole epoch it may yield nothing, or
\* begin the next one; without data.pt it starts from scratch.
ResumedAt(s) ==
  IF data[s] = Missing THEN {0}
  ELSE IF data[s] = EpochLength THEN {0, EpochLength} ELSE {data[s]}

Restore ==
  /\ pc = "load" /\ Readable(tracker)
  /\ Loadable(tracker)
  /\ weights' = disk[tracker]
  /\ yielded' \in ResumedAt(tracker)
  /\ epoch' = tracker \div EpochLength
  /\ globalStep' = tracker + 1 /\ pc' = "train"
  /\ UNCHANGED <<config, expiring, life, role, todo, saved, fileVars>>

(***************************************************************************)
(* The training loop                                                       *)
(***************************************************************************)
IsLastStep == globalStep >= TotalSteps

OnlyMultiples(close) == globalStep % SaveFreq = 0 \/ close    \* mutant: not after the last step
SaveDue(close) == IsLastStep \/ globalStep % SaveFreq = 0 \/ close

Yields == yielded < EpochLength

\* One batch through rollout and update.  Time only runs out: once
\* should_save_ckpt_esi() answers TRUE it does so until the next launch.
TrainStep(close) ==
  /\ pc = "train" /\ epoch < TotalEpochs /\ Yields
  /\ (expiring => close) /\ expiring' = close
  /\ weights' = [n \in DOMAIN Roles |->
                   [k \in Ranks |-> Append(weights[n][k], <<life, yielded>>)]]
  /\ yielded' = yielded + 1
  /\ pc' = IF SaveDue(close) THEN "rotate" ELSE "log"
  /\ UNCHANGED <<config, life, role, todo, globalStep, epoch, saved, fileVars>>

\* Metrics and logging; the last step returns from fit().
StepEnds ==
  /\ pc = "log" /\ globalStep' = globalStep + 1
  /\ pc' = IF IsLastStep THEN "ended" ELSE "train"
  /\ UNCHANGED <<config, expiring, life, role, todo, epoch, yielded, weights, saved, fileVars>>

NextEpoch ==
  /\ pc = "train" /\ epoch < TotalEpochs /\ ~Yields
  /\ epoch' = epoch + 1 /\ yielded' = 0
  /\ UNCHANGED <<config, expiring, life, pc, role, todo, globalStep, weights, saved, fileVars>>

\* The epochs are used up without a last step: also of a finished run that is
\* launched again, or when more steps are asked for than the epochs have.
LoopOver ==
  /\ pc = "train" /\ epoch >= TotalEpochs /\ pc' = "ended"
  /\ UNCHANGED <<config, expiring, life, role, todo, loopVars, saved, fileVars>>

(***************************************************************************)
(* _save_checkpoint                                                        *)
(***************************************************************************)
FullLate == keep[role] > 0 /\ Len(saved[role]) > keep[role]  \* mutant: one too many is kept
Full == keep[role] > 0 /\ Len(saved[role]) >= keep[role]

KeepStartOff == Len(saved[role]) - keep[role] + 2            \* mutant: removes one too many
KeepStart == Len(saved[role]) - keep[role] + 1

Rotated ==
  {saved[role][i] : i \in {i \in DOMAIN saved[role] : Full /\ i <= KeepStart}}

Without(files) ==
  [s \in Steps |-> [disk[s] EXCEPT ![role] =
     [k \in Ranks |-> IF <<s, k>> \in files THEN Missing ELSE @[k]]]]

\* Rank 0 removes the oldest checkpoints of its role before anything is written.
Rotate ==
  /\ pc = "rotate"
  /\ disk' = Without(Rotated \X Ranks)
  /\ saved' = IF Full THEN [saved EXCEPT ![role] = SubSeq(@, KeepStart + 1, Len(@))] ELSE saved
  /\ pc' = "write" /\ todo' = Ranks
  /\ UNCHANGED <<config, expiring, life, role, loopVars, data, tracker>>

WriteShard(k) ==
  /\ pc = "write" /\ k \in todo
  /\ disk' = [disk EXCEPT ![globalStep][role][k] = weights[role][k]]
  /\ todo' = todo \ {k}
  /\ UNCHANGED <<config, expiring, life, pc, role, loopVars, saved, data, tracker>>

NoBarrier == Cardinality(todo) < Cardinality(Ranks)          \* mutant: goes on with the first rank
Barrier == todo = {}

RoleSaved ==
  /\ pc = "write" /\ Barrier
  /\ saved' = [saved EXCEPT ![role] = Append(@, globalStep)]
  /\ IF role < Len(Roles) THEN role' = role + 1 /\ pc' = "rotate"
                          ELSE role' = 1 /\ pc' = "data"
  /\ todo' = {}
  /\ UNCHANGED <<config, expiring, life, loopVars, fileVars>>

SaveData ==
  /\ pc = "data" /\ data' = [data EXCEPT ![globalStep] = yielded]
  /\ pc' = "tracker"
  /\ UNCHANGED <<config, expiring, life, role, todo, loopVars, saved, disk, tracker>>

WriteTracker ==
  /\ pc = "tracker" /\ tracker' = globalStep /\ pc' = "log"
  /\ UNCHANGED <<config, expiring, life, role, todo, loopVars, saved, disk, data>>

(***************************************************************************)
(* A crash, or a later launch of a job that ended: files being removed or  *)
(* written are left as they are, and the process' state is lost.           *)
(***************************************************************************)
Damaged ==
  \/ pc \in {"load", "train", "log", "ended", "failed"} /\ UNCHANGED fileVars
  \/ /\ pc = "rotate"
     /\ \E files \in SUBSET (Rotated \X Ranks) : disk' = Without(files)
     /\ UNCHANGED <<data, tracker>>
  \/ /\ pc = "write"
     /\ \E open \in SUBSET todo :
          disk' = [disk EXCEPT ![globalStep][role] =
                     [k \in Ranks |-> IF k \in open THEN Torn ELSE @[k]]]
     /\ UNCHANGED <<data, tracker>>
  \/ /\ pc = "data" /\ data' \in {data, [data EXCEPT ![globalStep] = Torn]}
     /\ UNCHANGED <<disk, tracker>>
  \/ pc = "tracker" /\ tracker' \in {tracker, Torn} /\ UNCHANGED <<disk, data>>

Crash ==
  /\ life <= MaxCrashes /\ Damaged
  /\ life' = life + 1 /\ pc' = "load" /\ role' = 1
  /\ expiring' = FALSE /\ todo' = {}
  /\ globalStep' = 0 /\ epoch' = 0 /\ yielded' = 0 /\ weights' = Fresh(<<>>)
  /\ saved' = [n \in DOMAIN Roles |-> <<>>] /\ UNCHANGED config

Stopped == pc \in {"ended", "failed"} /\ UNCHANGED vars

Work ==
  \/ FromScratch \/ Unloadable \/ Restore
  \/ \E close \in BOOLEAN : TrainStep(close)
  \/ StepEnds \/ NextEpoch \/ LoopOver
  \/ Rotate \/ RoleSaved \/ SaveData \/ WriteTracker
  \/ \E k \in Ranks : WriteShard(k)

Next == Work \/ Crash \/ Stopped

Spec == Init /\ [][Next]_vars
FairSpec == Spec /\ WF_vars(Work)

-----------------------------------------------------------------------------
(***************************************************************************)
(* Properties                                                              *)
(***************************************************************************)
Shards == [DOMAIN Roles -> [Ranks -> Lineages \cup {Missing, Torn}]]

TypeOK ==
  /\ override \in Overrides /\ keep \in [DOMAIN Roles -> KeepChoices]
  /\ life \in 1..MaxCrashes + 1
  /\ pc \in {"load", "train", "rotate", "write", "data", "tracker", "log", "ended", "failed"}
  /\ role \in DOMAIN Roles /\ expiring \in BOOLEAN /\ todo \subseteq Ranks
  /\ globalStep \in 0..EpochLength * TotalEpochs + 1 /\ epoch \in 0..TotalEpochs
  /\ yielded \in 0..EpochLength
  /\ weights \in [DOMAIN Roles -> [Ranks -> Lineages]]
  /\ saved \in [DOMAIN Roles -> Seq(Steps)]
  /\ disk \in [Steps -> Shards]
  /\ data \in [Steps -> 0..EpochLength \cup {Missing, Torn}]
  /\ tracker \in Steps \cup {Missing, Torn}

\* No role keeps a single checkpoint: with max_ckpt_to_keep = 1, rank 0 removes
\* the checkpoint the tracker names before the next one is written, and a crash
\* in between leaves nothing to resume from.
KeepsTwo == \A n \in DOMAIN Roles : keep[n] # 1

\* The position after the first i batches of a lineage.
Reached(lineage, i) == IF i = 0 THEN 0 ELSE lineage[i][2] + 1

\* Whatever the crashes, a tracker that can be read names a checkpoint that can
\* be resumed from: every rank's shard of every role is whole, all of them were
\* trained on the same batches in the same lives, as many as the step says, and
\* data.pt is at the position the last of those batches reached in its epoch.
TrackerWhole ==
  KeepsTwo /\ Readable(tracker) =>
    \E lineage \in {disk[tracker][1][k] : k \in Ranks} :
      /\ Readable(lineage) /\ Len(lineage) = tracker
      /\ \A n \in DOMAIN Roles : \A k \in Ranks : disk[tracker][n][k] = lineage
      /\ data[tracker] = Reached(lineage, tracker)

\* The weights of every rank come of whole passes over the data and a last one that
\* may be under way: whatever the crashes, batch i is at its place in its pass, none
\* repeated and none left out.
PassesWhole ==
  \A n \in DOMAIN Roles : \A k \in Ranks :
    \A i \in DOMAIN weights[n][k] : weights[n][k][i][2] = (i - 1) % EpochLength

\* The loop may be an epoch ahead of the passes made: resumed with an exhausted
\* dataloader it may find an epoch empty.  It is never two ahead, however many
\* launches were resumed like that, so a training that runs out of epochs has made
\* all its passes but one, or all.
OneEpochEmpty ==
  \A n \in DOMAIN Roles : \A k \in Ranks :
    EpochLength * epoch <= Len(weights[n][k]) + EpochLength

\* What was trained on is in order and, but for one epoch, complete.
InOrder == PassesWhole /\ OneEpochEmpty

\* A crash costs less than SaveFreq steps: while the loop runs, and when it is over,
\* the tracker (or the start of training) is that close behind the last step.
LossBounded ==
  pc \in {"train", "ended"} /\ tracker # Torn =>
    globalStep - 1 < (IF tracker = Missing THEN 0 ELSE tracker) + SaveFreq

\* A run that took its last step has its final weights in the checkpoint the tracker
\* names.  (One whose epochs were used up before that step has not, LossBounded says.)
FinalSaved == pc = "ended" /\ globalStep > TotalSteps => tracker = globalStep - 1

\* The first launch trains total_training_steps at most, and a later one, which finds
\* the last step done but batches left if the total was overridden, one step more.
OneMorePerLaunch == globalStep - 1 <= TotalSteps + life - 1

\* The work of a launch is on disk in time, at the save frequency and at the end, and
\* a finished run is not trained on but for one step of each later launch.
SavedInTime == LossBounded /\ FinalSaved /\ OneMorePerLaunch

\* What this launch trained on and wrote: its shards end with a batch of this life.
OfThisLaunch(shard) == Readable(shard) /\ Len(shard) > 0 /\ shard[Len(shard)][1] = life

\* "Rotates old checkpoints, keeping at most max_ckpt_to_keep" (docstring of
\* save_checkpoint) is true of each launch by itself: of the checkpoints it wrote no
\* role has more on disk.  It is not true of the directory: a launch does not know of
\* the checkpoints that earlier ones wrote, and they stay.
RotationBounded ==
  \A n \in DOMAIN Roles : keep[n] > 0 =>
    Cardinality({s \in Steps : \E k \in Ranks : OfThisLaunch(disk[s][n][k])}) <= keep[n]

\* Once the crashes and launches stop the training has ended, unless one of them tore the tracker:
\* the file is opened with "w", so a crash before it is flushed leaves it empty
\* and no later launch gets past int('').
EndsUnlessTorn == KeepsTwo => <>[](pc = "ended" \/ tracker = Torn)
=============================================================================
