----------------------- MODULE TrainerCheckpoint_proofs -----------------------
(***************************************************************************)
(* For every number of ranks, steps, epochs, launches and checkpoints to   *)
(* keep, and every total_training_steps: training goes through the data in *)
(* order, but for one epoch; the checkpoint a readable tracker names is    *)
(* whole and less than SaveFreq steps behind; a finished run is trained on *)
(* for a step a launch at most; and no launch has more of its own          *)
(* checkpoints on disk than it may keep.                                   *)
(***************************************************************************)
EXTENDS TrainerCheckpoint, FiniteSetTheorems, TLAPS

Running == pc \in {"train", "rotate", "write", "data", "tracker", "log"}
Saving == pc \in {"rotate", "write", "data", "tracker"}

\* The position of the batch after one position of the dataloader.
Following(position) == IF position = EpochLength THEN 0 ELSE position

\* A lineage of s batches, each at its place in its pass over the data.
Ordered(lineage) ==
  \A i \in DOMAIN lineage : lineage[i][2] = (i - 1) % EpochLength
Good(lineage, s) == lineage \in Lineages /\ Len(lineage) = s /\ Ordered(lineage)

Done == IF pc = "train" THEN globalStep - 1 ELSE globalStep

Typed ==
  /\ override \in Nat /\ keep \in [DOMAIN Roles -> Nat] /\ life \in 1..MaxCrashes + 1
  /\ pc \in {"load", "train", "rotate", "write", "data", "tracker", "log", "ended", "failed"}
  /\ role \in DOMAIN Roles /\ todo \subseteq Ranks
  /\ globalStep \in Nat /\ epoch \in Nat /\ yielded \in 0..EpochLength
  /\ weights \in [DOMAIN Roles -> [Ranks -> Lineages]]
  /\ saved \in [DOMAIN Roles -> Seq(Steps)]
  /\ disk \in [Steps -> Shards]
  /\ data \in [Steps -> 0..EpochLength \cup {Missing, Torn}]
  /\ tracker \in Steps \cup {Missing, Torn}

\* The driver's own state: where it is, and one lineage for every rank and role.
InLoop ==
  /\ pc \notin {"rotate", "write"} => role = 1
  /\ Saving \/ pc = "log" => globalStep \in Steps
  /\ pc = "train" => globalStep > 0
  /\ Running /\ Readable(tracker) => tracker <= globalStep /\ (pc # "log" => tracker < globalStep)
  /\ pc = "load" => /\ yielded = 0 /\ epoch = 0 /\ weights = Fresh(<<>>)
                    /\ saved = [n \in DOMAIN Roles |-> <<>>]
SameWeights ==
  Running => \E lineage \in Lineages :
    /\ Good(lineage, Done) /\ weights = Fresh(lineage)
    /\ \/ yielded = Reached(lineage, Done)
       \/ pc = "train" /\ yielded = 0 /\ Reached(lineage, Done) = EpochLength
StoppedOrdered == \A n \in DOMAIN Roles : \A k \in Ranks : Ordered(weights[n][k])

\* The place the loop is at in the epochs: that of the steps done, or an epoch ahead.
InEpoch == Running => EpochLength * epoch + yielded \in {Done, Done + EpochLength}
Passes == InEpoch /\ OneEpochEmpty

\* What the save in progress has written so far.
Appended(n) == pc \in {"data", "tracker", "log"} \/ (pc \in {"rotate", "write"} /\ n < role)
Writing ==
  /\ Saving => \A n \in DOMAIN Roles : \A k \in Ranks :
       Appended(n) \/ (pc = "write" /\ n = role /\ k \notin todo)
         => disk[globalStep][n][k] = weights[n][k]
  /\ pc = "tracker" => data[globalStep] = yielded

\* The tracked checkpoint is never among those the next rotation removes.
Protected ==
  /\ Running => \A n \in DOMAIN Roles : \A i \in DOMAIN saved[n] :
       /\ saved[n][i] <= globalStep
       /\ ~Appended(n) => saved[n][i] < globalStep
       /\ i < Len(saved[n]) => saved[n][i] < globalStep
       /\ (~Appended(n) \/ pc = "log") /\ i < Len(saved[n]) => saved[n][i] # tracker

\* The tracked checkpoint: with one checkpoint to keep, shards may be missing.
Tracked ==
  Readable(tracker) => \E lineage \in Lineages :
    /\ Good(lineage, tracker) /\ data[tracker] = Reached(lineage, tracker)
    /\ \A n \in DOMAIN Roles : \A k \in Ranks :
         \/ disk[tracker][n][k] = lineage
         \/ disk[tracker][n][k] = Missing /\ ~KeepsTwo

Inv == Typed /\ InLoop /\ SameWeights /\ StoppedOrdered /\ Passes /\ Writing /\ Protected /\ Tracked

-----------------------------------------------------------------------------
(***************************************************************************)
(* Constants, lineages and files                                           *)
(***************************************************************************)
LEMMA RoleNumbers ==
  /\ Len(Roles) \in {1, 2} /\ DOMAIN Roles = 1..Len(Roles)
  /\ 1 \in DOMAIN Roles /\ DOMAIN Roles \subseteq Nat
PROOF
  <1>1. CASE UseCritic
    BY <1>1 DEF Roles
  <1>2. CASE ~UseCritic
    BY <1>2 DEF Roles
  <1> QED
    BY <1>1, <1>2

\* The steps the epochs have batches for, and the epoch a step is in.
LEMMA StepNumbers ==
  /\ EpochLength \in Nat \ {0} /\ TotalEpochs \in Nat \ {0}
  /\ EpochLength * TotalEpochs \in Nat \ {0} /\ Steps \subseteq Nat \ {0}
  /\ \A s \in Nat : s \in Steps <=> 1 <= s /\ s <= EpochLength * TotalEpochs
  /\ \A s \in Steps : s \div EpochLength \in Nat /\ s \div EpochLength <= TotalEpochs
PROOF
  <1>1. EpochLength \in Nat \ {0} /\ TotalEpochs \in Nat \ {0}
    BY CheckpointAssumption
  <1>2. \A a \in Nat \ {0}, b \in Nat \ {0} : a * b \in Nat \ {0}
    OBVIOUS
  <1>3. EpochLength * TotalEpochs \in Nat \ {0}
    BY <1>1, <1>2
  <1>4. \A s \in Nat : s \div EpochLength \in Nat
    BY <1>1
  <1>5. /\ Steps \subseteq Nat \ {0}
        /\ \A s \in Nat : s \in Steps <=> 1 <= s /\ s <= EpochLength * TotalEpochs
    BY <1>3 DEF Steps
  <1>6. \A a \in Nat \ {0}, b \in Nat \ {0}, s \in Nat : s <= a * b => s \div a <= b
    OBVIOUS
  <1>7. \A s \in Nat : s <= EpochLength * TotalEpochs => s \div EpochLength <= TotalEpochs
    BY <1>1, <1>6
  <1> QED
    BY <1>1, <1>3, <1>4, <1>5, <1>7

\* Division: a step's place in its epoch, and that of the next.
LEMMA Division ==
  ASSUME NEW a \in Nat \ {0}, NEW s \in Nat
  PROVE  /\ s % a \in 0..a - 1 /\ s \div a \in Nat /\ s = a * (s \div a) + (s % a)
         /\ (s + 1) % a = IF (s % a) + 1 = a THEN 0 ELSE (s % a) + 1
PROOF
  <1>1. \A q \in Nat, r \in Nat : r < a => (a * q + r) % a = r
    OBVIOUS
  <1>2. /\ s \div a \in Nat /\ s % a \in 0..a - 1 /\ s = a * (s \div a) + (s % a)
        /\ a * (s \div a + 1) = a * (s \div a) + a
    OBVIOUS
  <1> DEFINE q == s \div a
             r == s % a
  <1>3. /\ q \in Nat /\ r \in Nat /\ r < a /\ s = a * q + r /\ a * (q + 1) = a * q + a
        /\ a * q \in Nat
    BY <1>2
  <1> SUFFICES (s + 1) % a = IF r + 1 = a THEN 0 ELSE r + 1
    BY <1>2
  <1> HIDE DEF q, r
  <1>4. CASE r + 1 = a
    <2>1. s + 1 = a * (q + 1) + 0 /\ q + 1 \in Nat
      BY <1>3, <1>4
    <2>2. (s + 1) % a = 0
      BY <1>1, <2>1
    <2> QED
      BY <1>4, <2>2
  <1>5. CASE r + 1 # a
    <2>1. s + 1 = a * q + (r + 1) /\ r + 1 \in Nat /\ r + 1 < a
      BY <1>3, <1>5
    <2>2. (s + 1) % a = r + 1
      BY <1>1, <1>3, <2>1
    <2> QED
      BY <1>5, <2>2
  <1> QED
    BY <1>4, <1>5

\* What the place in the epochs says of a step.
LEMMA Places ==
  /\ \A s \in Nat : /\ s % EpochLength \in 0..EpochLength - 1 /\ s \div EpochLength \in Nat
                     /\ s = EpochLength * (s \div EpochLength) + (s % EpochLength)
                     /\ (s + 1) % EpochLength
                          = IF (s % EpochLength) + 1 = EpochLength THEN 0 ELSE (s % EpochLength) + 1
  /\ \A e \in Nat : /\ EpochLength * e \in Nat /\ EpochLength * (e + 1) = EpochLength * e + EpochLength
                     /\ e < TotalEpochs => EpochLength * e + EpochLength <= EpochLength * TotalEpochs
  /\ EpochLength * 0 = 0 /\ 0 % EpochLength = 0
PROOF
  <1>1. EpochLength \in Nat \ {0} /\ TotalEpochs \in Nat \ {0}
    BY CheckpointAssumption
  <1>2. \A s \in Nat : /\ s % EpochLength \in 0..EpochLength - 1 /\ s \div EpochLength \in Nat
                        /\ s = EpochLength * (s \div EpochLength) + (s % EpochLength)
                        /\ (s + 1) % EpochLength
                             = IF (s % EpochLength) + 1 = EpochLength THEN 0 ELSE (s % EpochLength) + 1
    BY <1>1, Division
  <1>4. \A a \in Nat \ {0}, e \in Nat : a * e \in Nat /\ a * (e + 1) = a * e + a
    OBVIOUS
  <1>5. \A a \in Nat \ {0}, b \in Nat, e \in Nat : e < b => a * e + a <= a * b
    OBVIOUS
  <1>6. \A a \in Nat \ {0} : a * 0 = 0 /\ 0 % a = 0
    OBVIOUS
  <1> QED
    BY <1>1, <1>2, <1>4, <1>5, <1>6

LEMMA FreshWeights ==
  ASSUME NEW value
  PROVE  \A n \in DOMAIN Roles : \A k \in Ranks : Fresh(value)[n][k] = value
  BY DEF Fresh

\* The place of the next batch follows the position reached.
LEMMA NextPlace ==
  ASSUME NEW w, NEW s \in Nat, Good(w, s)
  PROVE  Following(Reached(w, s)) = s % EpochLength
PROOF
  <1>1. CASE s = 0
    BY <1>1, Places, StepNumbers DEF Following, Reached
  <1>2. CASE s > 0
    <2>1. s \in DOMAIN w /\ w[s][2] = (s - 1) % EpochLength
      BY <1>2 DEF Good, Ordered, Lineages
    <2>2. s - 1 \in Nat /\ s - 1 + 1 = s
      BY <1>2
    <2>3. s % EpochLength = IF ((s - 1) % EpochLength) + 1 = EpochLength THEN 0
                            ELSE ((s - 1) % EpochLength) + 1
      BY <2>2, Places
    <2> QED
      BY <1>2, <2>1, <2>3 DEF Following, Reached
  <1> QED
    BY <1>1, <1>2

\* A batch that follows the last one extends a lineage.
LEMMA OneMoreBatch ==
  ASSUME NEW w, NEW s \in Nat, Good(w, s), NEW l \in 1..MaxCrashes + 1,
         NEW p \in 0..EpochLength - 1, p = Following(Reached(w, s))
  PROVE  /\ Append(w, <<l, p>>) \in Lineages /\ Good(Append(w, <<l, p>>), s + 1)
         /\ Reached(Append(w, <<l, p>>), s + 1) = p + 1
PROOF
  <1> DEFINE Batch == (1..MaxCrashes + 1) \X (0..EpochLength - 1)
             e == <<l, p>>
             v == Append(w, e)
  <1>1. /\ w \in Seq(Batch) /\ Len(w) = s /\ e \in Batch /\ e[2] = p
        /\ p = s % EpochLength
    BY NextPlace DEF Good, Lineages
  <1> HIDE DEF Batch, e
  <1>2. /\ v \in Seq(Batch) /\ Len(v) = s + 1 /\ DOMAIN v = 1..(s + 1) /\ DOMAIN w = 1..s
        /\ v[s + 1] = e /\ \A i \in 1..s : v[i] = w[i]
    BY <1>1
  <1> HIDE DEF v
  <1>4. ASSUME NEW i \in DOMAIN v PROVE v[i][2] = (i - 1) % EpochLength
    <2>1. CASE i = s + 1
      <3>1. i - 1 = s
        BY <2>1
      <3> QED
        BY <1>1, <1>2, <2>1, <3>1
    <2>2. CASE i # s + 1
      <3>1. i \in 1..s /\ v[i] = w[i]
        BY <1>2, <2>2
      <3> QED
        BY <1>2, <3>1 DEF Good, Ordered
    <2> QED
      BY <2>1, <2>2
  <1>5. Reached(v, s + 1) = p + 1
    BY <1>1, <1>2 DEF Reached
  <1>6. v \in Lineages
    BY <1>2 DEF Batch, Lineages
  <1>7. Good(v, s + 1)
    BY <1>2, <1>4, <1>6 DEF Good, Ordered
  <1> QED
    BY <1>5, <1>6, <1>7 DEF v, e

\* The position a lineage has reached is one of its epoch.
LEMMA ReachedRange ==
  ASSUME NEW w, NEW s \in Nat, Good(w, s)
  PROVE  /\ Reached(w, s) \in 0..EpochLength
         /\ s > 0 => Reached(w, s) \in 1..EpochLength
PROOF
  <1>1. EpochLength \in Nat \ {0}
    BY CheckpointAssumption
  <1>2. CASE s = 0
    BY <1>1, <1>2 DEF Reached
  <1>3. CASE s > 0
    <2>1. w[s] \in (1..MaxCrashes + 1) \X (0..EpochLength - 1)
      BY <1>3 DEF Good, Lineages
    <2>2. w[s][2] \in 0..EpochLength - 1
      BY <2>1
    <2> QED
      BY <1>1, <1>3, <2>2 DEF Reached
  <1> QED
    BY <1>2, <1>3

\* What was read from a whole file is a lineage or a position.
LEMMA FileContents ==
  /\ \A w \in Lineages : Readable(w)
  /\ \A s \in Nat : Readable(s)
  BY FileAssumption DEF Readable

-----------------------------------------------------------------------------
\* The tracked checkpoint survives a step that touches only other files, or, when
\* a single checkpoint is kept, loses shards.
LEMMA TrackedKept ==
  ASSUME Tracked, Typed, keep' = keep, tracker' = tracker,
         Readable(tracker) => data'[tracker] = data[tracker],
         Readable(tracker) => \A n \in DOMAIN Roles : \A k \in Ranks :
           \/ disk'[tracker][n][k] = disk[tracker][n][k]
           \/ disk'[tracker][n][k] = Missing /\ ~KeepsTwo
  PROVE  Tracked'
PROOF
  <1>1. KeepsTwo' = KeepsTwo
    BY DEF KeepsTwo
  <1>2. CASE ~Readable(tracker)
    BY <1>2 DEF Tracked, Readable
  <1>3. CASE Readable(tracker)
    <2>1. PICK w \in Lineages :
            /\ Good(w, tracker) /\ data[tracker] = Reached(w, tracker)
            /\ \A n \in DOMAIN Roles : \A k \in Ranks :
                 \/ disk[tracker][n][k] = w
                 \/ disk[tracker][n][k] = Missing /\ ~KeepsTwo
      BY <1>3 DEF Tracked
    <2>2. \A n \in DOMAIN Roles : \A k \in Ranks :
                 \/ disk'[tracker][n][k] = w
                 \/ disk'[tracker][n][k] = Missing /\ ~KeepsTwo
      BY <1>3, <2>1
    <2>3. data'[tracker] = Reached(w, tracker)
      BY <1>3, <2>1
    <2> QED
      BY <1>1, <2>1, <2>2, <2>3 DEF Tracked, Readable
  <1> QED
    BY <1>2, <1>3

\* Removing files of a rotation touches neither another role nor, unless a single
\* checkpoint is kept, the tracked checkpoint, nor the step being saved.
LEMMA RemovalSpares ==
  ASSUME Inv, pc = "rotate", NEW files \in SUBSET (Rotated \X Ranks)
  PROVE  /\ Without(files) \in [Steps -> Shards]
         /\ \A s \in Steps, n \in DOMAIN Roles, k \in Ranks :
              /\ n # role => Without(files)[s][n][k] = disk[s][n][k]
              /\ Without(files)[s][n][k] \in {disk[s][n][k], Missing}
              /\ Readable(tracker) /\ s = tracker /\ KeepsTwo
                   => Without(files)[s][n][k] = disk[s][n][k]
PROOF
  <1> DEFINE gone(s) == [k \in Ranks |-> IF <<s, k>> \in files THEN Missing ELSE disk[s][role][k]]
  <1>1. /\ role \in DOMAIN Roles /\ disk \in [Steps -> Shards]
        /\ saved[role] \in Seq(Steps) /\ keep[role] \in Nat
    BY DEF Inv, Typed
  <1>2. \A s \in Steps : /\ Without(files)[s] = [disk[s] EXCEPT ![role] = gone(s)]
                         /\ disk[s] \in Shards
    BY <1>1 DEF Without
  <1>3. \A s \in Steps : gone(s) \in [Ranks -> Lineages \cup {Missing, Torn}]
    BY <1>1, <1>2 DEF Shards
  <1>4. \A s \in Steps : Without(files)[s] \in Shards
    BY <1>2, <1>3 DEF Shards
  <1>5. Without(files) \in [Steps -> Shards]
    BY <1>4 DEF Without
  <1>6. ASSUME NEW s \in Steps, NEW n \in DOMAIN Roles, NEW k \in Ranks, n # role
        PROVE  Without(files)[s][n][k] = disk[s][n][k]
    BY <1>2, <1>6 DEF Shards
  <1>7. ASSUME NEW s \in Steps, NEW k \in Ranks
        PROVE  Without(files)[s][role][k] = IF <<s, k>> \in files THEN Missing ELSE disk[s][role][k]
    <2>1. Without(files)[s][role] = gone(s)
      BY <1>1, <1>2 DEF Shards
    <2> QED
      BY <2>1
  <1>8. ASSUME NEW k \in Ranks, Readable(tracker), KeepsTwo PROVE <<tracker, k>> \notin files
    <2>1. SUFFICES ASSUME tracker \in Rotated PROVE FALSE
      OBVIOUS
    <2>2. PICK i \in DOMAIN saved[role] : Full /\ i <= KeepStart /\ saved[role][i] = tracker
      BY <2>1 DEF Rotated
    <2>3. keep[role] > 0 /\ keep[role] # 1
      BY <1>1, <1>8, <2>2 DEF Full, KeepsTwo
    <2>4. i < Len(saved[role])
      BY <1>1, <2>2, <2>3 DEF KeepStart
    <2>5. Running /\ ~Appended(role)
      <3>1. role \in Nat
        BY <1>1, RoleNumbers
      <3> QED
        BY <3>1 DEF Running, Appended
    <2> QED
      BY <1>1, <2>2, <2>4, <2>5 DEF Inv, Protected
  <1>9. ASSUME NEW s \in Steps, NEW n \in DOMAIN Roles, NEW k \in Ranks
        PROVE  /\ Without(files)[s][n][k] \in {disk[s][n][k], Missing}
               /\ Readable(tracker) /\ s = tracker /\ KeepsTwo
                    => Without(files)[s][n][k] = disk[s][n][k]
    <2>1. CASE n = role
      BY <1>7, <1>8, <2>1
    <2>2. CASE n # role
      BY <1>6, <2>2
    <2> QED
      BY <2>1, <2>2
  <1> QED
    BY <1>5, <1>6, <1>9

-----------------------------------------------------------------------------
(***************************************************************************)
(* Every step keeps the invariant                                          *)
(***************************************************************************)
LEMMA SavedNumbers ==
  ASSUME Inv
  PROVE  \A n \in DOMAIN Roles : /\ saved[n] \in Seq(Steps) /\ Len(saved[n]) \in Nat
                                 /\ DOMAIN saved[n] = 1..Len(saved[n])
                                 /\ \A i \in DOMAIN saved[n] : saved[n][i] \in Nat
PROOF
  <1> SUFFICES ASSUME NEW n \in DOMAIN Roles
               PROVE  /\ saved[n] \in Seq(Steps) /\ Len(saved[n]) \in Nat
                      /\ DOMAIN saved[n] = 1..Len(saved[n])
                      /\ \A i \in DOMAIN saved[n] : saved[n][i] \in Nat
    OBVIOUS
  <1>1. saved[n] \in Seq(Steps)
    BY DEF Inv, Typed
  <1>2. \A i \in DOMAIN saved[n] : saved[n][i] \in Steps
    BY <1>1
  <1>3. Len(saved[n]) \in Nat /\ DOMAIN saved[n] = 1..Len(saved[n])
    BY <1>1
  <1>4. \A i \in DOMAIN saved[n] : saved[n][i] \in Nat
    BY <1>2, StepNumbers
  <1> QED
    BY <1>1, <1>3, <1>4

LEMMA InitInv == Init => Inv
PROOF
  <1> SUFFICES ASSUME Init PROVE Inv
    OBVIOUS
  <1> USE DEF Init
  <1>1. <<>> \in Lineages
    BY DEF Lineages
  <1>2. Typed
    <2>1. override \in Nat /\ keep \in [DOMAIN Roles -> Nat]
      BY CheckpointAssumption
    <2>5. life \in 1..MaxCrashes + 1
      BY CheckpointAssumption
    <2>2. role \in DOMAIN Roles /\ yielded \in 0..EpochLength
      BY RoleNumbers, CheckpointAssumption
    <2>3. weights \in [DOMAIN Roles -> [Ranks -> Lineages]]
      BY <1>1 DEF Fresh
    <2>4. disk \in [Steps -> Shards]
      BY DEF Fresh, Shards
    <2> QED
      BY <2>1, <2>2, <2>3, <2>4, <2>5 DEF Typed
  <1>3. StoppedOrdered
    BY FreshWeights DEF StoppedOrdered, Ordered
  <1>4. ~Readable(tracker) /\ ~Running /\ ~Saving
    BY DEF Readable, Running, Saving
  <1>5. Passes
    <2>1. \A n \in DOMAIN Roles : \A k \in Ranks : Len(weights[n][k]) = 0
      BY FreshWeights
    <2>2. EpochLength * epoch = 0 /\ EpochLength \in Nat
      BY Places, StepNumbers
    <2> QED
      BY <1>4, <2>1, <2>2 DEF Passes, InEpoch, OneEpochEmpty
  <1> QED
    BY <1>2, <1>3, <1>4, <1>5 DEF Inv, InLoop, SameWeights, Writing, Protected, Tracked

\* A step that leaves the files, and stops the loop or has none to stop.
LEMMA StepsOutOfLoop ==
  ASSUME Inv, Unloadable \/ LoopOver \/ UNCHANGED vars
  PROVE  Inv'
PROOF
  <1>1. CASE UNCHANGED vars
    BY <1>1 DEF Inv, vars, config, loopVars, fileVars, Passes, InEpoch, OneEpochEmpty, Typed, InLoop, SameWeights, StoppedOrdered, Writing,
      Protected, Tracked, Running, Saving, Done, Appended, KeepsTwo, Readable
  <1>2. CASE Unloadable \/ LoopOver
    <2>1. /\ pc' \in {"failed", "ended"} /\ pc \in {"load", "train"}
          /\ UNCHANGED <<override, keep, life, role, todo, globalStep, epoch, yielded, weights, saved, disk, data, tracker>>
      BY <1>2 DEF Unloadable, LoopOver, config, loopVars, fileVars
    <2>2. Typed' /\ InLoop' /\ StoppedOrdered' /\ Passes'
      BY <2>1 DEF Inv, Typed, InLoop, StoppedOrdered, Saving, Running, Passes, InEpoch, OneEpochEmpty
    <2>3. Tracked'
      BY <2>1, TrackedKept DEF Inv
    <2> QED
      BY <2>1, <2>2, <2>3 DEF Inv, SameWeights, Writing, Protected, Running, Saving
  <1> QED
    BY <1>1, <1>2

LEMMA NothingYet ==
  Good(<<>>, 0) /\ Reached(<<>>, 0) = 0
  BY DEF Good, Ordered, Lineages, Reached

\* A launch that starts a loop has written and saved nothing in it.
LEMMA LoopStarts ==
  ASSUME saved' = [n \in DOMAIN Roles |-> <<>>], pc' = "train"
  PROVE  Writing' /\ Protected'
PROOF
  <1>1. \A n \in DOMAIN Roles : DOMAIN saved'[n] = {}
    OBVIOUS
  <1> QED
    BY <1>1 DEF Writing, Protected, Saving

LEMMA FromScratchInv == ASSUME Inv, FromScratch PROVE Inv'
PROOF
  <1> USE DEF FromScratch, config, fileVars
  <1>1. Typed'
    BY DEF Inv, Typed
  <1>2. Tracked' /\ StoppedOrdered' /\ ~Readable(tracker)'
    BY TrackedKept DEF Inv, StoppedOrdered, Readable
  <1>3. InLoop'
    BY <1>2, StepNumbers DEF Inv, InLoop, Saving
  <1>4. SameWeights'
    BY NothingYet DEF Inv, InLoop, SameWeights, Done, Good
  <1>5. Writing' /\ Protected'
    BY LoopStarts DEF Inv, InLoop
  <1>6. Passes'
    <2>1. Done' = 0 /\ EpochLength * epoch' = 0 /\ yielded' = 0 /\ EpochLength \in Nat
      BY Places, StepNumbers DEF Inv, InLoop, Done
    <2>2. InEpoch'
      BY <2>1 DEF InEpoch
    <2>3. \A n \in DOMAIN Roles : \A k \in Ranks : Len(weights'[n][k]) = 0
      BY FreshWeights DEF Inv, InLoop
    <2>4. OneEpochEmpty'
      BY <2>1, <2>3 DEF OneEpochEmpty
    <2> QED
      BY <2>2, <2>4 DEF Passes
  <1> QED
    BY <1>1, <1>2, <1>3, <1>4, <1>5, <1>6 DEF Inv

\* In a loop that is at the right place, the passes made are as many as it is at but one.
LEMMA PlaceGivesPasses ==
  ASSUME NEW w, NEW s \in Nat, Good(w, s), NEW e \in Nat, NEW y \in 0..EpochLength,
         EpochLength * e + y \in {s, s + EpochLength}
  PROVE  \A n \in DOMAIN Roles : \A k \in Ranks : EpochLength * e <= Len(Fresh(w)[n][k]) + EpochLength
PROOF
  <1>1. \A n \in DOMAIN Roles : \A k \in Ranks : Len(Fresh(w)[n][k]) = s
    BY FreshWeights DEF Good
  <1>2. EpochLength * e \in Nat /\ EpochLength \in Nat
    BY Places, StepNumbers
  <1>3. EpochLength * e <= s + EpochLength
    BY <1>2
  <1> QED
    BY <1>1, <1>3

\* The place a resumed loop is at.
LEMMA ResumedPlace ==
  ASSUME NEW w, NEW n \in Nat \ {0}, Good(w, n), NEW y,
         y = Reached(w, n) \/ (y = 0 /\ Reached(w, n) = EpochLength)
  PROVE  n \div EpochLength \in Nat /\ EpochLength * (n \div EpochLength) + y \in {n, n + EpochLength}
PROOF
  <1>1. Following(Reached(w, n)) = n % EpochLength /\ Reached(w, n) \in 1..EpochLength
    BY NextPlace, ReachedRange
  <1>2. /\ n = EpochLength * (n \div EpochLength) + (n % EpochLength)
        /\ n \div EpochLength \in Nat
    BY Places
  <1>3. EpochLength * (n \div EpochLength) \in Nat /\ EpochLength \in Nat \ {0}
    BY <1>2, Places, StepNumbers
  <1> QED
    BY <1>1, <1>2, <1>3 DEF Following

LEMMA RestoreInv == ASSUME Inv, Restore PROVE Inv'
PROOF
  <1> USE DEF Restore, config, fileVars
  <1>1. PICK w \in Lineages :
          /\ Good(w, tracker) /\ data[tracker] = Reached(w, tracker)
          /\ \A n \in DOMAIN Roles : \A k \in Ranks :
               \/ disk[tracker][n][k] = w
               \/ disk[tracker][n][k] = Missing /\ ~KeepsTwo
    BY DEF Inv, Tracked
  <1>2. tracker \in Steps /\ tracker \in Nat \ {0} /\ disk[tracker] \in Shards
    BY StepNumbers DEF Inv, Typed, Readable
  <1>3. \A n \in DOMAIN Roles : \A k \in Ranks : disk[tracker][n][k] = w
    BY <1>1 DEF Loadable, Readable
  <1>4. weights' = Fresh(w)
    BY <1>2, <1>3 DEF Shards, Fresh
  <1>5. Reached(w, tracker) \in 1..EpochLength
    BY <1>1, <1>2, ReachedRange
  <1>6. \/ yielded' = Reached(w, tracker)
        \/ yielded' = 0 /\ Reached(w, tracker) = EpochLength
    <2>1. data[tracker] # Missing
      BY <1>1, <1>5, FileAssumption, CheckpointAssumption
    <2> QED
      BY <1>1, <2>1 DEF ResumedAt
  <1>7. Typed'
    <2>1. weights' \in [DOMAIN Roles -> [Ranks -> Lineages]]
      BY <1>1, <1>4 DEF Fresh
    <2>2. yielded' \in 0..EpochLength
      BY <1>5, <1>6, CheckpointAssumption
    <2>3. globalStep' \in Nat /\ epoch' \in Nat
      BY <1>2, StepNumbers
    <2> QED
      BY <2>1, <2>2, <2>3 DEF Inv, Typed
  <1>8. InLoop'
    BY <1>2 DEF Inv, InLoop, Saving
  <1>9. SameWeights' /\ StoppedOrdered'
    <2>1. globalStep' - 1 = tracker
      BY <1>2
    <2>2. SameWeights'
      BY <1>1, <1>4, <1>6, <2>1 DEF SameWeights, Done, Good, Reached, Ordered
    <2>3. StoppedOrdered'
      BY <1>1, <1>4, FreshWeights DEF StoppedOrdered, Good
    <2> QED
      BY <2>2, <2>3
  <1>10. Tracked'
    BY TrackedKept DEF Inv
  <1>11. Writing' /\ Protected'
    BY LoopStarts DEF Inv, InLoop
  <1>12. Passes'
    <2>1. tracker \div EpochLength \in Nat /\ epoch' = tracker \div EpochLength
      BY <1>1, <1>2, <1>6, ResumedPlace
    <2>2. EpochLength * (tracker \div EpochLength) + yielded' \in {tracker, tracker + EpochLength}
      BY <1>1, <1>2, <1>6, ResumedPlace
    <2>3. EpochLength * epoch' + yielded' \in {tracker, tracker + EpochLength}
      BY <2>1, <2>2
    <2>4. Done' = tracker
      BY <1>2 DEF Done
    <2>5. InEpoch'
      BY <2>3, <2>4 DEF InEpoch
    <2>6. OneEpochEmpty'
      BY <1>1, <1>2, <1>4, <1>7, <2>1, <2>3, PlaceGivesPasses DEF Typed, OneEpochEmpty
    <2> QED
      BY <2>5, <2>6 DEF Passes
  <1> QED
    BY <1>7, <1>8, <1>9, <1>10, <1>11, <1>12 DEF Inv

LEMMA NextEpochInv == ASSUME Inv, NextEpoch PROVE Inv'
PROOF
  <1> USE DEF NextEpoch, config, fileVars
  <1>1. yielded = EpochLength
    BY CheckpointAssumption DEF Inv, Typed, Yields
  <1>2. Typed'
    BY CheckpointAssumption DEF Inv, Typed
  <1>3. InLoop'
    BY DEF Inv, InLoop, Saving, Running, Readable
  <1>0. PICK w \in Lineages :
          /\ Good(w, globalStep - 1) /\ weights = Fresh(w)
          /\ \/ yielded = Reached(w, globalStep - 1)
             \/ yielded = 0 /\ Reached(w, globalStep - 1) = EpochLength
    BY DEF Inv, SameWeights, Running, Done
  <1>4. SameWeights'
    <2>2. Reached(w, globalStep - 1) = EpochLength
      BY <1>0, <1>1, CheckpointAssumption
    <2> QED
      BY <1>0, <2>2 DEF SameWeights, Done
  <1>5. Tracked'
    BY TrackedKept DEF Inv
  <1>6. StoppedOrdered' /\ Writing' /\ Protected'
    BY DEF Inv, StoppedOrdered, Writing, Protected, Saving, Running, Appended
  <1>7. Passes'
    <2>1. epoch \in Nat /\ globalStep - 1 \in Nat /\ Done = globalStep - 1 /\ Done' = globalStep - 1
      BY DEF Inv, Typed, InLoop, Done
    <2>2. EpochLength * epoch' + yielded' = EpochLength * epoch + yielded
      BY <1>1, <2>1, Places, StepNumbers
    <2>3. EpochLength * epoch' + yielded' \in {globalStep - 1, globalStep - 1 + EpochLength}
      BY <2>1, <2>2 DEF Inv, Passes, InEpoch, Running
    <2>4. InEpoch'
      BY <2>1, <2>3 DEF InEpoch
    <2>5. OneEpochEmpty'
      BY <1>0, <1>2, <2>1, <2>3, PlaceGivesPasses DEF Typed, OneEpochEmpty
    <2> QED
      BY <2>4, <2>5 DEF Passes
  <1> QED
    BY <1>2, <1>3, <1>4, <1>5, <1>6, <1>7 DEF Inv

LEMMA TrainStepInv == ASSUME Inv, NEW close \in BOOLEAN, TrainStep(close) PROVE Inv'
PROOF
  <1> DEFINE e == <<life, yielded>>
  <1>1. /\ pc = "train" /\ epoch < TotalEpochs /\ yielded < EpochLength
        /\ weights' = [n \in DOMAIN Roles |-> [k \in Ranks |-> Append(weights[n][k], e)]]
        /\ yielded' = yielded + 1 /\ pc' \in {"rotate", "log"}
        /\ UNCHANGED <<override, keep, life, role, todo, globalStep, epoch, saved, disk, data, tracker>>
    BY DEF TrainStep, Yields, config, fileVars
  <1>2. /\ globalStep \in Nat /\ globalStep > 0 /\ globalStep - 1 \in Nat
        /\ globalStep - 1 + 1 = globalStep
        /\ epoch \in Nat /\ yielded \in 0..EpochLength - 1 /\ role = 1
        /\ Done = globalStep - 1 /\ Done' = globalStep
    <2>1. globalStep \in Nat /\ globalStep > 0 /\ epoch \in Nat /\ yielded \in 0..EpochLength /\ role = 1
      BY <1>1 DEF Inv, Typed, InLoop
    <2>2. Done = globalStep - 1 /\ Done' = globalStep
      BY <1>1 DEF Done
    <2> QED
      BY <1>1, <2>1, <2>2, CheckpointAssumption
  <1>3. PICK w \in Lineages :
          /\ Good(w, globalStep - 1) /\ weights = Fresh(w)
          /\ \/ yielded = Reached(w, globalStep - 1)
             \/ yielded = 0 /\ Reached(w, globalStep - 1) = EpochLength
    BY <1>1 DEF Inv, SameWeights, Running, Done
  <1>4. yielded = Following(Reached(w, globalStep - 1))
    BY <1>2, <1>3, CheckpointAssumption DEF Following
  <1> DEFINE v == Append(w, e)
  <1>5. v \in Lineages /\ Good(v, globalStep) /\ Reached(v, globalStep) = yielded + 1
    <2>1. life \in 1..MaxCrashes + 1
      BY <1>2 DEF Inv, Typed
    <2> QED
      BY <1>2, <1>3, <1>4, <2>1, OneMoreBatch
  <1>6. weights' = Fresh(v)
    BY <1>1, <1>3 DEF Fresh
  <1> HIDE DEF v, e
  <1>7. Typed'
    <2>1. weights' \in [DOMAIN Roles -> [Ranks -> Lineages]]
      BY <1>5, <1>6 DEF Fresh
    <2>2. yielded' \in 0..EpochLength
      BY <1>1, <1>2, CheckpointAssumption
    <2>3. pc' \in {"rotate", "log"}
      BY <1>1
    <2> QED
      BY <1>1, <2>1, <2>2, <2>3 DEF Inv, Typed
  \* The place in the epochs: a step of the epoch at hand, and so one they have.
  <1>14. /\ EpochLength * epoch + yielded \in {globalStep - 1, globalStep - 1 + EpochLength}
         /\ EpochLength * epoch \in Nat /\ EpochLength \in Nat
         /\ EpochLength * epoch + EpochLength <= EpochLength * TotalEpochs
    BY <1>1, <1>2, Places, StepNumbers DEF Inv, Passes, InEpoch, Running
  <1>15. globalStep \in Steps
    <2>1. EpochLength * TotalEpochs \in Nat
      BY StepNumbers
    <2>2. globalStep - 1 <= EpochLength * epoch + yielded
      BY <1>2, <1>14
    <2>3. globalStep <= EpochLength * TotalEpochs
      BY <1>1, <1>2, <1>14, <2>1, <2>2
    <2> QED
      BY <1>2, <2>3, StepNumbers
  <1>8. InLoop'
    <2>1. Readable(tracker) => tracker < globalStep /\ tracker \in Nat
      BY <1>1, StepNumbers DEF Inv, InLoop, Typed, Running, Readable
    <2>2. Readable(tracker)' => tracker' < globalStep' /\ tracker' <= globalStep'
      BY <1>1, <1>2, <2>1 DEF Readable
    <2>3. pc' # "load" /\ role' = 1 /\ pc' # "train"
      BY <1>1, <1>2
    <2> QED
      BY <1>1, <1>15, <2>2, <2>3 DEF InLoop
  <1>9. SameWeights'
    BY <1>1, <1>2, <1>5, <1>6 DEF SameWeights
  <1>10. StoppedOrdered'
    BY <1>5, <1>6, FreshWeights DEF StoppedOrdered, Good
  <1>11. Writing'
    <2>1. pc' = "rotate" => \A n \in DOMAIN Roles : ~Appended(n)'
      BY <1>1, <1>2, RoleNumbers DEF Appended
    <2> QED
      BY <1>1, <2>1 DEF Writing, Saving
  <1>12. Protected'
    <2>1. \A n \in DOMAIN Roles : ~Appended(n)
      BY <1>1, <1>2, RoleNumbers DEF Appended
    <2>2. \A n \in DOMAIN Roles : \A i \in DOMAIN saved[n] :
            /\ saved[n][i] < globalStep /\ saved[n][i] \in Nat
            /\ i < Len(saved[n]) => saved[n][i] # tracker
      BY <1>1, <2>1, SavedNumbers DEF Inv, Protected, Running
    <2>3. \A n \in DOMAIN Roles : \A i \in DOMAIN saved[n] :
            saved[n][i] < globalStep /\ saved[n][i] <= globalStep
      BY <1>2, <2>2
    <2> QED
      BY <1>1, <2>2, <2>3 DEF Protected
  <1>13. Tracked'
    BY <1>1, TrackedKept DEF Inv
  <1>16. Passes'
    <2>1. EpochLength * epoch' + yielded' \in {globalStep, globalStep + EpochLength}
      BY <1>1, <1>2, <1>14
    <2>2. InEpoch'
      BY <1>2, <2>1 DEF InEpoch
    <2>3. epoch' \in Nat /\ yielded' \in 0..EpochLength
      BY <1>7 DEF Typed
    <2>4. OneEpochEmpty'
      BY <1>2, <1>5, <1>6, <2>1, <2>3, PlaceGivesPasses DEF OneEpochEmpty
    <2> QED
      BY <2>2, <2>4 DEF Passes
  <1> QED
    BY <1>7, <1>8, <1>9, <1>10, <1>11, <1>12, <1>13, <1>16 DEF Inv

\* The loop goes on from its step, or ends.
LEMMA StepEndsInv == ASSUME Inv, StepEnds PROVE Inv'
PROOF
  <1>1. /\ pc = "log" /\ pc' \in {"train", "ended"} /\ globalStep' = globalStep + 1
        /\ UNCHANGED <<override, keep, life, role, todo, epoch, yielded, weights, saved, disk, data, tracker>>
    BY DEF StepEnds, config, fileVars
  <1>2. globalStep \in Nat \ {0} /\ role = 1 /\ Done = globalStep /\ Running
        /\ globalStep' - 1 = globalStep
    <2>1. globalStep \in Steps /\ role = 1 /\ Done = globalStep /\ Running
      BY <1>1 DEF Inv, InLoop, Done, Running
    <2> QED
      BY <1>1, <2>1, StepNumbers
  <1>3. pc' = "train" => Done' = globalStep
    BY <1>1, <1>2 DEF Done
  <1>4. pc' # "train" => ~Running'
    BY <1>1 DEF Running
  <1>5. Typed'
    BY <1>1, <1>2 DEF Inv, Typed
  <1>6. InLoop'
    <2>1. Readable(tracker) => tracker <= globalStep /\ tracker \in Nat
      BY <1>2, StepNumbers DEF Inv, InLoop, Typed, Readable
    <2>2. Readable(tracker)' => tracker' < globalStep' /\ tracker' <= globalStep'
      BY <1>1, <1>2, <2>1 DEF Readable
    <2> QED
      BY <1>1, <1>2, <2>2 DEF InLoop, Saving
  <1>7. SameWeights' /\ StoppedOrdered'
    BY <1>1, <1>2, <1>3, <1>4 DEF Inv, SameWeights, StoppedOrdered
  <1>8. Passes'
    BY <1>1, <1>2, <1>3, <1>4 DEF Inv, Passes, InEpoch, OneEpochEmpty
  <1>9. Writing' /\ Tracked'
    BY <1>1, TrackedKept DEF Inv, Writing, Saving
  <1>10. Protected'
    <2>1. ASSUME NEW n \in DOMAIN Roles, NEW i \in DOMAIN saved[n]
          PROVE  /\ saved[n][i] <= globalStep' /\ saved[n][i] < globalStep'
                 /\ i < Len(saved[n]) => saved[n][i] # tracker
      <3>1. saved[n][i] \in Nat
        BY SavedNumbers
      <3>2. saved[n][i] <= globalStep /\ (i < Len(saved[n]) => saved[n][i] # tracker)
        BY <1>1, <1>2 DEF Inv, Protected
      <3> QED
        BY <1>1, <1>2, <3>1, <3>2
    <2> QED
      BY <1>1, <2>1 DEF Protected
  <1> QED
    BY <1>5, <1>6, <1>7, <1>8, <1>9, <1>10 DEF Inv

\* While a checkpoint is being saved, a step that leaves the driver's own state.
LEMMA SavingKept ==
  ASSUME Inv, Saving, Saving', Typed',
         UNCHANGED <<globalStep, epoch, yielded, weights, tracker>>,
         pc' \notin {"rotate", "write"} => role' = 1
  PROVE  InLoop' /\ SameWeights' /\ StoppedOrdered' /\ Passes'
PROOF
  <1>1. /\ pc # "train" /\ pc' # "train" /\ pc' # "load" /\ pc # "log" /\ pc' # "log"
        /\ Running /\ Running'
    BY DEF Saving, Running
  <1>2. InLoop'
    BY <1>1 DEF Inv, InLoop, Readable
  <1>3. Done' = Done
    BY <1>1 DEF Done
  <1>4. SameWeights' /\ Passes'
    BY <1>1, <1>3 DEF Inv, SameWeights, Passes, InEpoch, OneEpochEmpty
  <1> QED
    BY <1>2, <1>4 DEF Inv, StoppedOrdered

\* In a save the weights of all ranks are one lineage at the dataloader's position.
LEMMA OneLineage ==
  ASSUME Inv, Saving
  PROVE  \E w \in Lineages : /\ Good(w, globalStep) /\ weights = Fresh(w)
                             /\ yielded = Reached(w, globalStep)
PROOF
  <1>1. Running /\ pc # "train"
    BY DEF Saving, Running
  <1> QED
    BY <1>1 DEF Inv, SameWeights, Done

LEMMA RotateInv == ASSUME Inv, Rotate PROVE Inv'
PROOF
  <1> DEFINE files == Rotated \X Ranks
  <1>1. /\ pc = "rotate" /\ pc' = "write" /\ todo' = Ranks /\ disk' = Without(files)
        /\ UNCHANGED <<override, keep, life, role, globalStep, epoch, yielded, weights, data, tracker>>
        /\ saved' = IF Full THEN [saved EXCEPT ![role] = SubSeq(@, KeepStart + 1, Len(@))] ELSE saved
    BY DEF Rotate, config, loopVars
  <1>2. /\ disk' \in [Steps -> Shards]
        /\ \A s \in Steps, n \in DOMAIN Roles, k \in Ranks :
             /\ n # role => disk'[s][n][k] = disk[s][n][k]
             /\ disk'[s][n][k] \in {disk[s][n][k], Missing}
             /\ Readable(tracker) /\ s = tracker /\ KeepsTwo => disk'[s][n][k] = disk[s][n][k]
    BY <1>1, RemovalSpares
  <1> HIDE DEF files
  <1>3. role \in DOMAIN Roles /\ role \in Nat /\ globalStep \in Steps
    BY <1>1, RoleNumbers DEF Inv, Typed, InLoop, Saving
  \* What is left of a role's list keeps its order and its end.
  <1>4. /\ saved' \in [DOMAIN Roles -> Seq(Steps)]
        /\ \A n \in DOMAIN Roles : \A i \in DOMAIN saved'[n] : \E j \in DOMAIN saved[n] :
             /\ saved'[n][i] = saved[n][j]
             /\ i < Len(saved'[n]) => j < Len(saved[n])
             /\ n # role => i = j /\ saved'[n] = saved[n]
    <2>1. CASE ~Full
      BY <1>1, <2>1 DEF Inv, Typed
    <2>2. CASE Full
      <3>1. /\ saved[role] \in Seq(Steps) /\ Len(saved[role]) \in Nat
            /\ DOMAIN saved[role] = 1..Len(saved[role]) /\ saved \in [DOMAIN Roles -> Seq(Steps)]
        BY <1>3, SavedNumbers DEF Inv, Typed
      <3>2. KeepStart \in Nat /\ KeepStart <= Len(saved[role])
        BY <1>3, <2>2, <3>1 DEF Inv, Typed, Full, KeepStart
      <3> DEFINE rest == SubSeq(saved[role], KeepStart + 1, Len(saved[role]))
      <3>3. /\ rest \in Seq(Steps) /\ Len(rest) = Len(saved[role]) - KeepStart
            /\ DOMAIN rest = 1..Len(rest)
            /\ \A i \in 1..Len(rest) : rest[i] = saved[role][i + KeepStart]
        BY <3>1, <3>2
      <3>4. saved' = [saved EXCEPT ![role] = rest]
        BY <1>1, <2>2
      <3> HIDE DEF rest
      <3>5. ASSUME NEW i \in DOMAIN rest
            PROVE  /\ i + KeepStart \in DOMAIN saved[role]
                   /\ rest[i] = saved[role][i + KeepStart]
                   /\ i < Len(rest) => i + KeepStart < Len(saved[role])
        BY <3>1, <3>2, <3>3
      <3>6. saved'[role] = rest /\ \A n \in DOMAIN Roles : n # role => saved'[n] = saved[n]
        BY <1>3, <3>1, <3>4
      <3>7. saved' \in [DOMAIN Roles -> Seq(Steps)]
        BY <3>1, <3>3, <3>4
      <3> QED
        BY <3>5, <3>6, <3>7
    <2> QED
      BY <2>1, <2>2
  <1>5. Typed'
    BY <1>1, <1>2, <1>4 DEF Inv, Typed
  <1>6. InLoop' /\ SameWeights' /\ StoppedOrdered' /\ Passes'
    BY <1>1, <1>5, SavingKept DEF Saving
  <1>7. Writing'
    <2>1. \A n \in DOMAIN Roles : Appended(n)' => Appended(n) /\ n # role
      BY <1>1, <1>3, RoleNumbers DEF Appended
    <2> QED
      BY <1>1, <1>2, <1>3, <2>1 DEF Inv, Writing, Saving
  <1>8. Protected'
    <2>1. \A n \in DOMAIN Roles : Appended(n)' <=> Appended(n)
      BY <1>1 DEF Appended
    <2>2. Running
      BY <1>1 DEF Running
    <2>3. \A n \in DOMAIN Roles : \A j \in DOMAIN saved[n] :
            /\ saved[n][j] <= globalStep
            /\ ~Appended(n) => saved[n][j] < globalStep
            /\ j < Len(saved[n]) => saved[n][j] < globalStep
            /\ (~Appended(n) \/ pc = "log") /\ j < Len(saved[n]) => saved[n][j] # tracker
      BY <2>2 DEF Inv, Protected
    <2> QED
      BY <1>1, <1>4, <2>1, <2>3 DEF Protected
  <1>9. Tracked'
    <2>1. Readable(tracker) => tracker \in Steps
      BY DEF Inv, Typed, Readable
    <2>2. Readable(tracker) => \A n \in DOMAIN Roles : \A k \in Ranks :
            \/ disk'[tracker][n][k] = disk[tracker][n][k]
            \/ disk'[tracker][n][k] = Missing /\ ~KeepsTwo
      BY <1>2, <2>1
    <2> QED
      BY <1>1, <2>2, TrackedKept DEF Inv
  <1> QED
    BY <1>5, <1>6, <1>7, <1>8, <1>9 DEF Inv

\* A shard's file, once written or torn, belongs to the step being saved and so
\* not to the tracked checkpoint.
LEMMA ShardWritten ==
  ASSUME Inv, pc = "write", NEW files \in [Ranks -> Lineages \cup {Missing, Torn}],
         disk' = [disk EXCEPT ![globalStep][role] = files]
  PROVE  /\ disk' \in [Steps -> Shards]
         /\ \A k \in Ranks : disk'[globalStep][role][k] = files[k]
         /\ \A n \in DOMAIN Roles \ {role} : disk'[globalStep][n] = disk[globalStep][n]
         /\ Readable(tracker) => disk'[tracker] = disk[tracker]
PROOF
  <1>1. globalStep \in Steps /\ role \in DOMAIN Roles /\ disk \in [Steps -> Shards]
    BY DEF Inv, Typed, InLoop, Saving
  <1>2. [disk[globalStep] EXCEPT ![role] = files] \in Shards
    BY <1>1 DEF Shards
  <1>3. disk' \in [Steps -> Shards] /\ disk'[globalStep] = [disk[globalStep] EXCEPT ![role] = files]
    BY <1>1, <1>2
  <1>4. /\ disk'[globalStep][role] = files
        /\ \A n \in DOMAIN Roles \ {role} : disk'[globalStep][n] = disk[globalStep][n]
    BY <1>1, <1>3 DEF Shards
  <1>5. Readable(tracker) => tracker # globalStep /\ tracker \in Steps
    <2>1. ASSUME Readable(tracker) PROVE tracker < globalStep /\ tracker \in Steps
      BY <2>1 DEF Inv, InLoop, Running, Typed, Readable
    <2> QED
      BY <1>1, <2>1, StepNumbers
  <1>6. Readable(tracker) => disk'[tracker] = disk[tracker]
    BY <1>1, <1>5
  <1> QED
    BY <1>3, <1>4, <1>6

LEMMA WriteShardInv == ASSUME Inv, NEW k \in Ranks, WriteShard(k) PROVE Inv'
PROOF
  <1> DEFINE files == [disk[globalStep][role] EXCEPT ![k] = weights[role][k]]
  <1>1. /\ pc = "write" /\ pc' = "write" /\ todo' = todo \ {k}
        /\ disk' = [disk EXCEPT ![globalStep][role] = files]
        /\ UNCHANGED <<override, keep, life, role, globalStep, epoch, yielded, weights, saved, data, tracker>>
    BY DEF WriteShard, config, loopVars
  <1>2. /\ globalStep \in Steps /\ role \in DOMAIN Roles /\ role \in Nat
        /\ disk[globalStep][role] \in [Ranks -> Lineages \cup {Missing, Torn}]
        /\ weights[role][k] \in Lineages
    BY <1>1, RoleNumbers DEF Inv, Typed, InLoop, Saving, Shards
  <1>3. /\ files \in [Ranks -> Lineages \cup {Missing, Torn}] /\ files[k] = weights[role][k]
        /\ \A j \in Ranks \ {k} : files[j] = disk[globalStep][role][j]
    BY <1>2
  <1> HIDE DEF files
  <1>4. /\ disk' \in [Steps -> Shards]
        /\ \A j \in Ranks : disk'[globalStep][role][j] = files[j]
        /\ \A n \in DOMAIN Roles \ {role} : disk'[globalStep][n] = disk[globalStep][n]
        /\ Readable(tracker) => disk'[tracker] = disk[tracker]
    BY <1>1, <1>3, ShardWritten
  <1>5. Typed'
    BY <1>1, <1>4 DEF Inv, Typed
  <1>6. InLoop' /\ SameWeights' /\ StoppedOrdered' /\ Passes'
    BY <1>1, <1>5, SavingKept DEF Saving
  <1>7. Writing'
    <2>1. \A n \in DOMAIN Roles : Appended(n)' => Appended(n) /\ n # role
      BY <1>1, <1>2, RoleNumbers DEF Appended
    <2>2. ASSUME NEW n \in DOMAIN Roles, NEW j \in Ranks,
                 Appended(n)' \/ (n = role /\ j \notin todo')
          PROVE  disk'[globalStep][n][j] = weights[n][j]
      <3>1. CASE n = role /\ j = k
        BY <1>3, <1>4, <3>1
      <3>2. CASE n = role /\ j # k
        BY <1>1, <1>3, <1>4, <2>1, <2>2, <3>2 DEF Inv, Writing, Saving
      <3>3. CASE n # role
        BY <1>1, <1>4, <2>1, <2>2, <3>3 DEF Inv, Writing, Saving
      <3> QED
        BY <3>1, <3>2, <3>3
    <2> QED
      BY <1>1, <2>2 DEF Writing
  <1>8. Protected'
    BY <1>1 DEF Inv, Protected, Running, Appended
  <1>9. Tracked'
    BY <1>1, <1>4, TrackedKept DEF Inv
  <1> QED
    BY <1>5, <1>6, <1>7, <1>8, <1>9 DEF Inv

LEMMA RoleSavedInv == ASSUME Inv, RoleSaved PROVE Inv'
PROOF
  <1>1. /\ pc = "write" /\ todo = {} /\ todo' = {}
        /\ saved' = [saved EXCEPT ![role] = Append(@, globalStep)]
        /\ UNCHANGED <<override, keep, life, globalStep, epoch, yielded, weights, disk, data, tracker>>
        /\ \/ role < Len(Roles) /\ role' = role + 1 /\ pc' = "rotate"
           \/ ~(role < Len(Roles)) /\ role' = 1 /\ pc' = "data"
    BY DEF RoleSaved, Barrier, config, loopVars, fileVars
  <1>2. /\ globalStep \in Steps /\ globalStep \in Nat /\ role \in DOMAIN Roles /\ role \in Nat
        /\ role' \in DOMAIN Roles /\ role' \in Nat
    <2>1. globalStep \in Steps /\ role \in DOMAIN Roles
      BY <1>1 DEF Inv, Typed, InLoop, Saving
    <2>2. role' \in DOMAIN Roles
      BY <1>1, <2>1, RoleNumbers
    <2> QED
      BY <2>1, <2>2, RoleNumbers, StepNumbers
  <1>3. \A n \in DOMAIN Roles : Appended(n)' <=> Appended(n) \/ n = role
    BY <1>1, <1>2, RoleNumbers DEF Appended
  <1>4. saved' \in [DOMAIN Roles -> Seq(Steps)]
    BY <1>1, <1>2 DEF Inv, Typed
  <1>5. Typed'
    BY <1>1, <1>2, <1>4 DEF Inv, Typed
  <1>6. InLoop' /\ SameWeights' /\ StoppedOrdered' /\ Passes'
    BY <1>1, <1>5, SavingKept DEF Saving
  <1>7. Writing'
    BY <1>1, <1>3 DEF Inv, Writing, Saving
  <1>8. Protected'
    <2>1. ASSUME NEW n \in DOMAIN Roles, NEW i \in DOMAIN saved'[n]
          PROVE  /\ saved'[n][i] <= globalStep
                 /\ ~Appended(n)' => saved'[n][i] < globalStep
                 /\ i < Len(saved'[n]) => saved'[n][i] < globalStep
                 /\ ~Appended(n)' /\ i < Len(saved'[n]) => saved'[n][i] # tracker
      <3>1. CASE n = role
        <4>1. /\ saved[n] \in Seq(Steps) /\ Len(saved[n]) \in Nat /\ DOMAIN saved[n] = 1..Len(saved[n])
              /\ saved'[n] = Append(saved[n], globalStep)
          BY <1>1, <3>1, SavedNumbers DEF Inv, Typed
        <4>2. i < Len(saved'[n]) => i \in DOMAIN saved[n] /\ saved'[n][i] = saved[n][i]
          BY <1>2, <4>1
        <4>3. ~Appended(n) /\ Running
          BY <1>1, <1>2, <3>1 DEF Appended, Running
        <4>4. saved'[n][i] = globalStep \/ (i \in DOMAIN saved[n] /\ saved'[n][i] = saved[n][i])
          BY <1>2, <4>1
        <4>5. saved'[n][i] <= globalStep
          BY <1>2, <4>3, <4>4 DEF Inv, Protected
        <4> QED
          BY <1>3, <2>1, <3>1, <4>2, <4>3, <4>5 DEF Inv, Protected
      <3>2. CASE n # role
        <4>1. saved'[n] = saved[n] /\ Running
          BY <1>1, <3>2 DEF Inv, Typed, Running
        <4> QED
          BY <1>3, <2>1, <3>2, <4>1 DEF Inv, Protected
      <3> QED
        BY <3>1, <3>2
    <2> QED
      BY <1>1, <2>1 DEF Protected
  <1>9. Tracked'
    BY <1>1, TrackedKept DEF Inv
  <1> QED
    BY <1>5, <1>6, <1>7, <1>8, <1>9 DEF Inv

LEMMA SaveDataInv == ASSUME Inv, SaveData PROVE Inv'
PROOF
  <1>1. /\ pc = "data" /\ pc' = "tracker" /\ data' = [data EXCEPT ![globalStep] = yielded]
        /\ UNCHANGED <<override, keep, life, role, todo, globalStep, epoch, yielded, weights, saved, disk, tracker>>
    BY DEF SaveData, config, loopVars
  <1>2. globalStep \in Steps /\ data'[globalStep] = yielded
    BY <1>1 DEF Inv, Typed, InLoop, Saving
  <1>3. Typed'
    BY <1>1, <1>2 DEF Inv, Typed
  <1>4. InLoop' /\ SameWeights' /\ StoppedOrdered' /\ Passes'
    BY <1>1, <1>3, SavingKept DEF Saving, Inv, InLoop
  <1>5. Writing' /\ Protected'
    BY <1>1, <1>2 DEF Inv, Writing, Protected, Running, Saving, Appended
  <1>6. Tracked'
    <2>1. ASSUME Readable(tracker) PROVE tracker < globalStep /\ tracker \in Steps
      BY <1>1, <2>1 DEF Inv, InLoop, Running, Typed, Readable
    <2>2. Readable(tracker) => tracker # globalStep
      BY <1>2, <2>1, StepNumbers
    <2>3. Readable(tracker) => data'[tracker] = data[tracker]
      BY <1>1, <2>1, <2>2 DEF Inv, Typed
    <2> QED
      BY <1>1, <2>3, TrackedKept DEF Inv
  <1> QED
    BY <1>3, <1>4, <1>5, <1>6 DEF Inv

LEMMA WriteTrackerInv == ASSUME Inv, WriteTracker PROVE Inv'
PROOF
  <1>1. /\ pc = "tracker" /\ tracker' = globalStep /\ pc' = "log"
        /\ UNCHANGED <<override, keep, life, role, todo, globalStep, epoch, yielded, weights, saved, disk, data>>
    BY DEF WriteTracker, config, loopVars
  <1>2. globalStep \in Steps /\ globalStep \in Nat \ {0} /\ role = 1
    BY <1>1, StepNumbers DEF Inv, InLoop, Saving
  <1>3. PICK w \in Lineages : /\ Good(w, globalStep) /\ weights = Fresh(w)
                              /\ yielded = Reached(w, globalStep)
    BY <1>1, OneLineage DEF Saving
  <1>4. Typed'
    BY <1>1, <1>2 DEF Inv, Typed
  <1>5. InLoop'
    BY <1>1, <1>2 DEF InLoop, Saving
  <1>10. Done' = globalStep /\ Done = globalStep /\ Running /\ Running'
    BY <1>1 DEF Done, Running
  <1>6. SameWeights' /\ Passes'
    BY <1>1, <1>3, <1>10 DEF Inv, SameWeights, Passes, InEpoch, OneEpochEmpty
  <1>7. StoppedOrdered' /\ Writing'
    BY <1>1 DEF Inv, StoppedOrdered, Writing, Saving
  <1>8. Protected'
    <2>1. \A n \in DOMAIN Roles : Appended(n) /\ Appended(n)'
      BY <1>1 DEF Appended
    <2>2. ASSUME NEW n \in DOMAIN Roles, NEW i \in DOMAIN saved[n]
          PROVE  /\ saved[n][i] <= globalStep
                 /\ i < Len(saved[n]) => saved[n][i] < globalStep /\ saved[n][i] # globalStep
      <3>1. saved[n][i] \in Nat
        BY SavedNumbers
      <3>2. saved[n][i] <= globalStep /\ (i < Len(saved[n]) => saved[n][i] < globalStep)
        BY <1>1, <2>1 DEF Inv, Protected, Running
      <3> QED
        BY <1>2, <3>1, <3>2
    <2> QED
      BY <1>1, <2>1, <2>2 DEF Protected
  <1>9. Tracked'
    <2>1. \A n \in DOMAIN Roles : \A k \in Ranks : disk[globalStep][n][k] = w
      BY <1>1, <1>3, FreshWeights DEF Inv, Writing, Saving, Appended
    <2>2. data[globalStep] = Reached(w, globalStep)
      BY <1>1, <1>3 DEF Inv, Writing
    <2> QED
      BY <1>1, <1>3, <2>1, <2>2 DEF Tracked
  <1> QED
    BY <1>4, <1>5, <1>6, <1>7, <1>8, <1>9 DEF Inv

\* The files after a crash are files a trainer can find, and the tracked
\* checkpoint is none of those it damaged.
LEMMA DamageSpares ==
  ASSUME Inv, Damaged
  PROVE  /\ disk' \in [Steps -> Shards]
         /\ data' \in [Steps -> 0..EpochLength \cup {Missing, Torn}]
         /\ tracker' \in {tracker, Torn}
         /\ Readable(tracker) => data'[tracker] = data[tracker]
         /\ Readable(tracker) => \A n \in DOMAIN Roles : \A k \in Ranks :
              \/ disk'[tracker][n][k] = disk[tracker][n][k]
              \/ disk'[tracker][n][k] = Missing /\ ~KeepsTwo
PROOF
  <1>1. /\ disk \in [Steps -> Shards] /\ data \in [Steps -> 0..EpochLength \cup {Missing, Torn}]
        /\ Readable(tracker) => tracker \in Steps
    BY DEF Inv, Typed, Readable
  <1>2. CASE pc \in {"load", "train", "log", "ended", "failed", "tracker"}
    BY <1>1, <1>2 DEF Damaged, fileVars
  <1>3. CASE pc = "rotate"
    <2>1. PICK files \in SUBSET (Rotated \X Ranks) : disk' = Without(files)
      BY <1>3 DEF Damaged
    <2>2. UNCHANGED <<data, tracker>>
      BY <1>3 DEF Damaged
    <2>3. /\ disk' \in [Steps -> Shards]
          /\ \A s \in Steps, n \in DOMAIN Roles, k \in Ranks :
               /\ disk'[s][n][k] \in {disk[s][n][k], Missing}
               /\ Readable(tracker) /\ s = tracker /\ KeepsTwo => disk'[s][n][k] = disk[s][n][k]
      BY <1>3, <2>1, RemovalSpares
    <2> QED
      BY <1>1, <2>2, <2>3
  <1>4. CASE pc = "write"
    <2>1. PICK open \in SUBSET todo :
            disk' = [disk EXCEPT ![globalStep][role] =
                       [k \in Ranks |-> IF k \in open THEN Torn ELSE @[k]]]
      BY <1>4 DEF Damaged
    <2> DEFINE files == [k \in Ranks |-> IF k \in open THEN Torn ELSE disk[globalStep][role][k]]
    <2>2. disk[globalStep][role] \in [Ranks -> Lineages \cup {Missing, Torn}]
      BY <1>1, <1>4 DEF Inv, Typed, InLoop, Saving, Shards
    <2>3. files \in [Ranks -> Lineages \cup {Missing, Torn}]
      BY <2>2
    <2>4. disk' = [disk EXCEPT ![globalStep][role] = files]
      BY <2>1
    <2> HIDE DEF files
    <2>5. disk' \in [Steps -> Shards] /\ (Readable(tracker) => disk'[tracker] = disk[tracker])
      BY <1>4, <2>3, <2>4, ShardWritten
    <2>6. UNCHANGED <<data, tracker>>
      BY <1>4 DEF Damaged
    <2> QED
      BY <1>1, <2>5, <2>6
  <1>5. CASE pc = "data"
    <2>1. data' \in {data, [data EXCEPT ![globalStep] = Torn]} /\ UNCHANGED <<disk, tracker>>
      BY <1>5 DEF Damaged
    <2>2. ASSUME Readable(tracker) PROVE tracker < globalStep /\ tracker \in Steps
      BY <1>5, <2>2 DEF Inv, InLoop, Running, Typed, Readable
    <2>6. globalStep \in Steps
      BY <1>5 DEF Inv, InLoop, Saving
    <2>3. globalStep \in Steps /\ (Readable(tracker) => tracker # globalStep)
      BY <2>2, <2>6, StepNumbers
    <2>4. Readable(tracker) => data'[tracker] = data[tracker]
      BY <1>1, <2>1, <2>2, <2>3
    <2>5. data' \in [Steps -> 0..EpochLength \cup {Missing, Torn}]
      BY <1>1, <2>1, <2>3
    <2> QED
      BY <1>1, <2>1, <2>4, <2>5
  <1> QED
    BY <1>2, <1>3, <1>4, <1>5 DEF Damaged

LEMMA CrashInv == ASSUME Inv, Crash PROVE Inv'
PROOF
  <1>1. /\ life <= MaxCrashes /\ life' = life + 1 /\ pc' = "load" /\ role' = 1 /\ todo' = {}
        /\ globalStep' = 0 /\ epoch' = 0 /\ yielded' = 0 /\ weights' = Fresh(<<>>)
        /\ saved' = [n \in DOMAIN Roles |-> <<>>] /\ UNCHANGED <<override, keep>> /\ Damaged
    BY DEF Crash, config
  <1>2. ~Running' /\ ~Saving'
    BY <1>1 DEF Running, Saving
  <1>3. Typed'
    <2>1. life' \in 1..MaxCrashes + 1
      BY <1>1, CheckpointAssumption DEF Inv, Typed
    <2>2. weights' \in [DOMAIN Roles -> [Ranks -> Lineages]]
      BY <1>1 DEF Fresh, Lineages
    <2>3. role' \in DOMAIN Roles /\ todo' \subseteq Ranks /\ yielded' \in 0..EpochLength
      BY <1>1, RoleNumbers, CheckpointAssumption
    <2>4. saved' \in [DOMAIN Roles -> Seq(Steps)]
      BY <1>1
    <2>5. tracker' \in Steps \cup {Missing, Torn}
      BY <1>1, DamageSpares DEF Inv, Typed
    <2> QED
      BY <1>1, <2>1, <2>2, <2>3, <2>4, <2>5, DamageSpares DEF Inv, Typed
  <1>4. InLoop' /\ SameWeights' /\ Writing' /\ Protected'
    BY <1>1, <1>2 DEF InLoop, SameWeights, Writing, Protected
  <1>7. Passes'
    <2>1. \A n \in DOMAIN Roles : \A k \in Ranks : Len(weights'[n][k]) = 0
      BY <1>1, FreshWeights
    <2>2. EpochLength * epoch' = 0 /\ EpochLength \in Nat
      BY <1>1, Places, StepNumbers
    <2> QED
      BY <1>2, <2>1, <2>2 DEF Passes, InEpoch, OneEpochEmpty
  <1>5. StoppedOrdered'
    BY <1>1, FreshWeights DEF StoppedOrdered, Ordered
  <1>6. Tracked'
    <2>1. CASE tracker' = tracker
      BY <1>1, <2>1, DamageSpares, TrackedKept DEF Inv
    <2>2. CASE tracker' = Torn
      BY <2>2 DEF Tracked, Readable
    <2> QED
      BY <1>1, <2>1, <2>2, DamageSpares
  <1> QED
    BY <1>3, <1>4, <1>5, <1>6, <1>7 DEF Inv

LEMMA NextInv == Inv /\ [Next]_vars => Inv'
PROOF
  <1> SUFFICES ASSUME Inv, [Next]_vars PROVE Inv'
    OBVIOUS
  <1>1. CASE Unloadable \/ LoopOver \/ UNCHANGED vars
    BY <1>1, StepsOutOfLoop
  <1>2. CASE FromScratch \/ Restore
    BY <1>2, FromScratchInv, RestoreInv
  <1>3. CASE \E close \in BOOLEAN : TrainStep(close)
    BY <1>3, TrainStepInv
  <1>4. CASE NextEpoch \/ StepEnds
    BY <1>4, NextEpochInv, StepEndsInv
  <1>5. CASE Rotate \/ RoleSaved
    BY <1>5, RotateInv, RoleSavedInv
  <1>6. CASE \E k \in Ranks : WriteShard(k)
    BY <1>6, WriteShardInv
  <1>7. CASE SaveData \/ WriteTracker
    BY <1>7, SaveDataInv, WriteTrackerInv
  <1>8. CASE Crash
    BY <1>8, CrashInv
  <1> QED
    BY <1>1, <1>2, <1>3, <1>4, <1>5, <1>6, <1>7, <1>8 DEF Next, Work, Stopped

-----------------------------------------------------------------------------
\* The invariant of the save, the crash and the resume: _save_checkpoint writes
\* every shard and data.pt before the tracker, and rotation keeps away from it.
THEOREM InvAlways == Spec => []Inv
PROOF
  <1> QED
    BY InitInv, NextInv, PTL DEF Spec

LEMMA InvGivesWhole == Inv => TrackerWhole
PROOF
  <1> SUFFICES ASSUME Inv, KeepsTwo, Readable(tracker)
               PROVE \E w \in {disk[tracker][1][k] : k \in Ranks} :
                       /\ Readable(w) /\ Len(w) = tracker
                       /\ \A n \in DOMAIN Roles : \A k \in Ranks : disk[tracker][n][k] = w
                       /\ data[tracker] = Reached(w, tracker)
    BY DEF TrackerWhole
  <1>1. PICK w \in Lineages :
          /\ Good(w, tracker) /\ data[tracker] = Reached(w, tracker)
          /\ \A n \in DOMAIN Roles : \A k \in Ranks : disk[tracker][n][k] = w
    BY DEF Inv, Tracked
  <1>2. w \in {disk[tracker][1][k] : k \in Ranks}
    BY <1>1, RoleNumbers, CheckpointAssumption
  <1> QED
    BY <1>1, <1>2, FileContents DEF Good

\* Whatever crashes when, a tracker that can be read names a checkpoint that is
\* whole and of one lineage, if no role keeps just one (_save_checkpoint,
\* FSDPCheckpointManager.save_checkpoint).
THEOREM TrackerAlwaysWhole == Spec => []TrackerWhole
PROOF
  <1> QED
    BY InvAlways, InvGivesWhole, PTL

\* However often the trainer is killed and resumed, what every rank was trained on
\* is whole passes over the data and one under way, and the loop is at most an epoch
\* ahead of them (RayPPOTrainer.fit, _load_checkpoint).
THEOREM AlwaysInOrder == Spec => []InOrder
PROOF
  <1>1. Inv => InOrder
    BY DEF Inv, StoppedOrdered, Ordered, Passes, InOrder, PassesWhole
  <1> QED
    BY <1>1, InvAlways, PTL
-----------------------------------------------------------------------------
\* total_training_steps, overridden or not.
LEMMA TotalPositive ==
  ASSUME Inv
  PROVE  TotalSteps \in Nat \ {0}
  BY StepNumbers DEF TotalSteps, Inv, Typed

\* Bounds of the counters.
Counted ==
  /\ override \in Overrides /\ keep \in [DOMAIN Roles -> KeepChoices] /\ expiring \in BOOLEAN
  /\ epoch <= TotalEpochs /\ globalStep <= EpochLength * TotalEpochs + 1

\* The tracker once the last step is behind.
AtTheEnd ==
  /\ pc \in {"train", "ended"} /\ globalStep > TotalSteps => tracker = globalStep - 1
  /\ pc = "log" /\ globalStep >= TotalSteps => tracker = globalStep

\* What a launch may train beyond the last step.
Beyond ==
  /\ globalStep + (IF pc \in {"ended", "failed"} THEN 0 ELSE 1) <= TotalSteps + life
  /\ Readable(tracker) => tracker + (IF pc = "load" THEN 2 ELSE 1) <= TotalSteps + life

Bounds == Counted /\ AtTheEnd /\ Beyond

LEMMA InitBounds == Init => Bounds
PROOF
  <1> SUFFICES ASSUME Init PROVE Bounds
    OBVIOUS
  <1>1. /\ expiring \in BOOLEAN /\ keep \in [DOMAIN Roles -> KeepChoices] /\ override \in Overrides
        /\ pc = "load" /\ epoch = 0 /\ globalStep = 0 /\ ~Readable(tracker) /\ life = 1
    BY DEF Init, Readable
  <1>2. epoch <= TotalEpochs /\ globalStep <= EpochLength * TotalEpochs + 1
    BY <1>1, StepNumbers
  <1>3. TotalSteps \in Nat \ {0}
    BY InitInv, TotalPositive
  <1> QED
    BY <1>1, <1>2, <1>3 DEF Bounds, Counted, AtTheEnd, Beyond

LEMMA NextBounds == Inv /\ Bounds /\ [Next]_vars => Bounds'
PROOF
  <1> SUFFICES ASSUME Inv, Bounds, [Next]_vars PROVE Bounds'
    OBVIOUS
  <1>1. /\ globalStep \in Nat /\ epoch \in Nat /\ TotalSteps \in Nat \ {0} /\ life \in Nat
        /\ TotalEpochs \in Nat /\ EpochLength * TotalEpochs \in Nat
        /\ Readable(tracker) => tracker \in Steps /\ tracker \in Nat
    <2>1. /\ globalStep \in Nat /\ epoch \in Nat /\ life \in Nat
          /\ Readable(tracker) => tracker \in Steps
      BY CheckpointAssumption DEF Inv, Typed, Readable
    <2> QED
      BY <2>1, TotalPositive, StepNumbers
  <1>2. Saving \/ pc = "log" => globalStep <= EpochLength * TotalEpochs
    BY <1>1, StepNumbers DEF Inv, InLoop
  <1>3. CASE FromScratch
    <2>1. /\ pc' = "train" /\ globalStep' = 1 /\ ~Readable(tracker) /\ tracker' = tracker
          /\ UNCHANGED <<override, keep, life, expiring, epoch>>
      BY <1>3 DEF FromScratch, Readable, config, fileVars
    <2>2. TotalSteps' = TotalSteps /\ ~Readable(tracker)' /\ life \in Nat \ {0}
      BY <2>1, CheckpointAssumption DEF TotalSteps, Readable, Inv, Typed
    <2> QED
      BY <1>1, <2>1, <2>2 DEF Bounds, Counted, AtTheEnd, Beyond
  <1>4. CASE Restore
    <2>1. /\ pc = "load" /\ pc' = "train" /\ globalStep' = tracker + 1 /\ Readable(tracker)
          /\ epoch' = tracker \div EpochLength
          /\ UNCHANGED <<override, keep, life, expiring, tracker>>
      BY <1>4 DEF Restore, config, fileVars
    <2>2. TotalSteps' = TotalSteps
      BY <2>1 DEF TotalSteps
    <2>3. tracker <= EpochLength * TotalEpochs /\ epoch' <= TotalEpochs
      BY <1>1, <2>1, StepNumbers
    <2>4. Counted'
      BY <1>1, <2>1, <2>3 DEF Bounds, Counted
    <2>5. AtTheEnd'
      BY <1>1, <2>1 DEF AtTheEnd
    <2>6. Beyond'
      BY <1>1, <2>1, <2>2 DEF Bounds, Beyond, Readable
    <2> QED
      BY <2>4, <2>5, <2>6 DEF Bounds
  <1>5. ASSUME NEW close \in BOOLEAN, TrainStep(close) PROVE Bounds'
    <2>1. /\ pc = "train" /\ pc' \in {"rotate", "log"} /\ (pc' = "log" => ~(globalStep >= TotalSteps))
          /\ expiring' \in BOOLEAN
          /\ UNCHANGED <<override, keep, life, globalStep, epoch, tracker>>
      BY <1>5 DEF TrainStep, SaveDue, IsLastStep, config, fileVars
    <2>2. TotalSteps' = TotalSteps
      BY <2>1 DEF TotalSteps
    <2>3. Counted' /\ AtTheEnd'
      BY <1>1, <2>1, <2>2 DEF Bounds, Counted, AtTheEnd
    <2>4. Beyond'
      BY <1>1, <2>1, <2>2 DEF Bounds, Beyond, Readable
    <2> QED
      BY <2>3, <2>4 DEF Bounds
  <1>6. CASE StepEnds
    <2>1. /\ pc = "log" /\ globalStep' = globalStep + 1
          /\ pc' = IF globalStep >= TotalSteps THEN "ended" ELSE "train"
          /\ UNCHANGED <<override, keep, life, expiring, epoch, tracker>>
      BY <1>6 DEF StepEnds, IsLastStep, config, fileVars
    <2>2. TotalSteps' = TotalSteps /\ globalStep' - 1 = globalStep
      BY <1>1, <2>1 DEF TotalSteps
    <2>3. Counted'
      BY <1>1, <1>2, <2>1 DEF Bounds, Counted
    <2>4. AtTheEnd'
      <3>1. globalStep' > TotalSteps' => globalStep >= TotalSteps
        BY <1>1, <2>1, <2>2
      <3> QED
        BY <2>1, <2>2, <3>1 DEF Bounds, AtTheEnd
    <2>5. Beyond'
      <3>1. /\ globalStep + 1 <= TotalSteps + life
            /\ Readable(tracker) => tracker + 1 <= TotalSteps + life
        BY <2>1 DEF Bounds, Beyond
      <3>2. life >= 1
        BY CheckpointAssumption DEF Inv, Typed
      <3>3. pc' = "train" => globalStep + 1 + 1 <= TotalSteps + life
        BY <1>1, <2>1, <3>2
      <3> QED
        BY <1>1, <2>1, <2>2, <3>1, <3>3 DEF Beyond, Readable
    <2> QED
      BY <2>3, <2>4, <2>5 DEF Bounds
  <1>7. CASE WriteTracker
    <2>1. /\ pc = "tracker" /\ pc' = "log" /\ tracker' = globalStep
          /\ UNCHANGED <<override, keep, life, expiring, epoch, globalStep>>
      BY <1>7 DEF WriteTracker, config, loopVars
    <2>2. TotalSteps' = TotalSteps
      BY <2>1 DEF TotalSteps
    <2> QED
      BY <1>1, <2>1, <2>2 DEF Bounds, Counted, AtTheEnd, Beyond
  <1>8. CASE Unloadable \/ NextEpoch \/ LoopOver \/ Rotate \/ RoleSaved \/ SaveData
             \/ UNCHANGED vars \/ \E k \in Ranks : WriteShard(k)
    <2>1. UNCHANGED <<override, keep, life, expiring, globalStep, tracker>>
      BY <1>8 DEF Unloadable, NextEpoch, LoopOver, Rotate, RoleSaved, SaveData, WriteShard,
                  vars, config, loopVars, fileVars
    <2>2. TotalSteps' = TotalSteps /\ (Readable(tracker)' <=> Readable(tracker))
      BY <2>1 DEF TotalSteps, Readable
    <2>3. epoch' <= TotalEpochs
      <3>1. epoch' = epoch \/ (epoch' = epoch + 1 /\ epoch < TotalEpochs)
        BY <1>8 DEF Unloadable, NextEpoch, LoopOver, Rotate, RoleSaved, SaveData, WriteShard,
                    vars, loopVars
      <3> QED
        BY <1>1, <3>1 DEF Bounds, Counted
    <2>4. /\ pc' \in {"train", "ended"} => pc = pc' \/ pc = "train"
          /\ pc' = "log" => pc = "log"
          /\ pc \in {"ended", "failed"} => pc' = pc
          /\ pc' = "load" => pc = "load"
      BY <1>8 DEF Unloadable, NextEpoch, LoopOver, Rotate, RoleSaved, SaveData, WriteShard, vars
    <2>5. Counted' /\ AtTheEnd'
      BY <2>1, <2>2, <2>3, <2>4 DEF Bounds, Counted, AtTheEnd
    <2>6. Beyond'
      BY <1>1, <2>1, <2>2, <2>4 DEF Bounds, Beyond
    <2> QED
      BY <2>5, <2>6 DEF Bounds
  <1>9. CASE Crash
    <2>1. /\ expiring' \in BOOLEAN /\ UNCHANGED <<override, keep>> /\ life' = life + 1
          /\ pc' = "load" /\ epoch' = 0 /\ globalStep' = 0 /\ tracker' \in {tracker, Torn}
      BY <1>9, DamageSpares DEF Crash, config
    <2>2. TotalSteps' = TotalSteps
      BY <2>1 DEF TotalSteps
    <2>3. Counted'
      BY <1>1, <2>1 DEF Bounds, Counted
    <2>4. Readable(tracker)' => Readable(tracker) /\ tracker' = tracker
      BY <2>1 DEF Readable
    <2>5. Readable(tracker) => tracker + 1 <= TotalSteps + life
      BY <1>1 DEF Bounds, Beyond
    <2>6. Beyond'
      BY <1>1, <2>1, <2>2, <2>4, <2>5 DEF Beyond
    <2>7. AtTheEnd'
      BY <2>1 DEF AtTheEnd
    <2> QED
      BY <2>3, <2>6, <2>7 DEF Bounds
  <1> QED
    BY <1>3, <1>4, <1>5, <1>6, <1>7, <1>8, <1>9 DEF Next, Work, Stopped

\* The invariant with the bounds of the counters.
THEOREM BoundsAlways == Spec => [](Inv /\ Bounds)
PROOF
  <1>1. Inv /\ Bounds /\ [Next]_vars => Inv' /\ Bounds'
    BY NextInv, NextBounds
  <1> QED
    BY <1>1, InitInv, InitBounds, PTL DEF Spec

\* Type correctness of the trainer and its files.
THEOREM TypeCorrect == Spec => []TypeOK
PROOF
  <1>1. Inv /\ Bounds => TypeOK
    <2> SUFFICES ASSUME Inv, Bounds PROVE TypeOK
      OBVIOUS
    <2>1. globalStep \in 0..EpochLength * TotalEpochs + 1 /\ epoch \in 0..TotalEpochs
      BY StepNumbers DEF Inv, Typed, Bounds, Counted
    <2> QED
      BY <2>1 DEF Inv, Typed, Bounds, Counted, TypeOK
  <1> QED
    BY <1>1, BoundsAlways, PTL

\* A run that took its last step has its final weights in the checkpoint the tracker
\* names, whatever total_training_steps is and however often it is launched again:
\* a step that is the last, or beyond it, is always saved (fit).
THEOREM AlwaysFinalSaved == Spec => []FinalSaved
PROOF
  <1>1. Bounds => FinalSaved
    BY DEF Bounds, AtTheEnd, FinalSaved
  <1> QED
    BY <1>1, BoundsAlways, PTL

-----------------------------------------------------------------------------
\* The multiples of SaveFreq around a step.
LEMMA Multiples ==
  /\ SaveFreq \in Nat \ {0}
  /\ \A x \in Nat : /\ x \div SaveFreq \in Nat
                    /\ (x \div SaveFreq) * SaveFreq <= x
                    /\ x < (x \div SaveFreq + 1) * SaveFreq
  /\ \A m \in Nat : /\ m * SaveFreq \in Nat /\ (m + 1) * SaveFreq = m * SaveFreq + SaveFreq
                    /\ (m * SaveFreq) % SaveFreq = 0
PROOF
  <1>1. SaveFreq \in Nat \ {0}
    BY CheckpointAssumption
  <1>2. \A f \in Nat \ {0}, x \in Nat : x \div f \in Nat /\ (x \div f) * f <= x
    OBVIOUS
  <1>3. \A f \in Nat \ {0}, x \in Nat : x < (x \div f + 1) * f
    OBVIOUS
  <1>4. \A f \in Nat \ {0}, m \in Nat :
          m * f \in Nat /\ (m + 1) * f = m * f + f /\ (m * f) % f = 0
    OBVIOUS
  <1> QED
    BY <1>1, <1>2, <1>3, <1>4

\* While the loop runs, no multiple of SaveFreq lies between the checkpoint a new
\* launch would resume from and the last step trained: each is saved at once.
LastSaved == IF tracker = Missing THEN 0 ELSE tracker
Trained == IF pc = "log" THEN globalStep ELSE globalStep - 1
Timely ==
  pc \in {"train", "log", "ended"} /\ tracker # Torn =>
    \E m \in Nat : m * SaveFreq <= LastSaved /\ Trained < (m + 1) * SaveFreq

LEMMA TimelyNext ==
  ASSUME Inv, Timely, [Next]_vars
  PROVE  Timely'
PROOF
  <1>1. /\ globalStep \in Nat
        /\ tracker # Torn => LastSaved \in Nat
        /\ \A s \in Nat : s # Missing /\ s # Torn
    BY StepNumbers, FileAssumption DEF Inv, Typed, LastSaved
  <1>2. SaveFreq \in Nat \ {0}
    BY Multiples
  <1>3. CASE FromScratch
    <2>1. Trained' = 0 /\ LastSaved' = 0
      BY <1>3 DEF FromScratch, LastSaved, Trained, fileVars
    <2>2. 0 * SaveFreq <= LastSaved' /\ Trained' < (0 + 1) * SaveFreq
      BY <1>2, <2>1
    <2> QED
      BY <2>2 DEF Timely
  <1>4. CASE Restore
    <2>1. tracker \in Nat /\ Trained' = tracker /\ LastSaved' = tracker
      BY <1>1, <1>4, StepNumbers DEF Restore, LastSaved, Trained, fileVars, Readable, Inv, Typed
    <2> DEFINE m == tracker \div SaveFreq
    <2>2. m \in Nat /\ m * SaveFreq <= tracker /\ tracker < (m + 1) * SaveFreq
      BY <2>1, Multiples
    <2> HIDE DEF m
    <2> QED
      BY <2>1, <2>2 DEF Timely
  <1>5. ASSUME NEW close \in BOOLEAN, TrainStep(close) PROVE Timely'
    <2>1. CASE SaveDue(close)
      BY <1>5, <2>1 DEF TrainStep, Timely
    <2>2. CASE ~SaveDue(close)
      <3>1. /\ pc = "train" /\ pc' = "log" /\ Trained' = globalStep /\ Trained = globalStep - 1
            /\ LastSaved' = LastSaved /\ tracker' = tracker /\ globalStep % SaveFreq # 0
        BY <1>5, <2>2 DEF TrainStep, Trained, LastSaved, fileVars, SaveDue
      <3> SUFFICES ASSUME tracker # Torn
                   PROVE \E m \in Nat : /\ m * SaveFreq <= LastSaved
                                        /\ globalStep < (m + 1) * SaveFreq
        BY <1>1, <3>1 DEF Timely
      <3>2. PICK m \in Nat : m * SaveFreq <= LastSaved /\ globalStep - 1 < (m + 1) * SaveFreq
        BY <3>1 DEF Timely
      <3>3. (m + 1) * SaveFreq \in Nat /\ ((m + 1) * SaveFreq) % SaveFreq = 0
        BY Multiples
      <3>4. globalStep # (m + 1) * SaveFreq
        BY <3>1, <3>3
      <3>5. globalStep < (m + 1) * SaveFreq
        BY <1>1, <3>2, <3>3, <3>4
      <3> QED
        BY <3>2, <3>5
    <2> QED
      BY <2>1, <2>2
  <1>6. CASE WriteTracker
    <2>1. Trained' = globalStep /\ LastSaved' = globalStep
      BY <1>1, <1>6 DEF WriteTracker, Trained, LastSaved, loopVars
    <2> DEFINE m == globalStep \div SaveFreq
    <2>2. m \in Nat /\ m * SaveFreq <= globalStep /\ globalStep < (m + 1) * SaveFreq
      BY <1>1, Multiples
    <2> HIDE DEF m
    <2> QED
      BY <2>1, <2>2 DEF Timely
  <1>7. CASE NextEpoch \/ LoopOver \/ StepEnds \/ UNCHANGED vars
    <2>1. /\ Trained' = Trained /\ LastSaved' = LastSaved /\ tracker' = tracker
          /\ pc' \in {"train", "log", "ended"} => pc \in {"train", "log", "ended"}
      BY <1>1, <1>7 DEF NextEpoch, LoopOver, StepEnds, vars, loopVars, fileVars, Trained, LastSaved
    <2> QED
      BY <2>1 DEF Timely
  <1>8. CASE Unloadable \/ Rotate \/ RoleSaved \/ SaveData \/ Crash
               \/ \E k \in Ranks : WriteShard(k)
    <2>1. pc' \notin {"train", "log", "ended"}
      BY <1>8 DEF Unloadable, Rotate, RoleSaved, SaveData, Crash, WriteShard
    <2> QED
      BY <2>1 DEF Timely
  <1> QED
    BY <1>3, <1>4, <1>5, <1>6, <1>7, <1>8 DEF Next, Work, Stopped

LEMMA TimelyGivesBound == ASSUME Inv, Timely PROVE LossBounded
PROOF
  <1> SUFFICES ASSUME pc \in {"train", "ended"}, tracker # Torn
               PROVE  globalStep - 1 < LastSaved + SaveFreq
    BY DEF LossBounded, LastSaved
  <1>1. PICK m \in Nat : m * SaveFreq <= LastSaved /\ globalStep - 1 < (m + 1) * SaveFreq
    BY DEF Timely, Trained
  <1>2. globalStep \in Nat /\ LastSaved \in Nat
    BY StepNumbers DEF Inv, Typed, LastSaved
  <1>3. m * SaveFreq \in Nat /\ (m + 1) * SaveFreq = m * SaveFreq + SaveFreq /\ SaveFreq \in Nat
    BY Multiples
  <1> QED
    BY <1>1, <1>2, <1>3

\* The work of a launch is on disk in time, and it takes no more than its step beyond
\* the last: fit saves at every multiple of save_freq, and at every step that is
\* the last or beyond it, after which it returns.
THEOREM AlwaysSavedInTime == Spec => []SavedInTime
PROOF
  <1>1. Init => Timely
    BY DEF Init, Timely
  <1>2. Inv /\ Timely /\ [Next]_vars => Inv' /\ Timely'
    BY NextInv, TimelyNext
  <1>3. Spec => [](Inv /\ Timely)
    BY <1>1, <1>2, InitInv, PTL DEF Spec
  <1>4. Inv /\ Bounds => OneMorePerLaunch
    <2> SUFFICES ASSUME Inv, Bounds PROVE OneMorePerLaunch
      OBVIOUS
    <2>1. globalStep \in Nat /\ TotalSteps \in Nat /\ life \in Nat
      BY TotalPositive, CheckpointAssumption DEF Inv, Typed
    <2>2. globalStep <= TotalSteps + life
      BY <2>1 DEF Bounds, Beyond
    <2> QED
      BY <2>1, <2>2 DEF OneMorePerLaunch
  <1>5. Inv /\ Timely /\ Bounds /\ FinalSaved => SavedInTime
    BY <1>4, TimelyGivesBound DEF SavedInTime
  <1> QED
    BY <1>3, <1>5, BoundsAlways, AlwaysFinalSaved, PTL

-----------------------------------------------------------------------------
\* The checkpoints of a role that this launch wrote and that are on disk, and those
\* its manager knows of: the ones in its list and the one it is writing.
Own(n) == {s \in Steps : \E k \in Ranks : OfThisLaunch(disk[s][n][k])}
Listed(n) == {saved[n][i] : i \in DOMAIN saved[n]}
InWrite(n) == IF pc = "write" /\ role = n THEN {globalStep} ELSE {}
Known(n) == Listed(n) \cup InWrite(n)

\* No weights are trained by a later launch.
NotLater(shard) == Readable(shard) /\ Len(shard) > 0 => shard[Len(shard)][1] <= life
Aged ==
  \A n \in DOMAIN Roles : \A k \in Ranks :
    NotLater(weights[n][k]) /\ \A s \in Steps : NotLater(disk[s][n][k])
Rotating ==
  /\ Aged
  /\ \A n \in DOMAIN Roles : keep[n] > 0 =>
       /\ Len(saved[n]) <= keep[n]
       /\ pc = "write" /\ role = n => Len(saved[n]) < keep[n]
       /\ Own(n) \subseteq Known(n)

LEMMA StepsFinite == \A S \in SUBSET Steps : IsFiniteSet(S) /\ Cardinality(S) \in Nat
PROOF
  <1>1. IsFiniteSet(Steps)
    <2>1. EpochLength * TotalEpochs \in Int
      BY StepNumbers
    <2> QED
      BY <2>1, FS_Interval DEF Steps
  <1> TAKE S \in SUBSET Steps
  <1>2. IsFiniteSet(S)
    BY <1>1, FS_Subset
  <1> QED
    BY <1>2, FS_CardinalityType

\* A list has at most as many members as entries.
LEMMA ListSize ==
  ASSUME NEW q \in Seq(Steps)
  PROVE  LET S == {q[i] : i \in DOMAIN q} IN S \in SUBSET Steps /\ Cardinality(S) <= Len(q)
PROOF
  <1> DEFINE S == {q[i] : i \in DOMAIN q}
  <1>1. S \in SUBSET Steps /\ DOMAIN q = 1..Len(q) /\ Len(q) \in Nat
    OBVIOUS
  <1>2. [i \in 1..Len(q) |-> q[i]] \in Surjection(1..Len(q), S)
    BY <1>1 DEF Surjection
  <1>3. ExistsSurjection(1..Len(q), S)
    BY <1>2 DEF ExistsSurjection
  <1> HIDE DEF S
  <1>4. Cardinality(S) <= Len(q)
    BY <1>1, <1>3, FS_SurjCardinalityBound
  <1> QED
    BY <1>1, <1>4 DEF S

\* A launch knows of as many checkpoints as it keeps.
LEMMA KnownSize ==
  ASSUME Inv, Rotating, NEW n \in DOMAIN Roles, keep[n] > 0
  PROVE  Known(n) \in SUBSET Steps /\ Cardinality(Known(n)) <= keep[n]
PROOF
  <1>1. /\ saved[n] \in Seq(Steps) /\ keep[n] \in Nat
        /\ Len(saved[n]) \in Nat /\ Len(saved[n]) <= keep[n]
        /\ pc = "write" /\ role = n => Len(saved[n]) < keep[n] /\ globalStep \in Steps
    BY DEF Inv, Typed, InLoop, Saving, Rotating
  <1>2. Listed(n) \in SUBSET Steps /\ Cardinality(Listed(n)) <= Len(saved[n])
        /\ IsFiniteSet(Listed(n)) /\ Cardinality(Listed(n)) \in Nat
    BY <1>1, ListSize, StepsFinite DEF Listed
  <1>3. CASE pc = "write" /\ role = n
    <2>1. Known(n) = Listed(n) \cup {globalStep}
      BY <1>3 DEF Known, InWrite
    <2>2. Cardinality(Known(n)) \in {Cardinality(Listed(n)), Cardinality(Listed(n)) + 1}
      BY <1>2, <2>1, FS_AddElement
    <2> QED
      BY <1>1, <1>2, <1>3, <2>1, <2>2
  <1>4. CASE ~(pc = "write" /\ role = n)
    <2>1. Known(n) = Listed(n)
      BY <1>4 DEF Known, InWrite
    <2> QED
      BY <1>1, <1>2, <2>1
  <1> QED
    BY <1>3, <1>4

LEMMA RotatingGivesBound == ASSUME Inv, Rotating PROVE RotationBounded
PROOF
  <1> SUFFICES ASSUME NEW n \in DOMAIN Roles, keep[n] > 0
               PROVE  Cardinality(Own(n)) <= keep[n]
    BY DEF RotationBounded, Own
  <1>1. Own(n) \subseteq Known(n) /\ Known(n) \in SUBSET Steps /\ Cardinality(Known(n)) <= keep[n]
    BY KnownSize DEF Rotating
  <1>2. IsFiniteSet(Known(n)) /\ Own(n) \in SUBSET Known(n)
    BY <1>1, StepsFinite
  <1>3. Cardinality(Own(n)) <= Cardinality(Known(n))
    BY <1>2, FS_Subset
  <1>4. Cardinality(Own(n)) \in Nat /\ Cardinality(Known(n)) \in Nat /\ keep[n] \in Nat
    BY <1>1, <1>2, StepsFinite DEF Inv, Typed
  <1> QED
    BY <1>1, <1>3, <1>4

\* A shard that stays, or is lost, is no newer than it was.
LEMMA AgedKept ==
  ASSUME Aged, UNCHANGED <<life, weights>>,
         \A s \in Steps, n \in DOMAIN Roles, k \in Ranks : disk'[s][n][k] \in {disk[s][n][k], Missing, Torn}
  PROVE  Aged' /\ \A n \in DOMAIN Roles : Own(n)' \subseteq Own(n)
PROOF
  <1>1. ASSUME NEW s \in Steps, NEW n \in DOMAIN Roles, NEW k \in Ranks
        PROVE  /\ NotLater(disk[s][n][k])'
               /\ OfThisLaunch(disk[s][n][k])' => OfThisLaunch(disk[s][n][k])
    BY <1>1 DEF Aged, NotLater, OfThisLaunch, Readable
  <1>2. \A n \in DOMAIN Roles : Own(n)' \subseteq Own(n)
    BY <1>1 DEF Own
  <1>3. Aged'
    BY <1>1 DEF Aged, NotLater, Readable
  <1> QED
    BY <1>2, <1>3

\* Steps that write no shard and leave the lists alone.
LEMMA RotatingKept ==
  ASSUME Rotating, UNCHANGED <<keep, life, disk, saved>>, pc # "write", pc' # "write",
         \A n \in DOMAIN Roles : \A k \in Ranks : NotLater(weights[n][k])'
  PROVE  Rotating'
  BY DEF Rotating, Aged, NotLater, Own, OfThisLaunch, Known, Listed, InWrite

LEMMA RotatingRotate == ASSUME Inv, Rotating, Rotate PROVE Rotating'
PROOF
  <1>1. /\ pc = "rotate" /\ pc' = "write" /\ UNCHANGED <<keep, life, role, globalStep, weights>>
        /\ disk' = Without(Rotated \X Ranks)
        /\ saved' = IF Full THEN [saved EXCEPT ![role] = SubSeq(@, KeepStart + 1, Len(@))] ELSE saved
    BY DEF Rotate, config, loopVars
  <1>2. /\ role \in DOMAIN Roles /\ saved \in [DOMAIN Roles -> Seq(Steps)]
        /\ keep \in [DOMAIN Roles -> Nat] /\ disk \in [Steps -> Shards]
    BY DEF Inv, Typed
  <1>3. Aged' /\ \A n \in DOMAIN Roles : Own(n)' \subseteq Own(n)
    <2>1. \A s \in Steps, n \in DOMAIN Roles, k \in Ranks : disk'[s][n][k] \in {disk[s][n][k], Missing}
      BY <1>1, RemovalSpares
    <2> QED
      BY <1>1, <2>1, AgedKept DEF Rotating
  <1> SUFFICES ASSUME NEW n \in DOMAIN Roles, keep[n] > 0
               PROVE  /\ Len(saved'[n]) <= keep[n]
                      /\ pc' = "write" /\ role' = n => Len(saved'[n]) < keep[n]
                      /\ Own(n)' \subseteq Known(n)'
    BY <1>1, <1>3 DEF Rotating
  <1>4. Own(n) \subseteq Known(n)
    BY DEF Rotating
  <1>5. Known(n) = Listed(n) /\ Listed(n)' \subseteq Known(n)'
    BY <1>1 DEF Known, InWrite
  <1>6. Len(saved[n]) <= keep[n] /\ Len(saved[n]) \in Nat /\ keep[n] \in Nat
    BY <1>2 DEF Rotating
  <1>7. CASE n # role \/ ~Full
    <2>1. saved'[n] = saved[n]
      BY <1>1, <1>2, <1>7
    <2>2. Listed(n)' = Listed(n)
      BY <2>1 DEF Listed
    <2>3. n = role => Len(saved[n]) < keep[n]
      BY <1>6, <1>7 DEF Full
    <2> QED
      BY <1>1, <1>3, <1>4, <1>5, <1>6, <2>1, <2>2, <2>3
  <1>8. CASE n = role /\ Full
    <2>1. Len(saved[n]) = keep[n] /\ KeepStart = 1 /\ Len(saved[n]) > 0
      BY <1>6, <1>8 DEF Full, KeepStart
    <2>2. saved'[n] = SubSeq(saved[n], 2, Len(saved[n])) /\ saved[n] \in Seq(Steps)
      BY <1>1, <1>2, <1>8, <2>1
    <2>3. /\ Len(saved'[n]) = Len(saved[n]) - 1
          /\ \A i \in DOMAIN saved[n] : i # 1 => i - 1 \in DOMAIN saved'[n]
                                              /\ saved'[n][i - 1] = saved[n][i]
      BY <1>6, <2>1, <2>2
    <2>4. saved[n][1] \in Rotated
      <3>1. 1 \in DOMAIN saved[role] /\ 1 <= KeepStart
        BY <1>2, <1>8, <2>1
      <3> QED
        BY <1>8, <3>1 DEF Rotated
    <2>5. saved[n][1] \notin Own(n)'
      <3> DEFINE t == saved[n][1]
                 gone == [k \in Ranks |-> IF <<t, k>> \in Rotated \X Ranks THEN Missing
                                         ELSE disk[t][role][k]]
      <3>1. t \in Steps /\ t \in Rotated
        BY <2>1, <2>2, <2>4
      <3>2. disk'[t] = [disk[t] EXCEPT ![role] = gone] /\ disk[t] \in Shards
        BY <1>1, <1>2, <3>1 DEF Without
      <3>3. \A k \in Ranks : gone[k] = Missing
        BY <3>1
      <3> HIDE DEF gone, t
      <3>4. \A k \in Ranks : disk'[t][n][k] = Missing
        BY <1>2, <1>8, <3>2, <3>3 DEF Shards
      <3>5. t \notin Own(n)'
        BY <3>4 DEF Own, OfThisLaunch, Readable
      <3> QED
        BY <3>5 DEF t
    <2>6. Own(n)' \subseteq Listed(n)'
      <3> SUFFICES ASSUME NEW s \in Own(n)' PROVE s \in Listed(n)'
        OBVIOUS
      <3>1. s \in Listed(n) /\ s # saved[n][1]
        BY <1>3, <1>4, <1>5, <2>5
      <3>2. PICK i \in DOMAIN saved[n] : s = saved[n][i]
        BY <3>1 DEF Listed
      <3>3. i # 1
        BY <3>1, <3>2
      <3> QED
        BY <2>3, <3>2, <3>3 DEF Listed
    <2> QED
      BY <1>5, <1>6, <2>1, <2>3, <2>6
  <1> QED
    BY <1>7, <1>8

\* A shard of the step at hand adds that step only.
LEMMA RotatingWrite ==
  ASSUME Inv, Rotating, NEW k \in Ranks, WriteShard(k)
  PROVE  Rotating'
PROOF
  <1>1. /\ pc = "write" /\ UNCHANGED <<keep, life, pc, role, globalStep, saved, weights>>
        /\ disk' = [disk EXCEPT ![globalStep][role] = [@ EXCEPT ![k] = weights[role][k]]]
    BY DEF WriteShard, config, loopVars
  <1>2. globalStep \in Steps /\ role \in DOMAIN Roles /\ disk \in [Steps -> Shards]
    BY <1>1 DEF Inv, Typed, InLoop, Saving
  <1>3. ASSUME NEW s \in Steps, NEW n \in DOMAIN Roles, NEW j \in Ranks
        PROVE  \/ disk'[s][n][j] = disk[s][n][j]
               \/ s = globalStep /\ n = role /\ disk'[s][n][j] = weights[n][j]
    <2>1. disk[s] \in Shards /\ disk[s][n] \in [Ranks -> Lineages \cup {Missing, Torn}]
      BY <1>2 DEF Shards
    <2>2. CASE s = globalStep /\ n = role
      <3> DEFINE f == [disk[globalStep][role] EXCEPT ![k] = weights[role][k]]
      <3>1. f[j] \in {disk[s][n][j], weights[n][j]}
        BY <2>1, <2>2
      <3>2. disk' = [disk EXCEPT ![globalStep] = [@ EXCEPT ![role] = f]]
        BY <1>1
      <3> HIDE DEF f
      <3>3. disk'[s][n] = f
        BY <1>2, <2>1, <2>2, <3>2 DEF Shards
      <3> QED
        BY <2>2, <3>1, <3>3
    <2>3. CASE ~(s = globalStep /\ n = role)
      BY <1>1, <1>2, <2>1, <2>3 DEF Shards
    <2> QED
      BY <2>2, <2>3
  <1>4. Aged'
    <2>1. ASSUME NEW s \in Steps, NEW n \in DOMAIN Roles, NEW j \in Ranks
          PROVE  NotLater(disk[s][n][j])' /\ NotLater(weights[n][j])'
      BY <1>1, <1>3 DEF Rotating, Aged, NotLater, Readable
    <2> QED
      BY <1>2, <2>1 DEF Aged
  <1>5. \A n \in DOMAIN Roles : Own(n)' \subseteq Own(n) \cup InWrite(n)
    <2> SUFFICES ASSUME NEW n \in DOMAIN Roles, NEW s \in Own(n)'
                 PROVE  s \in Own(n) \cup InWrite(n)
      OBVIOUS
    <2>1. PICK j \in Ranks : OfThisLaunch(disk[s][n][j])'
      BY DEF Own
    <2>2. s \in Steps
      BY DEF Own
    <2>3. CASE disk'[s][n][j] = disk[s][n][j]
      <3>1. OfThisLaunch(disk[s][n][j])
        BY <1>1, <2>1, <2>3 DEF OfThisLaunch, Readable
      <3> QED
        BY <2>2, <3>1 DEF Own
    <2>4. CASE s = globalStep /\ n = role
      BY <1>1, <2>4 DEF InWrite
    <2> QED
      BY <1>3, <2>2, <2>3, <2>4
  <1>6. \A n \in DOMAIN Roles : Known(n)' = Known(n) /\ InWrite(n) \subseteq Known(n)
    BY <1>1 DEF Known, InWrite, Listed
  <1> QED
    BY <1>1, <1>4, <1>5, <1>6 DEF Rotating

\* The step that was written is in the list.
LEMMA RotatingSaved == ASSUME Inv, Rotating, RoleSaved PROVE Rotating'
PROOF
  <1>1. /\ pc = "write" /\ pc' # "write" /\ UNCHANGED <<keep, life, disk, weights>>
        /\ saved' = [saved EXCEPT ![role] = Append(saved[role], globalStep)]
    BY DEF RoleSaved, config, loopVars, fileVars
  <1>2. /\ role \in DOMAIN Roles /\ saved \in [DOMAIN Roles -> Seq(Steps)]
        /\ keep \in [DOMAIN Roles -> Nat] /\ globalStep \in Steps
    BY <1>1 DEF Inv, Typed, InLoop, Saving
  <1>3. Aged' /\ \A n \in DOMAIN Roles : Own(n)' = Own(n)
    BY <1>1 DEF Rotating, Aged, NotLater, Readable, Own, OfThisLaunch
  <1> SUFFICES ASSUME NEW n \in DOMAIN Roles, keep[n] > 0
               PROVE  Len(saved'[n]) <= keep[n] /\ Own(n)' \subseteq Known(n)'
    BY <1>1, <1>3 DEF Rotating
  <1>4. /\ Len(saved[n]) <= keep[n] /\ Len(saved[n]) \in Nat /\ keep[n] \in Nat
        /\ (n = role => Len(saved[n]) < keep[n]) /\ Own(n) \subseteq Known(n)
    BY <1>1, <1>2 DEF Rotating
  <1>5. CASE n # role
    <2>1. saved'[n] = saved[n]
      BY <1>1, <1>2, <1>5
    <2>2. Known(n) \subseteq Known(n)'
      BY <1>1, <1>5, <2>1 DEF Known, InWrite, Listed
    <2> QED
      BY <1>3, <1>4, <2>1, <2>2
  <1>6. CASE n = role
    <2>1. saved'[n] = Append(saved[n], globalStep) /\ saved[n] \in Seq(Steps)
      BY <1>1, <1>2, <1>6
    <2>2. /\ Len(saved'[n]) = Len(saved[n]) + 1
          /\ \A i \in DOMAIN saved[n] : i \in DOMAIN saved'[n] /\ saved'[n][i] = saved[n][i]
          /\ Len(saved[n]) + 1 \in DOMAIN saved'[n]
          /\ saved'[n][Len(saved[n]) + 1] = globalStep
      BY <1>2, <1>4, <2>1
    <2>3. Known(n) \subseteq Listed(n)'
      BY <1>1, <2>2 DEF Known, InWrite, Listed
    <2> QED
      BY <1>3, <1>4, <1>6, <2>2, <2>3 DEF Known
  <1> QED
    BY <1>5, <1>6

\* A later launch has written nothing yet.
LEMMA RotatingCrash == ASSUME Inv, Rotating, Crash PROVE Rotating'
PROOF
  <1>1. /\ Damaged /\ UNCHANGED keep /\ life' = life + 1 /\ pc' = "load" /\ life \in Nat
        /\ saved' = [n \in DOMAIN Roles |-> <<>>] /\ weights' = Fresh(<<>>)
    BY CheckpointAssumption DEF Crash, config, Inv, Typed
  <1>2. ASSUME NEW s \in Steps, NEW n \in DOMAIN Roles, NEW k \in Ranks
        PROVE  disk'[s][n][k] \in {disk[s][n][k], Missing, Torn}
    <2>1. CASE pc \in {"load", "train", "log", "ended", "failed", "data", "tracker"}
      BY <1>1, <2>1 DEF Damaged, fileVars
    <2>2. CASE pc = "rotate"
      <3>1. PICK files \in SUBSET (Rotated \X Ranks) : disk' = Without(files)
        BY <1>1, <2>2 DEF Damaged
      <3> QED
        BY <2>2, <3>1, RemovalSpares
    <2>3. CASE pc = "write"
      <3>1. PICK open \in SUBSET todo :
              disk' = [disk EXCEPT ![globalStep][role] =
                         [j \in Ranks |-> IF j \in open THEN Torn ELSE @[j]]]
        BY <1>1, <2>3 DEF Damaged
      <3> DEFINE f == [j \in Ranks |-> IF j \in open THEN Torn ELSE disk[globalStep][role][j]]
      <3>2. f[k] \in {disk[globalStep][role][k], Torn}
        OBVIOUS
      <3>3. disk' = [disk EXCEPT ![globalStep] = [@ EXCEPT ![role] = f]]
        BY <3>1
      <3> HIDE DEF f
      <3>4. disk \in [Steps -> Shards] /\ disk[s] \in Shards /\ globalStep \in Steps /\ role \in DOMAIN Roles
        BY <2>3 DEF Inv, Typed, InLoop, Saving
      <3>5. disk'[s][n] = IF s = globalStep /\ n = role THEN f ELSE disk[s][n]
        BY <3>3, <3>4 DEF Shards
      <3> QED
        BY <3>2, <3>5
    <2> QED
      BY <1>1, <2>1, <2>2, <2>3 DEF Damaged
  \* What is on disk was written by an earlier launch.
  <1>3. ASSUME NEW s \in Steps, NEW n \in DOMAIN Roles, NEW k \in Ranks
        PROVE  NotLater(disk[s][n][k])' /\ ~OfThisLaunch(disk[s][n][k])'
    <2> SUFFICES ASSUME Readable(disk'[s][n][k]), Len(disk'[s][n][k]) > 0
                 PROVE  /\ disk'[s][n][k][Len(disk'[s][n][k])][1] <= life'
                        /\ disk'[s][n][k][Len(disk'[s][n][k])][1] # life'
      BY DEF NotLater, OfThisLaunch, Readable
    <2>1. disk'[s][n][k] = disk[s][n][k]
      BY <1>2 DEF Readable
    <2> DEFINE w == disk[s][n][k]
    <2>2. w \in Lineages
      BY <2>1 DEF Inv, Typed, Shards, Readable
    <2> DEFINE last == w[Len(w)]
    <2>3. last \in (1..MaxCrashes + 1) \X (0..EpochLength - 1)
      BY <2>1, <2>2 DEF Lineages
    <2>4. last[1] <= life
      BY <2>1 DEF Rotating, Aged, NotLater
    <2>5. last[1] \in 1..MaxCrashes + 1
      BY <2>3
    <2> HIDE DEF w, last
    <2>6. last[1] <= life' /\ last[1] # life'
      BY <1>1, <2>4, <2>5, CheckpointAssumption
    <2> QED
      BY <2>1, <2>6 DEF last, w
  <1>4. Aged'
    <2>1. \A n \in DOMAIN Roles : \A k \in Ranks : weights'[n][k] = <<>>
      BY <1>1, FreshWeights
    <2>2. \A n \in DOMAIN Roles : \A k \in Ranks : NotLater(weights[n][k])'
      BY <2>1 DEF NotLater
    <2> QED
      BY <1>3, <2>2 DEF Aged
  <1>5. \A n \in DOMAIN Roles : Own(n)' = {}
    BY <1>3 DEF Own
  <1>6. \A n \in DOMAIN Roles : Len(saved'[n]) = 0 /\ keep[n] \in Nat
    BY <1>1 DEF Inv, Typed
  <1> QED
    BY <1>1, <1>4, <1>5, <1>6 DEF Rotating

LEMMA RotatingNext ==
  ASSUME Inv, Rotating, [Next]_vars
  PROVE  Rotating'
PROOF
  <1>1. CASE FromScratch \/ Unloadable \/ Restore \/ NextEpoch \/ LoopOver \/ SaveData \/ StepEnds
             \/ WriteTracker \/ \E close \in BOOLEAN : TrainStep(close)
    <2>1. UNCHANGED <<keep, life, disk, saved>> /\ pc # "write" /\ pc' # "write"
      BY <1>1 DEF FromScratch, Unloadable, Restore, NextEpoch, LoopOver, SaveData, StepEnds,
                  WriteTracker, TrainStep, config, loopVars, fileVars
    <2>2. ASSUME NEW n \in DOMAIN Roles, NEW k \in Ranks PROVE NotLater(weights[n][k])'
      <3>1. CASE weights' = weights
        BY <2>1, <3>1 DEF Rotating, Aged, NotLater, Readable
      <3>2. CASE Restore
        <4>1. weights' = disk[tracker] /\ tracker \in Steps
          BY <3>2 DEF Restore, Inv, Typed, Readable
        <4> QED
          BY <2>1, <4>1 DEF Rotating, Aged, NotLater, Readable
      <3>3. ASSUME NEW close \in BOOLEAN, TrainStep(close) PROVE NotLater(weights[n][k])'
        <4> DEFINE w == weights[n][k]
                   e == <<life, yielded>>
        <4>1. weights'[n][k] = Append(w, e) /\ w \in Lineages /\ life \in Nat
          BY <3>3, CheckpointAssumption DEF TrainStep, Inv, Typed
        <4>2. Len(Append(w, e)) = Len(w) + 1 /\ Append(w, e)[Len(w) + 1] = e
          BY <4>1 DEF Lineages
        <4>3. e[1] = life
          OBVIOUS
        <4> HIDE DEF w, e
        <4> QED
          BY <2>1, <4>1, <4>2, <4>3 DEF NotLater
      <3> QED
        BY <1>1, <3>1, <3>2, <3>3 DEF FromScratch, Unloadable, NextEpoch, LoopOver, SaveData,
                                      StepEnds, WriteTracker, loopVars
    <2> QED
      BY <2>1, <2>2, RotatingKept
  <1>2. CASE Stopped \/ UNCHANGED vars
    <2>1. UNCHANGED vars
      BY <1>2 DEF Stopped
    <2> QED
      BY <2>1 DEF vars, config, loopVars, fileVars, Rotating, Aged, NotLater, Readable, Own,
                  OfThisLaunch, Known, Listed, InWrite
  <1>3. CASE Rotate \/ RoleSaved \/ Crash
    BY <1>3, RotatingRotate, RotatingSaved, RotatingCrash
  <1>4. CASE \E k \in Ranks : WriteShard(k)
    BY <1>4, RotatingWrite
  <1> QED
    BY <1>1, <1>2, <1>3, <1>4 DEF Next, Work

\* Of the checkpoints a launch wrote, no role has more than max_ckpt_to_keep on disk:
\* FSDPCheckpointManager removes the oldest it knows of before it writes.  It knows
\* of none that another launch wrote.
THEOREM RotationAlwaysBounded == Spec => []RotationBounded
PROOF
  <1>1. Init => Rotating
    <2> SUFFICES ASSUME Init PROVE Rotating
      OBVIOUS
    <2>1. /\ life = 1 /\ pc = "load" /\ saved = [n \in DOMAIN Roles |-> <<>>]
          /\ disk = [s \in Steps |-> Fresh(Missing)] /\ weights = Fresh(<<>>)
      BY DEF Init
    <2>2. /\ \A n \in DOMAIN Roles : \A k \in Ranks : weights[n][k] = <<>>
          /\ \A s \in Steps : \A n \in DOMAIN Roles : \A k \in Ranks : disk[s][n][k] = Missing
      BY <2>1, FreshWeights
    <2>3. Aged /\ \A n \in DOMAIN Roles : Own(n) = {}
      BY <2>2 DEF Aged, NotLater, Own, OfThisLaunch, Readable
    <2>4. \A n \in DOMAIN Roles : keep[n] \in Nat /\ Len(saved[n]) = 0
      BY <2>1, InitInv DEF Inv, Typed
    <2> QED
      BY <2>1, <2>3, <2>4 DEF Rotating
  <1>2. Inv /\ Rotating /\ [Next]_vars => Inv' /\ Rotating'
    BY NextInv, RotatingNext
  <1>3. Spec => [](Inv /\ Rotating)
    BY <1>1, <1>2, InitInv, PTL DEF Spec
  <1>4. Inv /\ Rotating => RotationBounded
    BY RotatingGivesBound
  <1> QED
    BY <1>3, <1>4, PTL
=============================================================================
