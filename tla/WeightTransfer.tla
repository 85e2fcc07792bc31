--------------------------- MODULE WeightTransfer ---------------------------
(***************************************************************************)
(* The weight transfer of a synchronization: fully_async_policy/           *)
(* checkpoint_engine.py, as sync_rollout_weights_by_checkpoint uses it.    *)
(*                                                                         *)
(* Actor ranks keep the parameters in buckets and broadcast them in turn   *)
(* to all ranks.  With overlap each rank receives into one half of its     *)
(* buffer while a thread loads the other half into the inference model;    *)
(* the two talk by a REQ/REP socket, and every rank must make the same     *)
(* collective calls in the same order.  A bucket's content is the names of *)
(* its parameters and their version.                                       *)
(***************************************************************************)
EXTENDS Naturals, Sequences, FiniteSets, SequencesExt

CONSTANTS
  NumActors, NumRollouts,
  NumParams,
  Sizes,          \* aligned sizes of a parameter
  DeviceBuffer,   \* device_buffer_size_M
  MaxUpdates,     \* bound on the synchronizations
  MaxFailures     \* bound on the loads that raise

ASSUME TransferAssumption ==
  /\ NumActors \in Nat \ {0} /\ NumRollouts \in Nat /\ NumParams \in Nat \ {0}
  /\ Sizes \subseteq Nat \ {0} /\ DeviceBuffer \in Nat /\ MaxUpdates \in Nat
  /\ MaxFailures \in Nat

Actors == 1..NumActors
Rollouts == NumActors + 1..NumActors + NumRollouts
Ranks == Actors \cup Rollouts
Params == 1..NumParams

VARIABLES
  sizes,     \* of the parameters (weights_info)
  rounds,    \* the buckets of global_buckets, in the order they are broadcast
  overlap,   \* overlap_broadcast_and_consume
  pc,        \* of a rank: "done", "ready", "copy", "broadcast", "reply", "sync", "load",
             \* "stop", "final", "raised"
  update,    \* the synchronization a rank is in, or returned from
  gidx,      \* buckets received
  joined,    \* collective calls made so far
  memory,    \* version in the memory_buffers of an actor rank, 0 if empty
  wire,      \* what the last broadcast of each round carried
  half,      \* content of the halves of broadcast_load_buffer
  thread,    \* of a rank's req_thread: "none", "hello", "wait", "loading", "dead"
  channel,   \* of the REQ/REP socket: "idle", "request", "reply"
  request,   \* the last request: names and start; no names to say the update is done
  loaded,    \* what the rank loaded in this update: name, content and version
  failures

planVars == <<sizes, rounds, overlap>>
bufferVars == <<memory, wire, half>>
socketVars == <<channel, request>>
vars == <<planVars, pc, update, gidx, joined, bufferVars, thread, socketVars, loaded, failures>>

(***************************************************************************)
(* register_checkpoint: parameter p belongs to the actor ranks in turn; an *)
(* actor opens a new bucket when its last one would overflow.              *)
(***************************************************************************)
BucketSize(sz) == Max({DeviceBuffer} \cup {sz[p] : p \in Params})

TotalSize(sz, bucket) ==
  LET upTo[i \in 0..Len(bucket)] == IF i = 0 THEN 0 ELSE upTo[i - 1] + sz[bucket[i]]
  IN upTo[Len(bucket)]

Overflows(sz, bucket, p) == TotalSize(sz, bucket) + sz[p] > BucketSize(sz)

Owner(p) == ((p - 1) % NumActors) + 1

Placed(sz, buckets, p) ==
  LET mine == buckets[Owner(p)] IN
  [buckets EXCEPT ![Owner(p)] =
    IF Overflows(sz, Last(mine), p) THEN Append(mine, <<p>>)
    ELSE [mine EXCEPT ![Len(mine)] = Append(@, p)]]

GlobalBuckets(sz) ==
  LET upTo[p \in 0..NumParams] ==
        IF p = 0 THEN [a \in Actors |-> << << >> >>] ELSE Placed(sz, upTo[p - 1], p)
  IN upTo[NumParams]

\* Bucket i of every actor that has one, then bucket i + 1.
Rounds(sz) ==
  LET buckets == GlobalBuckets(sz)
      most == Max({Len(buckets[a]) : a \in Actors})
      turn(i, a) == IF i <= Len(buckets[a])
                    THEN << [rank |-> a, names |-> buckets[a][i]] >> ELSE << >>
  IN FlattenSeq([i \in 1..most |-> FlattenSeq([a \in Actors |-> turn(i, a)])])

Nothing == [names |-> << >>, version |-> 0]
Done == [names |-> << >>, start |-> 2]

Init ==
  /\ sizes \in [Params -> Sizes] /\ rounds = Rounds(sizes) /\ overlap \in BOOLEAN
  /\ pc = [r \in Ranks |-> "done"] /\ update = [r \in Ranks |-> 0]
  /\ gidx = [r \in Ranks |-> 0] /\ joined = [r \in Ranks |-> 0]
  /\ memory = [a \in Actors |-> 0] /\ wire = [g \in DOMAIN rounds |-> Nothing]
  /\ half = [r \in Ranks |-> [h \in {0, 1} |-> Nothing]]
  /\ thread = [r \in Ranks |-> "none"] /\ channel = [r \in Ranks |-> "idle"]
  /\ request = [r \in Ranks |-> Done]
  /\ loaded = [r \in Ranks |-> << >>] /\ failures = 0

Goto(r, place) == pc' = [pc EXCEPT ![r] = place]
Join(r) == joined' = [joined EXCEPT ![r] = @ + 1]

\* The collective call a rank is in returns once every rank has made it.
AllIn(r) == \A s \in Ranks : joined[s] >= joined[r]

(***************************************************************************)
(* A rank's main thread                                                    *)
(***************************************************************************)
\* sync_weights calls the ranks again when the rollout ranks have returned.
Call(r) ==
  /\ pc[r] = "done" /\ update[r] < MaxUpdates
  /\ \A s \in Rollouts : update[s] > update[r] \/ (update[s] = update[r] /\ pc[s] = "done")
  /\ update' = [update EXCEPT ![r] = @ + 1]
  /\ memory' = IF r \in Actors THEN [memory EXCEPT ![r] = update'[r]] ELSE memory
  /\ gidx' = [gidx EXCEPT ![r] = 0] /\ loaded' = [loaded EXCEPT ![r] = << >>]
  /\ Goto(r, "ready") /\ Join(r)
  /\ UNCHANGED <<planVars, wire, half, thread, socketVars, failures>>

\* update_checkpoint starts, with its thread.
Start(r) ==
  /\ pc[r] = "ready" /\ AllIn(r) /\ Goto(r, "copy")
  /\ IF overlap
       THEN /\ thread' = [thread EXCEPT ![r] = "hello"]
            /\ channel' = [channel EXCEPT ![r] = "request"]
       ELSE UNCHANGED <<thread, channel>>
  /\ UNCHANGED <<planVars, update, gidx, joined, bufferVars, request, loaded, failures>>

OneHalf(g) == 0                            \* mutant: the buffer is not doubled
Half(g) == IF overlap THEN g % 2 ELSE 0

\* The owner of the bucket copies it into its buffer; all join the broadcast.
Broadcast(r) ==
  /\ pc[r] = "copy" /\ gidx[r] < Len(rounds) /\ Goto(r, "broadcast") /\ Join(r)
  /\ LET g == gidx[r] + 1 IN
       wire' = IF rounds[g].rank = r
               THEN [wire EXCEPT ![g] = [names |-> rounds[g].names, version |-> memory[r]]]
               ELSE wire
  /\ UNCHANGED <<planVars, update, gidx, memory, half, thread, socketVars, loaded, failures>>

Received(r) ==
  /\ pc[r] = "broadcast" /\ AllIn(r)
  /\ half' = [half EXCEPT ![r][Half(gidx[r])] = wire[gidx[r] + 1]]
  /\ Goto(r, IF overlap THEN "reply" ELSE "load")
  /\ UNCHANGED <<planVars, update, gidx, joined, memory, wire, thread, socketVars, loaded, failures>>

\* _extract_weights: the metadata's names, with what the buffer holds in their place.
Extracted(names, content) ==
  [i \in DOMAIN names |->
    [name |-> names[i], version |-> content.version,
     of |-> IF i \in DOMAIN content.names THEN content.names[i] ELSE 0]]

Loads(r, names, content) ==
  loaded' = IF r \in Rollouts THEN [loaded EXCEPT ![r] = @ \o Extracted(names, content)]
            ELSE loaded

LoadInPlace(r) ==
  /\ pc[r] = "load" /\ Loads(r, rounds[gidx[r] + 1].names, half[r][0])
  /\ gidx' = [gidx EXCEPT ![r] = @ + 1] /\ Goto(r, "copy")
  /\ UNCHANGED <<planVars, update, joined, bufferVars, thread, socketVars, failures>>

\* The reply says that the other half is loaded; then all ranks meet.
Replied(r) == channel[r] = "reply"
AwaitReply(r) ==
  /\ pc[r] = "reply" /\ Replied(r) /\ channel' = [channel EXCEPT ![r] = "idle"]
  /\ Goto(r, "sync") /\ Join(r)
  /\ UNCHANGED <<planVars, update, gidx, bufferVars, thread, request, loaded, failures>>

Request(r, what) ==
  /\ channel' = [channel EXCEPT ![r] = "request"]
  /\ request' = [request EXCEPT ![r] = what]

SendMetas(r) ==
  /\ pc[r] = "sync" /\ AllIn(r)
  /\ Request(r, [names |-> rounds[gidx[r] + 1].names, start |-> Half(gidx[r])])
  /\ gidx' = [gidx EXCEPT ![r] = @ + 1] /\ Goto(r, "copy")
  /\ UNCHANGED <<planVars, update, joined, bufferVars, thread, loaded, failures>>

SendDone(r) ==
  /\ pc[r] = "copy" /\ gidx[r] = Len(rounds) /\ overlap
  /\ channel[r] = "reply" /\ Request(r, Done) /\ Goto(r, "stop")
  /\ UNCHANGED <<planVars, update, gidx, joined, bufferVars, thread, loaded, failures>>

\* The last barrier, after the thread is joined.
ThreadOver(r) ==
  \/ ~overlap /\ pc[r] = "copy" /\ gidx[r] = Len(rounds)
  \/ overlap /\ pc[r] = "stop" /\ channel[r] = "reply"

Finish(r) ==
  /\ ThreadOver(r) /\ channel' = [channel EXCEPT ![r] = "idle"]
  /\ Goto(r, "final") /\ Join(r)
  /\ UNCHANGED <<planVars, update, gidx, bufferVars, thread, request, loaded, failures>>

AtOnce(r) == TRUE                          \* mutant: the last barrier is left out
LastBarrier(r) == AllIn(r)
Return(r) ==
  /\ pc[r] = "final" /\ LastBarrier(r) /\ Goto(r, "done")
  /\ memory' = IF r \in Actors THEN [memory EXCEPT ![r] = 0] ELSE memory
  /\ UNCHANGED <<planVars, update, gidx, joined, wire, half, thread, socketVars, loaded, failures>>

(***************************************************************************)
(* Its req_thread                                                          *)
(***************************************************************************)
Silent(r) == UNCHANGED channel             \* mutant: the request is not answered
Reply(r) == channel' = [channel EXCEPT ![r] = "reply"]
Thread(r, state) == thread' = [thread EXCEPT ![r] = state]

Hello(r) ==
  /\ thread[r] = "hello" /\ channel[r] = "request" /\ Reply(r) /\ Thread(r, "wait")
  /\ UNCHANGED <<planVars, pc, update, gidx, joined, bufferVars, request, loaded, failures>>

Take(r) ==
  /\ thread[r] = "wait" /\ channel[r] = "request"
  /\ IF request[r] = Done THEN Reply(r) /\ Thread(r, "none")
                          ELSE Thread(r, "loading") /\ UNCHANGED channel
  /\ UNCHANGED <<planVars, pc, update, gidx, joined, bufferVars, request, loaded, failures>>

LoadEnds(r) ==
  /\ thread[r] = "loading" /\ Loads(r, request[r].names, half[r][request[r].start])
  /\ Reply(r) /\ Thread(r, "wait")
  /\ UNCHANGED <<planVars, pc, update, gidx, joined, bufferVars, request, failures>>

\* load_weights raises: the thread dies unheard, or the call fails.
LoadFails(r) ==
  /\ r \in Rollouts /\ failures < MaxFailures /\ failures' = failures + 1
  /\ \/ thread[r] = "loading" /\ Thread(r, "dead") /\ UNCHANGED pc
     \/ pc[r] = "load" /\ Goto(r, "raised") /\ UNCHANGED thread
  /\ UNCHANGED <<planVars, update, gidx, joined, bufferVars, socketVars, loaded>>

-----------------------------------------------------------------------------
Main(r) ==
  \/ Call(r) \/ Start(r) \/ Broadcast(r) \/ Received(r) \/ LoadInPlace(r) \/ AwaitReply(r)
  \/ SendMetas(r) \/ SendDone(r) \/ Finish(r) \/ Return(r)
ReqThread(r) == Hello(r) \/ Take(r) \/ LoadEnds(r)

Next == \E r \in Ranks : Main(r) \/ ReqThread(r) \/ LoadFails(r)

Spec == Init /\ [][Next]_vars
FairSpec == Spec /\ \A r \in Ranks : WF_vars(Main(r)) /\ WF_vars(ReqThread(r))

-----------------------------------------------------------------------------
TypeOK ==
  /\ pc \in [Ranks -> {"done", "ready", "copy", "broadcast", "reply", "sync", "load", "stop",
                       "final", "raised"}]
  /\ update \in [Ranks -> 0..MaxUpdates] /\ gidx \in [Ranks -> 0..Len(rounds)]
  /\ joined \in [Ranks -> Nat] /\ memory \in [Actors -> 0..MaxUpdates]
  /\ thread \in [Ranks -> {"none", "hello", "wait", "loading", "dead"}]
  /\ channel \in [Ranks -> {"idle", "request", "reply"}]

\* No half of a rank's buffer is written while it is being loaded, however far
\* the ranks drift apart between two collective calls (checkpoint_engine.py 494-506).
BuffersApart ==
  \A r \in Ranks :
    thread[r] = "loading" /\ pc[r] = "broadcast" => request[r].start # Half(gidx[r])

\* A bucket never runs into the other half.
BucketsFit == \A g \in DOMAIN rounds : TotalSize(sizes, rounds[g].names) <= BucketSize(sizes)

\* When any rank returns from an update, every rollout rank has loaded every
\* parameter once, under its own name, in the version of this update: generation
\* resumes on whole weights, even though the ranks return one by one (513-520).
Delivered ==
  \A r \in Ranks : pc[r] = "done" /\ update[r] > 0 =>
    \A s \in Rollouts : update[s] = update[r] =>
      /\ Len(loaded[s]) = NumParams
      /\ \A p \in Params : \E i \in DOMAIN loaded[s] :
           loaded[s][i] = [name |-> p, of |-> p, version |-> update[r]]

\* The transfer in one sentence.
TransferWhole == TypeOK /\ BucketsFit /\ Delivered

\* Unless a load raises every update ends: all ranks make the same collective
\* calls, and no request stays unanswered.
UpdatesEnd ==
  [](failures = 0) => <>(\A r \in Ranks : pc[r] = "done" /\ update[r] = MaxUpdates)
=============================================================================
