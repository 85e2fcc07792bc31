--------------------------- MODULE Channels_proofs ---------------------------
(***************************************************************************)
(* The two ways between the rollouter and the trainer.                     *)
(*                                                                         *)
(* Samples, one way: for every capacity, every set of consumers and every  *)
(* set of entries the message queue keeps its types, loses no wakeup,      *)
(* accounts for every entry, and implements SampleStream.                  *)
(*                                                                         *)
(* Weights, the other way: BuffersApart and TransferWhole for any number   *)
(* of ranks, parameters and updates, whatever the sizes of the parameters, *)
(* with overlap or without, and whichever loads raise.                     *)
(***************************************************************************)
EXTENDS MessageQueueLog, WeightTransfer, FunctionTheorems, WellFoundedInduction, TLAPS

(* The samples                                                             *)

Cursor == consumed + dropped + cleared

\* The queue is the part of the log beyond the cursor, entry by entry.
Accounted ==
  /\ produced = Len(sent)
  /\ Cursor + Len(queue) = Len(sent)
  /\ \A i \in 1..Len(queue) : queue[i] = sent[Cursor + i]

LogInv == LogTypeOK /\ NoLostWakeup /\ Accounted

-----------------------------------------------------------------------------
\* Dropping the head of a sequence shifts its entries by one; the fact behind
\* popleft(), stated once for get_sample and for put_sample on a full queue.
LEMMA TailShifts ==
  ASSUME NEW S, NEW q \in Seq(S), q # << >>
  PROVE  /\ Tail(q) \in Seq(S)
         /\ Len(q) \in Nat \ {0}
         /\ Len(Tail(q)) = Len(q) - 1
         /\ \A i \in 1..Len(Tail(q)) : Tail(q)[i] = q[i + 1]
         /\ Head(q) = q[1] /\ Head(q) \in S
  OBVIOUS

\* What append() does to length and entries.
LEMMA AppendExtends ==
  ASSUME NEW S, NEW q \in Seq(S), NEW e \in S
  PROVE  /\ Append(q, e) \in Seq(S)
         /\ Len(q) \in Nat
         /\ Len(Append(q, e)) = Len(q) + 1
         /\ \A i \in 1..Len(q) : Append(q, e)[i] = q[i]
         /\ Append(q, e)[Len(q) + 1] = e
  OBVIOUS

-----------------------------------------------------------------------------
\* The actor starts with empty queues and zero counters.
LEMMA InitInv == LogInit => LogInv
  BY CapacityAssumption, BoundsAssumption
  DEF LogInit, MQInit, LogInv, LogTypeOK, NoLostWakeup, Accounted, Cursor

\* put_sample keeps the invariant, whether or not it evicts the oldest entry.
LEMMA PutInv == ASSUME LogInv, NEW e \in Entries, Put(e) PROVE LogInv'
PROOF
  <1> USE DEF LogInv
  <1>0. /\ queue \in Seq(Entries) /\ sent \in Seq(Entries)
        /\ consumed \in Nat /\ dropped \in Nat /\ cleared \in Nat /\ MaxQueueSize \in Nat \ {0}
        /\ Len(queue) \in Nat /\ Len(sent) \in Nat
    BY CapacityAssumption DEF LogTypeOK
  <1>1. CASE QueueFull
    <2>1. /\ queue' = Append(Tail(queue), e) /\ dropped' = dropped + 1
          /\ sent' = Append(sent, e) /\ UNCHANGED <<consumed, cleared>>
      BY <1>1 DEF Put, PutSample, PopLeft
    <2>2. queue # << >>
      BY <1>0, <1>1 DEF QueueFull
    <2>3. /\ Tail(queue) \in Seq(Entries) /\ Len(Tail(queue)) = Len(queue) - 1
          /\ \A i \in 1..Len(Tail(queue)) : Tail(queue)[i] = queue[i + 1]
      BY <1>0, <2>2, TailShifts
    <2>4. /\ queue' \in Seq(Entries) /\ Len(queue') = Len(queue)
          /\ \A i \in 1..(Len(queue) - 1) : queue'[i] = queue[i + 1]
          /\ queue'[Len(queue)] = e
      BY <1>0, <2>1, <2>3, AppendExtends
    <2>5. /\ sent' \in Seq(Entries) /\ Len(sent') = Len(sent) + 1
          /\ \A i \in 1..Len(sent) : sent'[i] = sent[i]
          /\ sent'[Len(sent) + 1] = e
      BY <1>0, <2>1, AppendExtends
    <2>6. Cursor' = Cursor + 1 /\ Cursor \in Nat
      BY <1>0, <2>1 DEF Cursor
    <2>7. Accounted'
      <3>1. produced' = Len(sent')
        BY <2>5 DEF Put, PutSample, Accounted
      <3>2. Cursor' + Len(queue') = Len(sent')
        <4>1. Cursor + Len(queue) = Len(sent) /\ Len(queue) \in Nat
          BY <1>0 DEF Accounted
        <4>2. Len(queue') = Len(queue) /\ Len(sent') = Len(sent) + 1
          BY <2>4, <2>5
        <4> QED BY <2>6, <4>1, <4>2
      <3>3. ASSUME NEW i \in 1..Len(queue')
            PROVE  queue'[i] = sent'[Cursor' + i]
        <4>1. CASE i = Len(queue)
          <5>1. Cursor' + i = Len(sent) + 1
            BY <2>4, <2>5, <3>2, <4>1
          <5> QED BY <2>4, <2>5, <4>1, <5>1
        <4>2. CASE i # Len(queue)
          <5>1. i \in 1..(Len(queue) - 1) /\ i + 1 \in 1..Len(queue)
            BY <1>0, <2>4, <4>2
          <5>2. queue'[i] = queue[i + 1] /\ queue[i + 1] = sent[Cursor + (i + 1)]
            BY <2>4, <5>1 DEF Accounted
          <5>3. Cursor' + i = Cursor + (i + 1) /\ Cursor' + i \in 1..Len(sent)
            BY <1>0, <2>6, <5>1 DEF Accounted
          <5> QED BY <2>5, <5>2, <5>3
        <4> QED BY <4>1, <4>2
      <3> QED BY <3>1, <3>2, <3>3 DEF Accounted
    <2>8. NoLostWakeup'
      BY DEF Put, PutSample, NotifyAll, NoLostWakeup
    <2>9. LogTypeOK'
      <3>1. Len(queue') <= MaxQueueSize
        BY <2>4 DEF LogTypeOK
      <3> QED BY <1>0, <1>1, <2>1, <2>4, <2>5, <3>1
              DEF LogTypeOK, Put, PutSample, NotifyAll, PopLeft
    <2> QED BY <2>7, <2>8, <2>9
  <1>2. CASE ~QueueFull
    <2>1. /\ queue' = Append(queue, e) /\ dropped' = dropped + 0
          /\ sent' = Append(sent, e) /\ UNCHANGED <<consumed, cleared>>
      BY <1>2 DEF Put, PutSample
    <2>2. /\ queue' \in Seq(Entries) /\ Len(queue') = Len(queue) + 1
          /\ \A i \in 1..Len(queue) : queue'[i] = queue[i]
          /\ queue'[Len(queue) + 1] = e
      BY <1>0, <2>1, AppendExtends
    <2>3. /\ sent' \in Seq(Entries) /\ Len(sent') = Len(sent) + 1
          /\ \A i \in 1..Len(sent) : sent'[i] = sent[i]
          /\ sent'[Len(sent) + 1] = e
      BY <1>0, <2>1, AppendExtends
    <2>4. Cursor' = Cursor /\ Cursor \in Nat
      BY <1>0, <2>1 DEF Cursor
    <2>5. Accounted'
      <3>1. produced' = Len(sent')
        BY <2>3 DEF Put, PutSample, Accounted
      <3>2. Cursor' + Len(queue') = Len(sent')
        <4>1. Cursor + Len(queue) = Len(sent) /\ Len(queue) \in Nat
          BY <1>0 DEF Accounted
        <4>2. Len(queue') = Len(queue) + 1 /\ Len(sent') = Len(sent) + 1
          BY <2>2, <2>3
        <4> QED BY <2>4, <4>1, <4>2
      <3>3. ASSUME NEW i \in 1..Len(queue')
            PROVE  queue'[i] = sent'[Cursor' + i]
        <4>1. CASE i = Len(queue) + 1
          <5>1. Cursor' + i = Len(sent) + 1
            BY <2>2, <2>3, <3>2, <4>1
          <5> QED BY <2>2, <2>3, <4>1, <5>1
        <4>2. CASE i # Len(queue) + 1
          <5>1. i \in 1..Len(queue)
            BY <1>0, <2>2, <4>2
          <5>2. queue'[i] = sent[Cursor + i]
            BY <2>2, <5>1 DEF Accounted
          <5>3. Cursor' + i = Cursor + i /\ Cursor + i \in 1..Len(sent)
            BY <1>0, <2>4, <5>1 DEF Accounted
          <5> QED BY <2>3, <5>2, <5>3
        <4> QED BY <4>1, <4>2
      <3> QED BY <3>1, <3>2, <3>3 DEF Accounted
    <2>6. NoLostWakeup'
      BY DEF Put, PutSample, NotifyAll, NoLostWakeup
    <2>7. Len(queue') <= MaxQueueSize
      BY <1>0, <1>2, <2>2 DEF QueueFull
    <2>8. LogTypeOK'
      BY <1>0, <1>2, <2>1, <2>2, <2>3, <2>7 DEF LogTypeOK, Put, PutSample, NotifyAll
    <2> QED BY <2>5, <2>6, <2>8
  <1> QED BY <1>1, <1>2

\* get_sample keeps the invariant: nobody sleeps while it has something to take.
LEMMA GetInv == ASSUME LogInv, NEW c \in Consumers, Get(c) PROVE LogInv'
PROOF
  <1> USE DEF LogInv
  <1>0. /\ queue \in Seq(Entries) /\ sent \in Seq(Entries) /\ got \in Seq(Entries)
        /\ consumed \in Nat /\ dropped \in Nat /\ cleared \in Nat /\ MaxQueueSize \in Nat \ {0}
        /\ Len(queue) \in Nat /\ Len(sent) \in Nat /\ queue # << >>
    BY CapacityAssumption DEF LogTypeOK, Get, GetSample
  <1>1. /\ queue' = Tail(queue) /\ got' = Append(got, Head(queue)) /\ consumed' = consumed + 1
        /\ UNCHANGED <<sent, dropped, cleared, produced>>
    BY DEF Get, GetSample, PopLeft
  <1>2. /\ queue' \in Seq(Entries) /\ Len(queue') = Len(queue) - 1
        /\ \A i \in 1..Len(queue') : queue'[i] = queue[i + 1]
        /\ Head(queue) \in Entries
    BY <1>0, <1>1, TailShifts
  <1>3. Accounted'
    <2>1. Cursor' = Cursor + 1 /\ Cursor \in Nat
      BY <1>0, <1>1 DEF Cursor
    <2>2. Cursor' + Len(queue') = Len(sent') /\ produced' = Len(sent')
      BY <1>0, <1>1, <1>2, <2>1 DEF Accounted
    <2>3. ASSUME NEW i \in 1..Len(queue')
          PROVE  queue'[i] = sent'[Cursor' + i]
      <3>1. i + 1 \in 1..Len(queue) /\ Cursor' + i = Cursor + (i + 1)
        BY <1>0, <1>2, <2>1
      <3> QED BY <1>1, <1>2, <3>1 DEF Accounted
    <2> QED BY <2>2, <2>3 DEF Accounted
  <1>4. NoLostWakeup'
    BY <1>0 DEF Get, GetSample, NoLostWakeup
  <1>5. LogTypeOK'
    BY <1>0, <1>1, <1>2 DEF LogTypeOK, Get, GetSample, logVars
  <1> QED BY <1>3, <1>4, <1>5

\* clear_queue keeps the invariant: it moves the cursor to the end of the log.
LEMMA ClearInv == ASSUME LogInv, Clear PROVE LogInv'
PROOF
  <1>0. /\ consumed \in Nat /\ dropped \in Nat /\ cleared \in Nat
        /\ Len(queue) \in Nat /\ Len(sent) \in Nat /\ MaxQueueSize \in Nat
    BY CapacityAssumption DEF LogInv, LogTypeOK
  <1>1. queue' = << >> /\ Len(queue') = 0 /\ Cursor' = Cursor + Len(queue)
    BY <1>0 DEF Clear, ClearQueue, Cursor
  <1>2. Accounted'
    BY <1>0, <1>1 DEF LogInv, Accounted, Clear, ClearQueue, Cursor
  <1>3. LogTypeOK' /\ NoLostWakeup'
    BY <1>0, <1>1 DEF LogInv, LogTypeOK, NoLostWakeup, Clear, ClearQueue
  <1> QED BY <1>2, <1>3 DEF LogInv

\* The calls that do not touch the samples keep the invariant.
LEMMA OtherInv == ASSUME LogInv, Other PROVE LogInv'
PROOF
  <1>1. Accounted'
    BY DEF LogInv, Accounted, Cursor, Other, logVars, AwaitSample, UpdateMqVersion, PutValidate,
           GetValidate, Shutdown
  <1>2. NoLostWakeup'
    BY DEF LogInv, NoLostWakeup, Other, AwaitSample, UpdateMqVersion, PutValidate,
           GetValidate, Shutdown, NotifyAll
  <1>3. LogTypeOK'
    <2> USE DEF LogInv, LogTypeOK, logVars
    <2>1. CASE \E c \in Consumers : AwaitSample(c) /\ UNCHANGED logVars
      BY <2>1 DEF AwaitSample
    <2>2. CASE \E v \in 0..MaxVersion : UpdateMqVersion(v) /\ UNCHANGED logVars
      BY <2>2 DEF UpdateMqVersion
    <2>3. CASE \E d \in 0..MaxVersion : PutValidate(d) /\ UNCHANGED logVars
      BY <2>3 DEF PutValidate
    <2>4. CASE GetValidate /\ UNCHANGED logVars
      <3>1. valQueue # << >> => Tail(valQueue) \in Seq(0..MaxVersion)
        BY TailShifts
      <3> QED BY <2>4, <3>1 DEF GetValidate
    <2>5. CASE Shutdown /\ UNCHANGED logVars
      BY <2>5 DEF Shutdown, NotifyAll
    <2> QED BY <2>1, <2>2, <2>3, <2>4, <2>5 DEF Other
  <1> QED BY <1>1, <1>2, <1>3 DEF LogInv

\* Every step keeps the invariant.
LEMMA StepInv == LogInv /\ [LogNext]_allVars => LogInv'
PROOF
  <1> SUFFICES ASSUME LogInv, [LogNext]_allVars PROVE LogInv'
    OBVIOUS
  <1>1. CASE \E e \in Entries : Put(e)
    BY <1>1, PutInv
  <1>2. CASE \E c \in Consumers : Get(c)
    BY <1>2, GetInv
  <1>3. CASE Clear
    BY <1>3, ClearInv
  <1>4. CASE Other
    BY <1>4, OtherInv
  <1>5. CASE UNCHANGED allVars
    BY <1>5 DEF allVars, mqVars, logVars, LogInv, LogTypeOK, NoLostWakeup, Accounted, Cursor
  <1> QED BY <1>1, <1>2, <1>3, <1>4, <1>5 DEF LogNext

\* The invariant holds of every behaviour of the actor and its callers.
LEMMA Invariant == LogSpec => []LogInv
PROOF
  <1> QED BY InitInv, StepInv, PTL DEF LogSpec

\* The capacity is never exceeded and every value keeps its type.
THEOREM QueueTypes == LogSpec => []LogTypeOK
PROOF
  <1>1. LogInv => LogTypeOK
    BY DEF LogInv
  <1> QED BY <1>1, Invariant, PTL

\* put_sample and shutdown wake every consumer that could proceed.
THEOREM WakeupsAreNotLost == LogSpec => []NoLostWakeup
PROOF
  <1>1. LogInv => NoLostWakeup
    BY DEF LogInv
  <1> QED BY <1>1, Invariant, PTL

-----------------------------------------------------------------------------
\* Every step of the queue is a step of the stream, or leaves it alone.
LEMMA StepImplements ==
  LogInv /\ [LogNext]_allVars => [Stream!StreamNext]_(Stream!streamVars)
PROOF
  <1> SUFFICES ASSUME LogInv, [LogNext]_allVars
               PROVE  [Stream!StreamNext]_(Stream!streamVars)
    OBVIOUS
  <1>0. /\ consumed \in Nat /\ dropped \in Nat /\ cleared \in Nat /\ MaxQueueSize \in Nat
        /\ queue \in Seq(Entries) /\ Len(queue) \in Nat /\ Len(sent) \in Nat
        /\ Cursor + Len(queue) = Len(sent)
        /\ \A i \in 1..Len(queue) : queue[i] = sent[Cursor + i]
    BY CapacityAssumption DEF LogInv, LogTypeOK, Accounted
  <1>1. ASSUME NEW e \in Entries, Put(e) PROVE Stream!Extend(e)
    <2>1. sent' = Append(sent, e) /\ UNCHANGED <<got, consumed, cleared>>
      BY <1>1 DEF Put, PutSample
    <2>2. dropped' = dropped + (IF QueueFull THEN 1 ELSE 0)
      BY <1>1 DEF Put, PutSample
    <2>3. QueueFull <=> Len(sent) - (consumed + dropped + cleared) >= MaxQueueSize
      BY <1>0 DEF QueueFull, Cursor
    <2> QED BY <1>0, <2>1, <2>2, <2>3 DEF Stream!Extend
  <1>2. ASSUME NEW c \in Consumers, Get(c) PROVE Stream!Deliver
    <2>1. queue # << >> /\ got' = Append(got, Head(queue)) /\ consumed' = consumed + 1
          /\ UNCHANGED <<sent, dropped, cleared>>
      BY <1>2 DEF Get, GetSample, PopLeft
    <2>2. Len(queue) \in Nat \ {0} /\ Head(queue) = queue[1]
      BY <1>0, <2>1, TailShifts
    <2>3. Head(queue) = sent[consumed + dropped + cleared + 1]
      BY <1>0, <2>2 DEF Cursor
    <2>4. consumed + dropped + cleared < Len(sent)
      BY <1>0, <2>2 DEF Cursor
    <2> QED BY <1>0, <2>1, <2>3, <2>4 DEF Stream!Deliver
  <1>3. ASSUME Clear PROVE Stream!Forget
    BY <1>0, <1>3 DEF Clear, ClearQueue, Cursor, Stream!Forget
  <1>4. ASSUME Other PROVE UNCHANGED Stream!streamVars
    BY <1>4 DEF Other, logVars, AwaitSample, UpdateMqVersion, PutValidate, GetValidate,
                Shutdown, Stream!streamVars
  <1>5. ASSUME UNCHANGED allVars PROVE UNCHANGED Stream!streamVars
    BY <1>5 DEF allVars, mqVars, logVars, Stream!streamVars
  <1> QED BY <1>1, <1>2, <1>3, <1>4, <1>5 DEF LogNext, Stream!StreamNext

\* The queue delivers in order and once, and what it does not deliver is what its
\* counters say was dropped by a put on a full queue or forgotten by clear_queue.
THEOREM QueueImplementsStream == LogSpec => ImplementsStream
PROOF
  <1>1. LogInit => Stream!StreamInit
    BY DEF LogInit, MQInit, Stream!StreamInit
  <1> QED BY <1>1, StepImplements, Invariant, PTL
          DEF LogSpec, ImplementsStream, Stream!StreamSpec

-----------------------------------------------------------------------------
(* The weights                                                             *)

Types ==
  /\ overlap \in BOOLEAN
  /\ pc \in [Ranks -> {"done", "ready", "copy", "broadcast", "reply", "sync", "load", "stop",
                       "final", "raised"}]
  /\ thread \in [Ranks -> {"none", "hello", "wait", "loading", "dead"}]
  /\ channel \in [Ranks -> {"idle", "request", "reply"}]
  /\ gidx \in [Ranks -> Nat] /\ DOMAIN request = Ranks

\* Where the main thread is while it waits for a reply to metadata it has sent.
Ahead == {"copy", "broadcast", "reply"}

\* The metadata on the way to r's thread, or loaded by it, are those of the last half.
Pending(r) ==
  \/ thread[r] = "loading"
  \/ thread[r] = "wait" /\ channel[r] = "request" /\ request[r] # Done

PendingIsLast ==
  \A r \in Ranks : Pending(r) =>
    /\ overlap /\ pc[r] \in Ahead /\ channel[r] = "request"
    /\ gidx[r] > 0 /\ request[r].start = (gidx[r] - 1) % 2

OnlyOverlap == \A r \in Ranks : pc[r] \in {"reply", "sync", "stop"} => overlap

IInv == Types /\ OnlyOverlap /\ PendingIsLast

-----------------------------------------------------------------------------
\* Neighbouring buckets go to different halves.
LEMMA Alternate ==
  ASSUME overlap, NEW g \in Nat, g > 0
  PROVE  (g - 1) % 2 # Half(g)
PROOF
  <1>1. (g - 1) % 2 # g % 2
    OBVIOUS
  <1> QED
    BY <1>1 DEF Half

\* An action of rank r is nothing to the others.
LEMMA OneRank ==
  ASSUME IInv, NEW r \in Ranks, UNCHANGED overlap,
         Types', Pending(r)' => /\ overlap /\ pc'[r] \in Ahead /\ channel'[r] = "request"
                                /\ gidx'[r] > 0 /\ request'[r].start = (gidx'[r] - 1) % 2,
         pc'[r] \in {"reply", "sync", "stop"} => overlap,
         \A s \in Ranks \ {r} : /\ pc'[s] = pc[s] /\ thread'[s] = thread[s]
                                /\ channel'[s] = channel[s] /\ gidx'[s] = gidx[s]
                                /\ request'[s] = request[s]
  PROVE  IInv'
PROOF
  <1>1. OnlyOverlap'
    BY DEF IInv, OnlyOverlap
  <1>2. ASSUME NEW s \in Ranks, Pending(s)'
        PROVE  /\ overlap' /\ pc'[s] \in Ahead /\ channel'[s] = "request"
               /\ gidx'[s] > 0 /\ request'[s].start = (gidx'[s] - 1) % 2
    <2>1. CASE s = r
      BY <1>2, <2>1
    <2>2. CASE s # r
      <3>1. Pending(s)
        BY <1>2, <2>2 DEF Pending
      <3> QED
        BY <2>2, <3>1 DEF IInv, PendingIsLast
    <2> QED
      BY <2>1, <2>2
  <1>3. PendingIsLast'
    BY <1>2 DEF PendingIsLast
  <1> QED
    BY <1>1, <1>3 DEF IInv

LEMMA InitTransfer == Init => IInv
PROOF
  <1> SUFFICES ASSUME Init PROVE IInv
    OBVIOUS
  <1>1. /\ overlap \in BOOLEAN /\ pc = [r \in Ranks |-> "done"] /\ gidx = [r \in Ranks |-> 0]
        /\ thread = [r \in Ranks |-> "none"] /\ channel = [r \in Ranks |-> "idle"]
        /\ request = [r \in Ranks |-> Done]
    BY DEF Init
  <1>2. Types
    BY <1>1 DEF Types
  <1>3. OnlyOverlap /\ PendingIsLast
    BY <1>1 DEF OnlyOverlap, PendingIsLast, Pending
  <1> QED
    BY <1>2, <1>3 DEF IInv

\* The main thread starts an update, moves between the buckets and returns: no
\* metadata is pending at these places, or nothing of it changes.
LEMMA MainMoves ==
  ASSUME IInv, NEW r \in Ranks,
         \/ Call(r) \/ Start(r) \/ Broadcast(r) \/ Received(r) \/ LoadInPlace(r) \/ Return(r)
  PROVE  IInv'
PROOF
  <1> USE DEF Types, Goto
  <1>1. CASE Call(r)
    <2>1. ~Pending(r)
      BY <1>1 DEF Call, IInv, PendingIsLast, Ahead
    <2> QED
      BY <1>1, <2>1, OneRank DEF Call, IInv, Pending, planVars, socketVars
  <1>2. CASE Start(r)
    <2>1. ~Pending(r)
      BY <1>2 DEF Start, IInv, PendingIsLast, Ahead
    <2>2. ~Pending(r)'
      BY <1>2, <2>1 DEF Start, IInv, Pending
    <2> QED
      BY <1>2, <2>2, OneRank DEF Start, IInv, planVars
  <1>3. CASE Broadcast(r)
    <2>1. Pending(r)' => Pending(r)
      BY <1>3 DEF Broadcast, Pending, socketVars
    <2> QED
      BY <1>3, <2>1, OneRank DEF Broadcast, IInv, PendingIsLast, Ahead, planVars, socketVars
  <1>4. CASE Received(r)
    <2>1. Pending(r)' => Pending(r)
      BY <1>4 DEF Received, Pending, socketVars
    <2> QED
      BY <1>4, <2>1, OneRank DEF Received, IInv, PendingIsLast, Ahead, planVars, socketVars
  <1>5. CASE LoadInPlace(r)
    <2>1. ~Pending(r)
      BY <1>5 DEF LoadInPlace, IInv, PendingIsLast, Ahead
    <2> QED
      BY <1>5, <2>1, OneRank DEF LoadInPlace, IInv, Pending, planVars, socketVars
  <1>6. CASE Return(r)
    <2>1. ~Pending(r)
      BY <1>6 DEF Return, IInv, PendingIsLast, Ahead
    <2> QED
      BY <1>6, <2>1, OneRank DEF Return, IInv, Pending, planVars, socketVars
  <1> QED
    BY <1>1, <1>2, <1>3, <1>4, <1>5, <1>6

\* The main thread talks to req_thread: it takes a reply, so nothing is pending,
\* or sends the metadata of the bucket it has just received.
LEMMA MainTalks ==
  ASSUME IInv, NEW r \in Ranks,
         \/ AwaitReply(r) \/ SendMetas(r) \/ SendDone(r) \/ Finish(r)
  PROVE  IInv'
PROOF
  <1> USE DEF Types, Goto
  <1>1. CASE AwaitReply(r)
    <2>1. ~Pending(r)'
      BY <1>1 DEF AwaitReply, Replied, IInv, PendingIsLast, Pending
    <2> QED
      BY <1>1, <2>1, OneRank DEF AwaitReply, IInv, OnlyOverlap, planVars
  <1>2. CASE SendMetas(r)
    <2>1. overlap /\ pc[r] = "sync" /\ ~Pending(r)
      BY <1>2 DEF SendMetas, IInv, OnlyOverlap, PendingIsLast, Ahead
    <2>2. gidx'[r] = gidx[r] + 1 /\ gidx[r] \in Nat /\ request'[r].start = gidx[r] % 2
      BY <1>2, <2>1 DEF SendMetas, Request, Half, IInv
    <2>3. gidx'[r] > 0 /\ request'[r].start = (gidx'[r] - 1) % 2
      BY <2>2
    <2>4. pc'[r] = "copy" /\ channel'[r] = "request" /\ Types'
      BY <1>2 DEF SendMetas, Request, IInv, planVars
    <2> QED
      BY <1>2, <2>1, <2>3, <2>4, OneRank DEF SendMetas, Request, IInv, Ahead, planVars
  <1>3. CASE SendDone(r)
    <2>1. ~Pending(r)'
      BY <1>3 DEF SendDone, Request, IInv, PendingIsLast, Pending
    <2> QED
      BY <1>3, <2>1, OneRank DEF SendDone, Request, IInv, planVars
  <1>4. CASE Finish(r)
    <2>1. ~Pending(r)'
      BY <1>4 DEF Finish, ThreadOver, IInv, PendingIsLast, Pending
    <2> QED
      BY <1>4, <2>1, OneRank DEF Finish, IInv, planVars
  <1> QED
    BY <1>1, <1>2, <1>3, <1>4

\* req_thread takes what is pending, and whatever it ends with is a reply.
LEMMA ThreadSteps ==
  ASSUME IInv, NEW r \in Ranks, ReqThread(r) \/ LoadFails(r)
  PROVE  IInv'
PROOF
  <1> USE DEF Types, Goto, Thread, Reply
  <1>1. CASE Hello(r)
    <2>1. ~Pending(r)'
      BY <1>1 DEF Hello, IInv, Pending
    <2> QED
      BY <1>1, <2>1, OneRank DEF Hello, IInv, OnlyOverlap, planVars
  <1>2. CASE Take(r)
    <2>1. CASE request[r] = Done
      <3>1. ~Pending(r)'
        BY <1>2, <2>1 DEF Take, IInv, Pending
      <3> QED
        BY <1>2, <2>1, <3>1, OneRank DEF Take, IInv, OnlyOverlap, planVars
    <2>2. CASE request[r] # Done
      <3>1. Pending(r)
        BY <1>2, <2>2 DEF Take, Pending
      <3> QED
        BY <1>2, <2>2, <3>1, OneRank DEF Take, IInv, OnlyOverlap, PendingIsLast, planVars
    <2> QED
      BY <2>1, <2>2
  <1>3. CASE LoadEnds(r)
    <2>1. ~Pending(r)'
      BY <1>3 DEF LoadEnds, IInv, Pending
    <2> QED
      BY <1>3, <2>1, OneRank DEF LoadEnds, IInv, OnlyOverlap, planVars
  <1>4. CASE LoadFails(r)
    <2>1. ~Pending(r)'
      BY <1>4 DEF LoadFails, IInv, PendingIsLast, Pending, Ahead, socketVars
    <2> QED
      BY <1>4, <2>1, OneRank DEF LoadFails, IInv, OnlyOverlap, planVars, socketVars
  <1> QED
    BY <1>1, <1>2, <1>3, <1>4 DEF ReqThread

\* BuffersApart: the rank receives into the half of bucket gidx, its thread loads
\* the half of bucket gidx - 1.
LEMMA IInvImpliesApart == IInv => BuffersApart
PROOF
  <1> SUFFICES ASSUME IInv, NEW r \in Ranks, thread[r] = "loading"
               PROVE  request[r].start # Half(gidx[r])
    BY DEF BuffersApart
  <1>1. overlap /\ gidx[r] > 0 /\ request[r].start = (gidx[r] - 1) % 2
    BY DEF IInv, PendingIsLast, Pending
  <1>2. gidx[r] \in Nat
    BY DEF IInv, Types
  <1> QED
    BY <1>1, <1>2, Alternate

\* Every step keeps it.
LEMMA IInvKept == IInv /\ [Next]_vars => IInv'
PROOF
  <1> SUFFICES ASSUME IInv, [Next]_vars PROVE IInv'
    OBVIOUS
  <1>1. CASE UNCHANGED vars
    BY <1>1 DEF IInv, Types, OnlyOverlap, PendingIsLast, Pending, vars, planVars, socketVars
  <1>2. CASE Next
    <2>1. PICK r \in Ranks : Main(r) \/ ReqThread(r) \/ LoadFails(r)
      BY <1>2 DEF Next
    <2> QED
      BY <2>1, MainMoves, MainTalks, ThreadSteps DEF Main
  <1> QED
    BY <1>1, <1>2

\* No half of a rank's buffer is written while its thread loads it
\* (checkpoint_engine.py 494-506), for any number of ranks, buckets and updates.
THEOREM HalvesApart == Spec => []BuffersApart
PROOF
  BY InitTransfer, IInvKept, IInvImpliesApart, PTL DEF Spec

-----------------------------------------------------------------------------
(* The plan of the transfer: recursions, concatenations, buckets, rounds.   *)

\* Counting up: a set of numbers closed under successor has them all.
LEMMA CountUp ==
  ASSUME NEW k \in Nat, NEW S \in SUBSET Nat, k \in S, \A m \in S : m + 1 \in S
  PROVE  \A m \in Nat : m >= k => m \in S
PROOF
  <1> DEFINE R == {m \in Nat : m >= k /\ m \notin S}
  <1> SUFFICES ASSUME R # {} PROVE FALSE
    OBVIOUS
  <1>1. PICK m \in R : \A j \in R : ~(<<j, m>> \in OpToRel(<, Nat))
    BY NatLessThanWellFounded, WFMin
  <1>2. \A j \in R : ~(j < m)
    BY <1>1 DEF OpToRel
  <1>3. m \in Nat /\ m > k
    OBVIOUS
  <1>4. m - 1 \in Nat /\ m - 1 >= k /\ m - 1 < m
    BY <1>3
  <1>5. m - 1 \in S
    BY <1>2, <1>4
  <1> QED
    BY <1>3, <1>5

\* The concatenation of a sequence of sequences, up to its m-th.
LEMMA FlattenSteps ==
  ASSUME NEW s, NEW K \in Nat, K > 0, DOMAIN s = 1..K, Len(s) = K
  PROVE  \E f : /\ FlattenSeq(s) = f[K] /\ f[1] = s[1]
                /\ \A i \in 1..K : i > 1 => f[i] = f[i - 1] \o s[i]
PROOF
  <1> DEFINE Partial(f, m) == f = [i \in 1..m |-> IF i = 1 THEN s[1] ELSE f[i - 1] \o s[i]]
             S == {m \in Nat : \E f : Partial(f, m)}
  <1>1. 0 \in S
    <2>1. Partial(<< >>, 0)
      OBVIOUS
    <2> QED
      BY <2>1
  <1>2. ASSUME NEW m \in S PROVE m + 1 \in S
    <2>0. m \in Nat
      BY <1>2
    <2>1. PICK f : Partial(f, m)
      BY <1>2
    <2> DEFINE g == [i \in 1..m + 1 |-> IF i = 1 THEN s[1] ELSE f[i - 1] \o s[i]]
    <2>2. \A i \in 1..m + 1 : i # 1 => i - 1 \in 1..m
      BY <2>0
    <2>3. \A i \in 1..m : i \in 1..m + 1
      BY <2>0
    <2>4. \A i \in 1..m : f[i] = IF i = 1 THEN s[1] ELSE f[i - 1] \o s[i]
      BY <2>1
    <2>5. \A i \in 1..m : g[i] = f[i]
      BY <2>3, <2>4
    <2>6. \A i \in 1..m + 1 : (IF i = 1 THEN s[1] ELSE f[i - 1] \o s[i])
                                 = (IF i = 1 THEN s[1] ELSE g[i - 1] \o s[i])
      BY <2>2, <2>5
    <2>7. g = [i \in 1..m + 1 |-> IF i = 1 THEN s[1] ELSE g[i - 1] \o s[i]]
      BY <2>6, Zenon
    <2> HIDE DEF g
    <2>8. Partial(g, m + 1)
      BY <2>7
    <2>9. m + 1 \in Nat
      BY <2>0
    <2> QED
      BY <2>8, <2>9
  <1>3. K \in S
    <2> HIDE DEF S
    <2>1. S \in SUBSET Nat /\ \A m \in S : m + 1 \in S
      BY <1>2 DEF S
    <2> QED
      BY <1>1, <2>1, CountUp
  <1> DEFINE F == CHOOSE f : f = [i \in 1..Len(s) |-> IF i = 1 THEN s[i] ELSE f[i - 1] \o s[i]]
  <1>4. FlattenSeq(s) = F[K]
    BY DEF FlattenSeq
  <1>5. \E f : f = [i \in 1..Len(s) |-> IF i = 1 THEN s[i] ELSE f[i - 1] \o s[i]]
    <2>1. PICK f : Partial(f, K)
      BY <1>3
    <2>2. f = [i \in 1..Len(s) |-> IF i = 1 THEN s[i] ELSE f[i - 1] \o s[i]]
      BY <2>1
    <2> QED
      BY <2>2
  <1>6. F = [i \in 1..Len(s) |-> IF i = 1 THEN s[i] ELSE F[i - 1] \o s[i]]
    BY <1>5
  <1> HIDE DEF F
  <1>7. \A i \in 1..K : F[i] = IF i = 1 THEN s[i] ELSE F[i - 1] \o s[i]
    <2> DEFINE G == [i \in 1..Len(s) |-> IF i = 1 THEN s[i] ELSE F[i - 1] \o s[i]]
    <2>1. \A i \in 1..K : G[i] = IF i = 1 THEN s[i] ELSE F[i - 1] \o s[i]
      OBVIOUS
    <2>2. F = G
      BY <1>6
    <2> HIDE DEF G
    <2> QED
      BY <2>1, <2>2
  <1>8. F[1] = s[1] /\ \A i \in 1..K : i > 1 => F[i] = F[i - 1] \o s[i]
    <2>1. 1 \in 1..K /\ \A i \in 1..K : i > 1 => i # 1
      OBVIOUS
    <2> QED
      BY <1>7, <2>1
  <1> QED
    BY <1>4, <1>8, Zenon

\* A set of naturals with a bound has a maximum, and Max chooses it.
LEMMA Maximum ==
  ASSUME NEW S \in SUBSET Nat, NEW e \in S, NEW b \in Nat, \A x \in S : x <= b
  PROVE  Max(S) \in S /\ \A x \in S : x <= Max(S)
PROOF
  <1> DEFINE B == {m \in Nat : \A x \in S : x <= m}
  <1>1. PICK m \in B : \A j \in B : ~(<<j, m>> \in OpToRel(<, Nat))
    BY NatLessThanWellFounded, WFMin
  <1>2. m \in Nat /\ \A x \in S : x <= m
    OBVIOUS
  <1>3. \A j \in B : ~(j < m)
    BY <1>1 DEF OpToRel
  <1>4. m \in S
    <2> SUFFICES ASSUME m \notin S PROVE FALSE
      OBVIOUS
    <2>1. \A x \in S : x \in Nat /\ x <= m /\ x # m
      BY <1>2
    <2>2. m - 1 \in Nat /\ \A x \in S : x <= m - 1
      BY <1>2, <2>1
    <2> QED
      BY <1>2, <1>3, <2>2
  <1>5. \E x \in S : \A y \in S : x >= y
    BY <1>2, <1>4
  <1>6. Max(S) \in S /\ \A y \in S : Max(S) >= y
    BY <1>5 DEF Max
  <1> QED
    BY <1>6

\* Finitely many naturals have a bound.
LEMMA Bounded ==
  ASSUME NEW n \in Nat, NEW f, \A i \in 1..n : f[i] \in Nat
  PROVE  \E b \in Nat : \A i \in 1..n : f[i] <= b
PROOF
  <1> DEFINE S == {m \in Nat : m <= n => \E b \in Nat : \A i \in 1..m : f[i] <= b}
  <1>1. 0 \in S
    OBVIOUS
  <1>2. ASSUME NEW m \in S PROVE m + 1 \in S
    <2>0. m \in Nat
      OBVIOUS
    <2> SUFFICES ASSUME m + 1 <= n PROVE \E b \in Nat : \A i \in 1..m + 1 : f[i] <= b
      OBVIOUS
    <2>1. PICK b \in Nat : \A i \in 1..m : f[i] <= b
      BY <2>0
    <2>2. f[m + 1] \in Nat
      BY <2>0
    <2>3. b + f[m + 1] \in Nat /\ \A i \in 1..m + 1 : i = m + 1 \/ i \in 1..m
      BY <2>0, <2>2
    <2>4. \A i \in 1..m : f[i] \in Nat
      BY <2>0
    <2>5. \A i \in 1..m + 1 : f[i] <= b + f[m + 1]
      BY <2>1, <2>2, <2>3, <2>4
    <2> QED
      BY <2>3, <2>5
  <1>3. n \in S
    <2> HIDE DEF S
    <2>1. S \in SUBSET Nat
      BY DEF S
    <2> QED
      BY <1>1, <1>2, <2>1, CountUp
  <1> QED
    BY <1>3

Iteration(f, n, b, step) == f[0] = b /\ \A i \in 1..n : f[i] = step[f[i - 1]][i]

\* A recursion over 0..n has a solution.  (The library's theorems on recursive
\* functions are about operators, which cannot be instantiated here.)
LEMMA Iterates ==
  ASSUME NEW n \in Nat, NEW S, NEW b \in S, NEW step \in [S -> [1..n -> S]]
  PROVE  \E f \in [0..n -> S] : Iteration(f, n, b, step)
PROOF
  <1> DEFINE Partial(f, m) == Iteration(f, m, b, step)
             T == {m \in Nat : m <= n => \E f \in [0..m -> S] : Partial(f, m)}
  <1>1. 0 \in T
    <2>1. [i \in 0..0 |-> b] \in [0..0 -> S] /\ Partial([i \in 0..0 |-> b], 0)
      BY DEF Iteration
    <2> QED
      BY <2>1
  <1>2. ASSUME NEW m \in T PROVE m + 1 \in T
    <2>0. m \in Nat /\ m + 1 \in Nat
      BY <1>2
    <2> SUFFICES ASSUME m + 1 <= n PROVE \E f \in [0..m + 1 -> S] : Partial(f, m + 1)
      BY <2>0
    <2>1. PICK f \in [0..m -> S] : Partial(f, m)
      BY <1>2, <2>0
    <2> DEFINE g == [i \in 0..m + 1 |-> IF i = m + 1 THEN step[f[m]][i] ELSE f[i]]
    <2>2. f[m] \in S /\ m + 1 \in 1..n
      BY <2>0
    <2>3. step[f[m]][m + 1] \in S
      BY <2>2
    <2>4. \A i \in 0..m + 1 : i # m + 1 => i \in 0..m
      BY <2>0
    <2>5. g \in [0..m + 1 -> S]
      BY <2>3, <2>4
    <2>6. \A i \in 0..m : g[i] = f[i]
      BY <2>0
    <2>7. g[m + 1] = step[g[m]][m + 1]
      <3>1. m + 1 \in 0..m + 1 /\ m \in 0..m
        BY <2>0
      <3> QED
        BY <2>6, <3>1
    <2> HIDE DEF g
    <2>8. \A i \in 1..m : g[i] = step[g[i - 1]][i]
      <3> SUFFICES ASSUME NEW i \in 1..m PROVE g[i] = step[g[i - 1]][i]
        OBVIOUS
      <3>1. i \in 0..m /\ i - 1 \in 0..m
        BY <2>0
      <3> QED
        BY <2>1, <2>6, <3>1 DEF Iteration
    <2>9. g[0] = b
      BY <2>0, <2>1, <2>6 DEF Iteration
    <2>10. \A i \in 1..m + 1 : i = m + 1 \/ i \in 1..m
      BY <2>0
    <2>11. \A i \in 1..m + 1 : g[i] = step[g[i - 1]][i]
      <3>1. (m + 1) - 1 = m
        BY <2>0
      <3> QED
        BY <2>7, <2>8, <2>10, <3>1
    <2> QED
      BY <2>5, <2>9, <2>11 DEF Iteration
  <1>3. \A m \in Nat : m >= 0 => m \in T
    <2>1. T \in SUBSET Nat
      OBVIOUS
    <2> HIDE DEF T
    <2>2. 0 \in Nat /\ \A m \in T : m + 1 \in T
      BY <1>2
    <2> QED
      BY <1>1, <2>1, <2>2, CountUp
  <1> QED
    BY <1>3

\* Two sequences of values that agree at 0 and, step by step, ever after.
Follows(f, g, n) ==
  f[0] = g[0] /\ \A i \in 1..n : f[i - 1] = g[i - 1] => f[i] = g[i]
Agree(f, g, n) == \A i \in 0..n : f[i] = g[i]

LEMMA FollowersAgree ==
  ASSUME NEW n \in Nat, NEW f, NEW g, Follows(f, g, n)
  PROVE  Agree(f, g, n)
PROOF
  <1> USE DEF Follows, Agree
  <1> DEFINE T == {m \in Nat : m <= n => f[m] = g[m]}
  <1>1. 0 \in T
    OBVIOUS
  <1>2. ASSUME NEW m \in T PROVE m + 1 \in T
    <2>1. m \in Nat /\ m + 1 \in Nat /\ (m <= n => f[m] = g[m])
      BY <1>2
    <2>2. m + 1 <= n => m + 1 \in 1..n /\ (m + 1) - 1 = m /\ m <= n
      BY <2>1
    <2> QED
      BY <2>1, <2>2
  <1>3. \A m \in Nat : m >= 0 => m \in T
    <2> HIDE DEF T
    <2>1. T \in SUBSET Nat
      BY DEF T
    <2> QED
      BY <1>1, <1>2, <2>1, CountUp
  <1> QED
    BY <1>3

\* The recursion of TotalSize.
LEMMA TotalSteps ==
  ASSUME NEW sz \in [Params -> Nat], NEW s \in Seq(Params)
  PROVE  \E f \in [0..Len(s) -> Nat] :
           /\ TotalSize(sz, s) = f[Len(s)] /\ f[0] = 0
           /\ \A i \in 1..Len(s) : f[i] = f[i - 1] + sz[s[i]]
PROOF
  <1> DEFINE K == Len(s)
             step == [t \in Nat |-> [i \in 1..K |-> t + sz[s[i]]]]
             Sums(f) == f = [i \in 0..Len(s) |-> IF i = 0 THEN 0 ELSE f[i - 1] + sz[s[i]]]
             F == CHOOSE f : Sums(f)
  <1>1. K \in Nat /\ step \in [Nat -> [1..K -> Nat]]
    OBVIOUS
  <1>2. PICK f \in [0..K -> Nat] : Iteration(f, K, 0, step)
    <2> HIDE DEF step, K
    <2>1. 0 \in Nat
      OBVIOUS
    <2> QED
      BY <1>1, <2>1, Iterates, Zenon
  <1>3. f[0] = 0 /\ \A i \in 1..K : f[i] = f[i - 1] + sz[s[i]]
    <2>1. \A i \in 1..K : i - 1 \in 0..K
      BY <1>1
    <2>2. \A t \in Nat : \A i \in 1..K : step[t][i] = t + sz[s[i]]
      OBVIOUS
    <2> HIDE DEF K, step
    <2>3. \A i \in 1..K : f[i - 1] \in Nat
      BY <2>1
    <2> QED
      BY <1>2, <2>2, <2>3 DEF Iteration
  <1>4. \A i \in 0..K : i # 0 => i \in 1..K
    BY <1>1
  <1>5. Sums(f)
    BY <1>3, <1>4
  <1>6. TotalSize(sz, s) = F[K]
    BY DEF TotalSize
  <1> HIDE DEF Sums
  <1>7. Sums(F)
    BY <1>5
  <1> HIDE DEF F
  <1>8. F[0] = 0 /\ \A i \in 1..K : F[i] = F[i - 1] + sz[s[i]]
    <2>1. \A i \in 0..K : F[i] = IF i = 0 THEN 0 ELSE F[i - 1] + sz[s[i]]
      <3> DEFINE G == [i \in 0..Len(s) |-> IF i = 0 THEN 0 ELSE F[i - 1] + sz[s[i]]]
      <3>1. \A i \in 0..K : G[i] = IF i = 0 THEN 0 ELSE F[i - 1] + sz[s[i]]
        OBVIOUS
      <3>2. F = G
        BY <1>7 DEF Sums
      <3> HIDE DEF G
      <3> QED
        BY <3>1, <3>2
    <2>2. 0 \in 0..K /\ \A i \in 1..K : i # 0 /\ i \in 0..K
      BY <1>1
    <2> HIDE DEF K
    <2> QED
      BY <2>1, <2>2
  <1>9. \A i \in 0..K : F[i] = f[i]
    <2>1. F[0] = f[0] /\ \A i \in 1..K : F[i - 1] = f[i - 1] => F[i] = f[i]
      BY <1>3, <1>8
    <2>2. K \in Nat /\ Follows(F, f, K)
      BY <1>1, <2>1 DEF Follows
    <2> HIDE DEF K, step
    <2>3. Agree(F, f, K)
      BY <2>2, FollowersAgree
    <2> QED
      BY <2>3 DEF Agree
  <1> QED
    <2>1. F[K] = f[K]
      BY <1>1, <1>9
    <2>2. TotalSize(sz, s) = f[Len(s)]
      BY <1>6, <2>1
    <2> QED
      BY <1>3, <2>2

\* One more parameter in a bucket.
LEMMA TotalAppend ==
  ASSUME NEW sz \in [Params -> Nat], NEW s \in Seq(Params), NEW p \in Params
  PROVE  /\ TotalSize(sz, s) \in Nat
         /\ TotalSize(sz, Append(s, p)) = TotalSize(sz, s) + sz[p]
PROOF
  <1> DEFINE t == Append(s, p)
             K == Len(s)
  <1>1. /\ K \in Nat /\ t \in Seq(Params) /\ Len(t) = K + 1 /\ t[K + 1] = p
        /\ \A i \in 1..K : t[i] = s[i]
    OBVIOUS
  <1>2. PICK f \in [0..K -> Nat] :
          /\ TotalSize(sz, s) = f[K] /\ f[0] = 0 /\ \A i \in 1..K : f[i] = f[i - 1] + sz[s[i]]
    BY TotalSteps
  <1> HIDE DEF t, K
  <1>3. PICK g \in [0..Len(t) -> Nat] :
          /\ TotalSize(sz, t) = g[Len(t)] /\ g[0] = 0
          /\ \A i \in 1..Len(t) : g[i] = g[i - 1] + sz[t[i]]
    BY <1>1, TotalSteps
  <1>4. Follows(f, g, K)
    <2>1. \A i \in 1..K : i \in 1..K + 1
      BY <1>1
    <2>2. \A i \in 1..K : g[i] = g[i - 1] + sz[s[i]]
      BY <1>1, <1>3, <2>1
    <2> QED
      BY <1>2, <1>3, <2>2 DEF Follows
  <1>5. Agree(f, g, K)
    BY <1>1, <1>4, FollowersAgree
  <1>6. f[K] = g[K] /\ f[K] \in Nat
    BY <1>1, <1>5 DEF Agree
  <1>7. g[K + 1] = g[K] + sz[p]
    <2>1. K + 1 \in 1..K + 1 /\ (K + 1) - 1 = K
      BY <1>1
    <2> QED
      BY <1>1, <1>3, <2>1
  <1> QED
    BY <1>1, <1>2, <1>3, <1>6, <1>7 DEF t

LEMMA TotalEmpty ==
  ASSUME NEW sz \in [Params -> Nat] PROVE TotalSize(sz, << >>) = 0
PROOF
  <1>1. ASSUME NEW s \in Seq(Params), Len(s) = 0 PROVE TotalSize(sz, s) = 0
    <2>1. PICK f \in [0..Len(s) -> Nat] :
            /\ TotalSize(sz, s) = f[Len(s)] /\ f[0] = 0
            /\ \A i \in 1..Len(s) : f[i] = f[i - 1] + sz[s[i]]
      BY TotalSteps
    <2> QED
      BY <1>1, <2>1
  <1>2. << >> \in Seq(Params) /\ Len(<< >>) = 0
    OBVIOUS
  <1> QED
    BY <1>1, <1>2, Zenon

-----------------------------------------------------------------------------
\* The buckets while the parameters are placed: a list for each actor, never empty.
Layouts == [Actors -> Seq(Seq(Params)) \ {<< >>}]
Empty == [a \in Actors |-> << << >> >>]

IsCell(b, a, i, j) == a \in Actors /\ i \in 1..Len(b[a]) /\ j \in 1..Len(b[a][i])

\* The first n parameters are in the buckets, each once, and no bucket is too large.
Fit(sz, b) == \A a \in Actors : \A i \in 1..Len(b[a]) : TotalSize(sz, b[a][i]) <= BucketSize(sz)
AllPlaced(b, n) == \A p \in 1..n : \E a, i, j : IsCell(b, a, i, j) /\ b[a][i][j] = p
OnlyPlaced(b, n) == \A a, i, j : IsCell(b, a, i, j) => b[a][i][j] \in 1..n
PlacedOnce(b) ==
  \A a, i, j, c, k, l : IsCell(b, a, i, j) /\ IsCell(b, c, k, l) /\ b[a][i][j] = b[c][k][l]
                          => a = c /\ i = k /\ j = l
WellPlaced(sz, b, n) ==
  b \in Layouts /\ Fit(sz, b) /\ AllPlaced(b, n) /\ OnlyPlaced(b, n) /\ PlacedOnce(b)

\* Parameter p is new in bucket i of actor a, at j; nothing else has changed.
Grown(b, d, a, i, j, p) ==
  /\ IsCell(d, a, i, j) /\ ~IsCell(b, a, i, j) /\ d[a][i][j] = p
  /\ \A c, k, l : IsCell(b, c, k, l) => IsCell(d, c, k, l) /\ d[c][k][l] = b[c][k][l]
  /\ \A c, k, l : IsCell(d, c, k, l) => IsCell(b, c, k, l) \/ (c = a /\ k = i /\ l = j)

LEMMA GrownWell ==
  ASSUME NEW b, NEW d, NEW n \in Nat, AllPlaced(b, n), OnlyPlaced(b, n), PlacedOnce(b),
         NEW a, NEW i, NEW j, Grown(b, d, a, i, j, n + 1)
  PROVE  AllPlaced(d, n + 1) /\ OnlyPlaced(d, n + 1) /\ PlacedOnce(d)
PROOF
  <1>1. AllPlaced(d, n + 1)
    <2> SUFFICES ASSUME NEW p \in 1..n + 1
                 PROVE  \E c, k, l : IsCell(d, c, k, l) /\ d[c][k][l] = p
      BY DEF AllPlaced
    <2>1. CASE p = n + 1
      BY <2>1 DEF Grown
    <2>2. CASE p # n + 1
      <3>1. p \in 1..n
        BY <2>2
      <3>2. PICK c, k, l : IsCell(b, c, k, l) /\ b[c][k][l] = p
        BY <3>1 DEF AllPlaced
      <3> QED
        BY <3>2 DEF Grown
    <2> QED
      BY <2>1, <2>2
  <1>2. ASSUME NEW c, NEW k, NEW l, IsCell(d, c, k, l)
        PROVE  \/ c = a /\ k = i /\ l = j /\ d[c][k][l] = n + 1
               \/ IsCell(b, c, k, l) /\ d[c][k][l] = b[c][k][l] /\ d[c][k][l] \in 1..n
    <2>1. CASE IsCell(b, c, k, l)
      <3>1. b[c][k][l] \in 1..n
        BY <2>1 DEF OnlyPlaced
      <3> QED
        BY <2>1, <3>1 DEF Grown
    <2>2. CASE c = a /\ k = i /\ l = j
      BY <2>2 DEF Grown
    <2> QED
      BY <1>2, <2>1, <2>2 DEF Grown
  <1>3. n + 1 \in 1..n + 1 /\ (\A p \in 1..n : p \in 1..n + 1 /\ p # n + 1)
    OBVIOUS
  <1>4. OnlyPlaced(d, n + 1)
    BY <1>2, <1>3 DEF OnlyPlaced
  <1>5. ASSUME NEW c, NEW k, NEW l, NEW e, NEW x, NEW y,
               IsCell(d, c, k, l), IsCell(d, e, x, y), d[c][k][l] = d[e][x][y]
        PROVE  c = e /\ k = x /\ l = y
    <2>1. CASE d[c][k][l] = n + 1
      <3>1. ~(d[c][k][l] \in 1..n) /\ ~(d[e][x][y] \in 1..n)
        BY <1>3, <1>5, <2>1
      <3> QED
        BY <1>2, <1>5, <3>1
    <2>2. CASE d[c][k][l] # n + 1
      <3>1. IsCell(b, c, k, l) /\ IsCell(b, e, x, y) /\ b[c][k][l] = b[e][x][y]
        BY <1>2, <1>5, <2>2
      <3> QED
        BY <3>1 DEF PlacedOnce
    <2> QED
      BY <2>1, <2>2
  <1>6. PlacedOnce(d)
    BY <1>5 DEF PlacedOnce
  <1> QED
    BY <1>1, <1>4, <1>6

\* bucket_size is a number, and every parameter fits.
LEMMA SizeOfBuckets ==
  ASSUME NEW sz \in [Params -> Nat]
  PROVE  BucketSize(sz) \in Nat /\ \A p \in Params : sz[p] <= BucketSize(sz)
PROOF
  <1> DEFINE S == {DeviceBuffer} \cup {sz[p] : p \in Params}
  <1>0. NumParams \in Nat /\ DeviceBuffer \in Nat
    BY TransferAssumption
  <1>1. PICK b \in Nat : \A p \in 1..NumParams : sz[p] <= b
    BY <1>0, Bounded DEF Params
  <1>2. S \in SUBSET Nat /\ DeviceBuffer \in S
    BY <1>0
  <1>3. b + DeviceBuffer \in Nat /\ \A x \in S : x <= b + DeviceBuffer
    <2>1. \A p \in Params : sz[p] \in Nat /\ sz[p] <= b
      BY <1>1 DEF Params
    <2> QED
      BY <1>0, <2>1
  <1>4. \A p \in Params : sz[p] \in S
    OBVIOUS
  <1>5. BucketSize(sz) = Max(S)
    BY DEF BucketSize
  <1> HIDE DEF S
  <1>6. Max(S) \in S /\ \A x \in S : x <= Max(S)
    BY <1>2, <1>3, Maximum
  <1> QED
    BY <1>2, <1>4, <1>5, <1>6

\* The last bucket of a list, and what placing a parameter makes of the list.
LEMMA LastBucket ==
  ASSUME NEW q \in Seq(Seq(Params)) \ {<< >>}
  PROVE  /\ Len(q) \in Nat /\ Len(q) > 0 /\ q[Len(q)] \in Seq(Params)
         /\ Last(q) = q[Len(q)] /\ Len(q[Len(q)]) \in Nat
         /\ \A i \in 1..Len(q) : q[i] \in Seq(Params)
PROOF
  <1>1. Len(q) \in Nat /\ Len(q) > 0 /\ \A i \in 1..Len(q) : q[i] \in Seq(Params)
    OBVIOUS
  <1>2. q[Len(q)] \in Seq(Params)
    BY <1>1
  <1>3. Len(q[Len(q)]) \in Nat
    BY <1>2
  <1> QED
    BY <1>1, <1>2, <1>3 DEF Last

\* A new bucket, or a longer last one.
LEMMA Opened ==
  ASSUME NEW q \in Seq(Seq(Params)) \ {<< >>}, NEW p \in Params
  PROVE  /\ Append(q, <<p>>) \in Seq(Seq(Params)) \ {<< >>}
         /\ Len(Append(q, <<p>>)) = Len(q) + 1 /\ Append(q, <<p>>)[Len(q) + 1] = <<p>>
         /\ \A i \in 1..Len(q) : Append(q, <<p>>)[i] = q[i]
PROOF
  <1> DEFINE e == <<p>>
             d == Append(q, e)
  <1>1. e \in Seq(Params) /\ q \in Seq(Seq(Params))
    OBVIOUS
  <1> HIDE DEF e
  <1>2. /\ d \in Seq(Seq(Params)) /\ Len(q) \in Nat /\ Len(d) = Len(q) + 1
        /\ \A i \in 1..Len(q) : d[i] = q[i]
        /\ d[Len(q) + 1] = e
    BY <1>1, AppendExtends
  <1> HIDE DEF d
  <1>3. d # << >>
    BY <1>2
  <1> QED
    BY <1>2, <1>3 DEF d, e

LEMMA Filled ==
  ASSUME NEW q \in Seq(Seq(Params)) \ {<< >>}, NEW p \in Params, NEW d,
         d = [q EXCEPT ![Len(q)] = Append(@, p)]
  PROVE  /\ d \in Seq(Seq(Params)) \ {<< >>} /\ Len(d) = Len(q)
         /\ d[Len(q)] = Append(q[Len(q)], p)
         /\ \A i \in 1..Len(q) : i # Len(q) => d[i] = q[i]
PROOF
  <1>1. Len(q) \in Nat /\ Len(q) > 0 /\ q[Len(q)] \in Seq(Params)
    BY LastBucket
  <1>2. Append(q[Len(q)], p) \in Seq(Params)
    BY <1>1
  <1>3. Len(q) \in DOMAIN q /\ DOMAIN q = 1..Len(q)
    BY <1>1
  <1>4. d \in Seq(Seq(Params)) /\ Len(d) = Len(q)
    BY <1>1, <1>2, <1>3
  <1>5. d # << >>
    BY <1>1, <1>4
  <1>6. d[Len(q)] = Append(q[Len(q)], p) /\ \A i \in 1..Len(q) : i # Len(q) => d[i] = q[i]
    BY <1>3
  <1> QED
    BY <1>4, <1>5, <1>6

\* The owner of a parameter is an actor.
LEMMA OwnerIsActor == \A p \in Params : Owner(p) \in Actors
PROOF
  <1>1. NumActors \in Nat /\ NumActors > 0
    BY TransferAssumption
  <1>2. ASSUME NEW p \in Params PROVE ((p - 1) % NumActors) + 1 \in 1..NumActors
    <2>1. p - 1 \in Nat
      BY DEF Params
    <2>2. (p - 1) % NumActors \in 0..NumActors - 1
      BY <1>1, <2>1
    <2> QED
      BY <1>1, <2>2
  <1> QED
    BY <1>2 DEF Owner, Actors

\* Placing a parameter keeps the buckets as they should be.
LEMMA PlacedWell ==
  ASSUME NEW sz \in [Params -> Nat], NEW n \in Nat, n + 1 <= NumParams,
         NEW b, WellPlaced(sz, b, n)
  PROVE  WellPlaced(sz, Placed(sz, b, n + 1), n + 1)
PROOF
  <1> DEFINE p == n + 1
             a == Owner(p)
             q == b[a]
             d == Placed(sz, b, p)
             i == Len(d[a])
             j == Len(d[a][i])
             open == Append(q, <<p>>)
             fill == [q EXCEPT ![Len(q)] = Append(@, p)]
  <1>1. p \in Params /\ a \in Actors
    BY OwnerIsActor, TransferAssumption DEF Params
  <1>2. /\ b \in Layouts /\ q \in Seq(Seq(Params)) \ {<< >>}
        /\ \A c \in Actors : b[c] \in Seq(Seq(Params)) \ {<< >>}
    BY <1>1 DEF WellPlaced, Layouts
  <1>3. d = [b EXCEPT ![a] = IF Overflows(sz, Last(q), p) THEN open ELSE fill]
    BY DEF Placed
  <1>4. /\ Len(q) \in Nat /\ Len(q) > 0 /\ q[Len(q)] \in Seq(Params) /\ Last(q) = q[Len(q)]
        /\ Len(q[Len(q)]) \in Nat /\ \A k \in 1..Len(q) : q[k] \in Seq(Params)
    BY <1>2, LastBucket
  <1>5. /\ open \in Seq(Seq(Params)) \ {<< >>} /\ Len(open) = Len(q) + 1
        /\ open[Len(q) + 1] = <<p>> /\ \A k \in 1..Len(q) : open[k] = q[k]
    <2> HIDE DEF q, p
    <2> QED
      BY <1>1, <1>2, Opened
  <1>6. /\ fill \in Seq(Seq(Params)) \ {<< >>} /\ Len(fill) = Len(q)
        /\ fill[Len(q)] = Append(q[Len(q)], p)
        /\ \A k \in 1..Len(q) : k # Len(q) => fill[k] = q[k]
    <2> HIDE DEF q, p
    <2> QED
      BY <1>1, <1>2, Filled
  <1> HIDE DEF open, fill, d, q, a, p
  <1>7. d \in Layouts /\ \A c \in Actors : c # a => d[c] = b[c]
    BY <1>1, <1>2, <1>3, <1>5, <1>6 DEF Layouts
  <1>8. d[a] = IF Overflows(sz, Last(q), p) THEN open ELSE fill
    BY <1>1, <1>2, <1>3 DEF Layouts
  <1>9. BucketSize(sz) \in Nat /\ sz[p] <= BucketSize(sz) /\ sz[p] \in Nat
    BY <1>1, SizeOfBuckets
  <1>10. ASSUME NEW s \in Seq(Params)
         PROVE  /\ TotalSize(sz, s) \in Nat
                /\ TotalSize(sz, Append(s, p)) = TotalSize(sz, s) + sz[p]
    BY <1>1, TotalAppend
  <1>11. TotalSize(sz, <<p>>) = sz[p]
    <2>1. << >> \in Seq(Params) /\ Append(<< >>, p) = <<p>>
      OBVIOUS
    <2>2. TotalSize(sz, Append(<< >>, p)) = TotalSize(sz, << >>) + sz[p]
      BY <1>10, <2>1, Zenon
    <2> QED
      BY <1>9, <2>1, <2>2, TotalEmpty
  <1>12. \A c \in Actors : \A k \in 1..Len(b[c]) : TotalSize(sz, b[c][k]) <= BucketSize(sz)
    BY DEF WellPlaced, Fit
  <1>13. \A k \in 1..Len(q) : TotalSize(sz, q[k]) <= BucketSize(sz)
    BY <1>1, <1>12 DEF q
  <1>14. ASSUME NEW k \in 1..Len(d[a]) PROVE TotalSize(sz, d[a][k]) <= BucketSize(sz)
    <2>1. CASE Overflows(sz, Last(q), p)
      <3>1. d[a] = open
        BY <1>8, <2>1
      <3>2. k = Len(q) + 1 \/ k \in 1..Len(q)
        BY <1>4, <1>5, <3>1
      <3>3. k = Len(q) + 1 => d[a][k] = <<p>>
        BY <1>5, <3>1
      <3>4. k \in 1..Len(q) => d[a][k] = q[k]
        BY <1>5, <3>1
      <3> QED
        BY <1>9, <1>11, <1>13, <3>2, <3>3, <3>4
    <2>2. CASE ~Overflows(sz, Last(q), p)
      <3>1. d[a] = fill
        BY <1>8, <2>2
      <3>2. k \in 1..Len(q)
        BY <1>6, <3>1
      <3>3. k = Len(q) => TotalSize(sz, d[a][k]) = TotalSize(sz, q[Len(q)]) + sz[p]
        BY <1>4, <1>6, <1>10, <3>1
      <3>4. TotalSize(sz, q[Len(q)]) + sz[p] <= BucketSize(sz)
        BY <1>4, <1>9, <1>10, <2>2 DEF Overflows
      <3>5. k # Len(q) => d[a][k] = q[k]
        BY <1>6, <3>1, <3>2
      <3> QED
        BY <1>13, <3>2, <3>3, <3>4, <3>5
    <2> QED
      BY <2>1, <2>2
  <1>15. Fit(sz, d)
    BY <1>7, <1>12, <1>14 DEF Fit
  <1>16. Grown(b, d, a, i, j, p)
    <2>1. \A c, k, l : c # a => (IsCell(d, c, k, l) <=> IsCell(b, c, k, l))
      BY <1>7 DEF IsCell
    <2>2. \A c, k, l : c # a /\ IsCell(b, c, k, l) => d[c][k][l] = b[c][k][l]
      BY <1>7 DEF IsCell
    <2>3. \A k, l : IsCell(b, a, k, l) <=> k \in 1..Len(q) /\ l \in 1..Len(q[k])
      BY <1>1 DEF IsCell, q
    <2>4. \A k, l : IsCell(d, a, k, l) <=> k \in 1..Len(d[a]) /\ l \in 1..Len(d[a][k])
      BY <1>1 DEF IsCell
    <2>5. CASE Overflows(sz, Last(q), p)
      <3>1. d[a] = open /\ i = Len(q) + 1
        BY <1>5, <1>8, <2>5
      <3>2. d[a][i] = <<p>> /\ j = 1 /\ <<p>>[1] = p
        <4>1. d[a][i] = <<p>>
          BY <1>5, <3>1
        <4>2. Len(<<p>>) = 1 /\ <<p>>[1] = p
          OBVIOUS
        <4> HIDE DEF i
        <4> QED
          BY <4>1, <4>2
      <3>3. \A k : k \in 1..Len(d[a]) <=> k = i \/ k \in 1..Len(q)
        BY <1>4, <1>5, <3>1
      <3>4. ~(i \in 1..Len(q)) /\ (\A k \in 1..Len(q) : d[a][k] = q[k] /\ k # i)
        BY <1>4, <1>5, <3>1
      <3> HIDE DEF i, j
      <3>5. \A l : l \in 1..Len(<<p>>) <=> l = 1
        OBVIOUS
      <3>6. \A k, l : IsCell(d, a, k, l) <=> (k = i /\ l = j) \/ IsCell(b, a, k, l)
        BY <2>3, <2>4, <3>2, <3>3, <3>4, <3>5
      <3>7. \A k, l : IsCell(b, a, k, l) => d[a][k][l] = b[a][k][l]
        BY <2>3, <3>4 DEF q
      <3> QED
        BY <2>1, <2>2, <2>3, <3>2, <3>4, <3>6, <3>7 DEF Grown
    <2>6. CASE ~Overflows(sz, Last(q), p)
      <3> DEFINE s == q[Len(q)]
      <3>1. d[a] = fill /\ i = Len(q)
        BY <1>6, <1>8, <2>6
      <3>2. d[a][i] = Append(s, p) /\ s \in Seq(Params)
        BY <1>4, <1>6, <3>1
      <3>3. /\ Len(s) \in Nat /\ Len(Append(s, p)) = Len(s) + 1
            /\ Append(s, p)[Len(s) + 1] = p /\ \A l \in 1..Len(s) : Append(s, p)[l] = s[l]
        BY <1>1, <3>2
      <3>4. j = Len(s) + 1 /\ d[a][i][j] = p
        BY <3>2, <3>3
      <3>5. \A l : l \in 1..Len(d[a][i]) <=> l = j \/ l \in 1..Len(s)
        BY <3>2, <3>3, <3>4
      <3>6. ~(j \in 1..Len(s)) /\ \A l \in 1..Len(s) : d[a][i][l] = s[l]
        BY <3>2, <3>3, <3>4
      <3>7. i \in 1..Len(q) /\ Len(d[a]) = Len(q)
        BY <1>4, <1>6, <3>1
      <3>8. \A k \in 1..Len(q) : k # i => d[a][k] = q[k]
        BY <1>6, <3>1
      <3>9. s = q[i]
        BY <3>1
      <3> HIDE DEF i, j, s
      <3>10. \A k, l : IsCell(d, a, k, l) <=> (k = i /\ l = j) \/ IsCell(b, a, k, l)
        BY <2>3, <2>4, <3>5, <3>7, <3>8, <3>9
      <3>11. \A k, l : IsCell(b, a, k, l) => d[a][k][l] = b[a][k][l]
        BY <2>3, <3>6, <3>8, <3>9 DEF q
      <3>12. ~IsCell(b, a, i, j)
        BY <2>3, <3>6, <3>9
      <3> QED
        BY <2>1, <2>2, <3>4, <3>10, <3>11, <3>12 DEF Grown
    <2> QED
      BY <2>5, <2>6
  <1>17. AllPlaced(d, p) /\ OnlyPlaced(d, p) /\ PlacedOnce(d)
    <2> HIDE DEF i, j
    <2> QED
      BY <1>16, GrownWell DEF WellPlaced, p
  <1> QED
    BY <1>7, <1>15, <1>17 DEF WellPlaced, d, p

\* Before the first parameter every actor has one bucket, with nothing in it.
LEMMA EmptyWell ==
  ASSUME NEW sz \in [Params -> Nat] PROVE WellPlaced(sz, Empty, 0)
PROOF
  <1> DEFINE none == << << >> >>
  <1>1. none \in Seq(Seq(Params)) \ {<< >>} /\ Len(none) = 1 /\ none[1] = << >>
    OBVIOUS
  <1>2. \A a \in Actors : Empty[a] = none
    BY DEF Empty
  <1>3. Empty \in Layouts
    BY <1>1 DEF Empty, Layouts
  <1>4. ~(\E a, i, j : IsCell(Empty, a, i, j))
    <2> SUFFICES ASSUME NEW a, NEW i, NEW j, IsCell(Empty, a, i, j) PROVE FALSE
      OBVIOUS
    <2> HIDE DEF none
    <2>1. i \in 1..Len(none) /\ j \in 1..Len(none[i])
      BY <1>2 DEF IsCell
    <2>2. i = 1
      BY <1>1, <2>1
    <2>3. j \in 1..Len(<< >>)
      BY <1>1, <2>1, <2>2
    <2> QED
      BY <2>3
  <1>5. Fit(sz, Empty)
    <2> SUFFICES ASSUME NEW a \in Actors, NEW i \in 1..Len(Empty[a])
                 PROVE  TotalSize(sz, Empty[a][i]) <= BucketSize(sz)
      BY DEF Fit
    <2> HIDE DEF none
    <2>0. Empty[a] = none
      BY <1>2
    <2>1. i = 1
      <3>1. i \in 1..Len(none)
        BY <2>0
      <3> QED
        BY <1>1, <3>1
    <2>2. Empty[a][i] = << >>
      BY <1>1, <2>0, <2>1
    <2>3. BucketSize(sz) \in Nat
      BY SizeOfBuckets
    <2> QED
      BY <2>2, <2>3, TotalEmpty
  <1> QED
    BY <1>3, <1>4, <1>5 DEF WellPlaced, AllPlaced, OnlyPlaced, PlacedOnce

\* The loop of register_checkpoint.
LEMMA BucketSteps ==
  ASSUME NEW sz \in [Params -> Nat]
  PROVE  WellPlaced(sz, GlobalBuckets(sz), NumParams)
PROOF
  <1> DEFINE K == NumParams
             Loop(f) == f = [p \in 0..K |-> IF p = 0 THEN Empty ELSE Placed(sz, f[p - 1], p)]
             F == CHOOSE f : Loop(f)
             step == [b \in Layouts |-> [p \in 1..K |->
                       IF Placed(sz, b, p) \in Layouts THEN Placed(sz, b, p) ELSE Empty]]
  <1>1. K \in Nat /\ Empty \in Layouts
    BY TransferAssumption, EmptyWell DEF WellPlaced
  <1>2. step \in [Layouts -> [1..K -> Layouts]]
    <2> HIDE DEF K
    <2> QED
      BY <1>1
  <1>3. PICK f \in [0..K -> Layouts] : Iteration(f, K, Empty, step)
    <2> HIDE DEF K, step
    <2> QED
      BY <1>1, <1>2, Iterates, Zenon
  <1>4. f[0] = Empty /\ \A p \in 1..K : f[p] = step[f[p - 1]][p]
    <2> HIDE DEF K, step
    <2> QED
      BY <1>3 DEF Iteration
  <1>5. \A b \in Layouts : \A p \in 1..K :
          step[b][p] = IF Placed(sz, b, p) \in Layouts THEN Placed(sz, b, p) ELSE Empty
    <2> HIDE DEF K
    <2> QED
      OBVIOUS
  <1> HIDE DEF K, step
  <1>6. \A p \in 0..K : WellPlaced(sz, f[p], p)
    <2> DEFINE T == {m \in Nat : m <= K => WellPlaced(sz, f[m], m)}
    <2>1. 0 \in T
      BY <1>4, EmptyWell
    <2>2. ASSUME NEW m \in T PROVE m + 1 \in T
      <3>1. m \in Nat /\ (m <= K => WellPlaced(sz, f[m], m))
        OBVIOUS
      <3> SUFFICES ASSUME m + 1 <= K PROVE WellPlaced(sz, f[m + 1], m + 1)
        BY <3>1
      <3>2. /\ m <= K /\ m \in 0..K /\ m + 1 \in 1..K /\ (m + 1) - 1 = m /\ m + 1 <= NumParams
        BY <1>1, <3>1 DEF K
      <3>3. WellPlaced(sz, Placed(sz, f[m], m + 1), m + 1)
        BY <3>1, <3>2, PlacedWell
      <3>4. Placed(sz, f[m], m + 1) \in Layouts /\ f[m] \in Layouts
        BY <3>1, <3>2, <3>3 DEF WellPlaced
      <3>5. f[m + 1] = step[f[m]][m + 1]
        BY <1>4, <3>2
      <3>6. f[m + 1] = Placed(sz, f[m], m + 1)
        BY <1>5, <3>2, <3>4, <3>5
      <3> QED
        BY <3>3, <3>6
    <2>3. \A m \in Nat : m >= 0 => m \in T
      <3>1. T \in SUBSET Nat
        OBVIOUS
      <3> HIDE DEF T
      <3>2. 0 \in Nat /\ \A m \in T : m + 1 \in T
        BY <2>2
      <3> QED
        BY <2>1, <3>1, <3>2, CountUp
    <2> QED
      BY <2>3
  <1>7. \A p \in 1..K : f[p] = Placed(sz, f[p - 1], p)
    <2> SUFFICES ASSUME NEW p \in 1..K PROVE f[p] = Placed(sz, f[p - 1], p)
      OBVIOUS
    <2>1. p - 1 \in Nat /\ p - 1 \in 0..K /\ (p - 1) + 1 = p /\ p <= NumParams
      BY <1>1 DEF K
    <2>2. WellPlaced(sz, f[p - 1], p - 1)
      BY <1>6, <2>1
    <2>3. WellPlaced(sz, Placed(sz, f[p - 1], (p - 1) + 1), (p - 1) + 1)
      BY <2>1, <2>2, PlacedWell
    <2>4. Placed(sz, f[p - 1], p) \in Layouts /\ f[p - 1] \in Layouts
      BY <2>1, <2>2, <2>3 DEF WellPlaced
    <2> QED
      BY <1>4, <1>5, <2>4
  <1>8. Loop(f)
    <2>1. \A p \in 0..K : p # 0 => p \in 1..K
      BY <1>1
    <2>2. \A p \in 0..K : f[p] = IF p = 0 THEN Empty ELSE Placed(sz, f[p - 1], p)
      BY <1>4, <1>7, <2>1
    <2> QED
      BY <2>2
  <1>9. GlobalBuckets(sz) = F[K]
    BY DEF GlobalBuckets, Empty, K
  <1> HIDE DEF Loop
  <1>10. Loop(F)
    BY <1>8
  <1> HIDE DEF F
  <1>11. F[0] = Empty /\ \A p \in 1..K : F[p] = Placed(sz, F[p - 1], p)
    <2>1. \A p \in 0..K : F[p] = IF p = 0 THEN Empty ELSE Placed(sz, F[p - 1], p)
      <3> DEFINE G == [p \in 0..K |-> IF p = 0 THEN Empty ELSE Placed(sz, F[p - 1], p)]
      <3>1. \A p \in 0..K : G[p] = IF p = 0 THEN Empty ELSE Placed(sz, F[p - 1], p)
        OBVIOUS
      <3>2. F = G
        BY <1>10 DEF Loop
      <3> HIDE DEF G
      <3> QED
        BY <3>1, <3>2
    <2>2. 0 \in 0..K /\ \A p \in 1..K : p # 0 /\ p \in 0..K
      BY <1>1
    <2> QED
      BY <2>1, <2>2
  <1>12. Follows(F, f, K)
    BY <1>4, <1>7, <1>11 DEF Follows
  <1>13. Agree(F, f, K)
    BY <1>1, <1>12, FollowersAgree
  <1>14. F[K] = f[K] /\ K \in 0..K
    BY <1>1, <1>13 DEF Agree
  <1> QED
    BY <1>6, <1>9, <1>14 DEF K

-----------------------------------------------------------------------------
\* q has the entries of the first m sequences of ss, each at one place: at says
\* where the x-th of q comes from.
Entry(ss, m, c) == /\ c \in Nat \X Nat /\ c[1] \in 1..m /\ c[2] \in 1..Len(ss[c[1]])
Laid(ss, m, q, at) ==
  /\ \A x \in 1..Len(q) : Entry(ss, m, at[x]) /\ q[x] = ss[at[x][1]][at[x][2]]
  /\ \A x, y \in 1..Len(q) : at[x] = at[y] => x = y
  /\ \A c : Entry(ss, m, c) => \E x \in 1..Len(q) : at[x] = c

\* What concatenation does to length and entries.
LEMMA ConcatExtends ==
  ASSUME NEW X, NEW q \in Seq(X), NEW s \in Seq(X)
  PROVE  /\ q \o s \in Seq(X) /\ Len(q) \in Nat /\ Len(s) \in Nat
         /\ Len(q \o s) = Len(q) + Len(s)
         /\ \A x \in 1..Len(q) : (q \o s)[x] = q[x]
         /\ \A y \in 1..Len(s) : (q \o s)[Len(q) + y] = s[y]
PROOF
  <1>1. q \o s \in Seq(X) /\ Len(q) \in Nat /\ Len(s) \in Nat /\ Len(q \o s) = Len(q) + Len(s)
    OBVIOUS
  <1>2. \A x \in 1..Len(q) + Len(s) : (q \o s)[x] = IF x <= Len(q) THEN q[x] ELSE s[x - Len(q)]
    OBVIOUS
  <1>3. \A x \in 1..Len(q) : (q \o s)[x] = q[x]
    BY <1>1, <1>2
  <1>4. ASSUME NEW y \in 1..Len(s) PROVE (q \o s)[Len(q) + y] = s[y]
    <2>1. /\ Len(q) + y \in 1..Len(q) + Len(s) /\ ~(Len(q) + y <= Len(q))
          /\ (Len(q) + y) - Len(q) = y
      BY <1>1
    <2> QED
      BY <1>2, <2>1
  <1> QED
    BY <1>1, <1>3, <1>4

LEMMA LaidNext ==
  ASSUME NEW X, NEW ss, NEW m \in Nat, NEW q \in Seq(X), NEW at, Laid(ss, m, q, at),
         ss[m + 1] \in Seq(X)
  PROVE  \E to : Laid(ss, m + 1, q \o ss[m + 1], to)
PROOF
  <1> DEFINE s == ss[m + 1]
             d == q \o s
             to == [x \in 1..Len(d) |-> IF x <= Len(q) THEN at[x] ELSE <<m + 1, x - Len(q)>>]
  <1>1. /\ Len(q) \in Nat /\ Len(s) \in Nat /\ Len(d) = Len(q) + Len(s)
        /\ \A x \in 1..Len(q) : d[x] = q[x]
        /\ \A y \in 1..Len(s) : d[Len(q) + y] = s[y]
    BY ConcatExtends
  <1> HIDE DEF d, s
  <1>2. \A x \in 1..Len(q) : x \in 1..Len(d) /\ to[x] = at[x]
    BY <1>1
  <1>3. \A y \in 1..Len(s) : Len(q) + y \in 1..Len(d) /\ to[Len(q) + y] = <<m + 1, y>>
    BY <1>1
  <1>4. \A x \in 1..Len(d) : x \in 1..Len(q) \/ \E y \in 1..Len(s) : x = Len(q) + y
    <2> SUFFICES ASSUME NEW x \in 1..Len(d), ~(x \in 1..Len(q))
                 PROVE  \E y \in 1..Len(s) : x = Len(q) + y
      OBVIOUS
    <2>1. x - Len(q) \in 1..Len(s) /\ x = Len(q) + (x - Len(q))
      BY <1>1
    <2> QED
      BY <2>1
  <1> HIDE DEF to
  <1>5. ASSUME NEW c PROVE Entry(ss, m + 1, c) <=> Entry(ss, m, c) \/ \E y \in 1..Len(s) : c = <<m + 1, y>>
    <2>1. \A i : i \in 1..m + 1 <=> i \in 1..m \/ i = m + 1
      OBVIOUS
    <2>2. ASSUME NEW y \in 1..Len(s) PROVE Entry(ss, m + 1, <<m + 1, y>>)
      <3>1. <<m + 1, y>> \in Nat \X Nat
        BY <1>1
      <3> QED
        BY <2>1, <3>1 DEF Entry, s
    <2>3. ASSUME Entry(ss, m + 1, c), c[1] = m + 1 PROVE c[2] \in 1..Len(s) /\ c = <<m + 1, c[2]>>
      BY <2>3 DEF Entry, s
    <2>4. Entry(ss, m, c) => Entry(ss, m + 1, c)
      BY <2>1 DEF Entry
    <2>5. Entry(ss, m + 1, c) => Entry(ss, m, c) \/ c[1] = m + 1
      BY <2>1 DEF Entry
    <2> QED
      BY <2>2, <2>3, <2>4, <2>5
  <1>6. \A x \in 1..Len(d) : Entry(ss, m + 1, to[x]) /\ d[x] = ss[to[x][1]][to[x][2]]
    <2> SUFFICES ASSUME NEW x \in 1..Len(d)
                 PROVE  Entry(ss, m + 1, to[x]) /\ d[x] = ss[to[x][1]][to[x][2]]
      OBVIOUS
    <2>1. CASE x \in 1..Len(q)
      BY <1>1, <1>2, <1>5, <2>1 DEF Laid
    <2>2. ASSUME NEW y \in 1..Len(s), x = Len(q) + y
          PROVE  Entry(ss, m + 1, to[x]) /\ d[x] = ss[to[x][1]][to[x][2]]
      <3>1. to[x] = <<m + 1, y>> /\ d[x] = s[y]
        BY <1>1, <1>3, <2>2
      <3>2. to[x][1] = m + 1 /\ to[x][2] = y
        BY <3>1
      <3> QED
        BY <1>5, <3>1, <3>2 DEF s
    <2> QED
      BY <1>4, <2>1, <2>2
  <1>7. \A x \in 1..Len(q) : to[x][1] # m + 1
    <2>1. \A x \in 1..Len(q) : at[x][1] \in 1..m
      BY DEF Laid, Entry
    <2> QED
      BY <1>2, <2>1
  <1>8. ASSUME NEW x \in 1..Len(d), NEW y \in 1..Len(d), to[x] = to[y] PROVE x = y
    <2>1. CASE x \in 1..Len(q) /\ y \in 1..Len(q)
      BY <1>2, <1>8, <2>1 DEF Laid
    <2>2. ASSUME NEW z \in 1..Len(s), x = Len(q) + z PROVE x = y
      <3>1. to[y][1] = m + 1 /\ to[y][2] = z
        BY <1>3, <1>8, <2>2
      <3>2. PICK w \in 1..Len(s) : y = Len(q) + w
        BY <1>4, <1>7, <3>1
      <3>3. w = z
        BY <1>3, <3>1, <3>2
      <3> QED
        BY <2>2, <3>2, <3>3
    <2>3. ASSUME NEW z \in 1..Len(s), y = Len(q) + z PROVE x = y
      <3>1. to[x][1] = m + 1 /\ to[x][2] = z
        BY <1>3, <1>8, <2>3
      <3>2. PICK w \in 1..Len(s) : x = Len(q) + w
        BY <1>4, <1>7, <3>1
      <3>3. w = z
        BY <1>3, <3>1, <3>2
      <3> QED
        BY <2>3, <3>2, <3>3
    <2> QED
      BY <1>4, <2>1, <2>2, <2>3
  <1>9. ASSUME NEW c, Entry(ss, m + 1, c) PROVE \E x \in 1..Len(d) : to[x] = c
    <2>1. CASE Entry(ss, m, c)
      BY <1>2, <2>1 DEF Laid
    <2>2. CASE \E y \in 1..Len(s) : c = <<m + 1, y>>
      BY <1>3, <2>2
    <2> QED
      BY <1>5, <1>9, <2>1, <2>2
  <1>10. Laid(ss, m + 1, d, to)
    BY <1>6, <1>8, <1>9 DEF Laid
  <1> QED
    BY <1>10 DEF d, s

\* FlattenSeq lays its sequences one after the other.
LEMMA FlattenLays ==
  ASSUME NEW X, NEW ss, NEW K \in Nat, K > 0, DOMAIN ss = 1..K, Len(ss) = K,
         \A i \in 1..K : ss[i] \in Seq(X)
  PROVE  FlattenSeq(ss) \in Seq(X) /\ \E at : Laid(ss, K, FlattenSeq(ss), at)
PROOF
  <1>1. PICK f : /\ FlattenSeq(ss) = f[K] /\ f[1] = ss[1]
                 /\ \A i \in 1..K : i > 1 => f[i] = f[i - 1] \o ss[i]
    BY FlattenSteps
  <1> DEFINE T == {m \in Nat : m <= K => f[m] \in Seq(X) /\ \E at : Laid(ss, m, f[m], at)}
  <1>2. 1 \in T
    <2>1. 1 \in 1..K /\ f[1] \in Seq(X)
      BY <1>1
    <2>2. << >> \in Seq(X) /\ Len(<< >>) = 0 /\ << >> \o f[1] = f[1]
      BY <2>1
    <2>3. Laid(ss, 0, << >>, << >>)
      BY <2>2 DEF Laid, Entry
    <2>4. \E at : Laid(ss, 0 + 1, << >> \o ss[0 + 1], at)
      <3>1. 0 \in Nat /\ 0 + 1 = 1 /\ ss[0 + 1] \in Seq(X)
        BY <1>1, <2>1
      <3> QED
        BY <2>2, <2>3, <3>1, LaidNext
    <2>5. \E at : Laid(ss, 1, f[1], at)
      <3>1. 0 + 1 = 1
        OBVIOUS
      <3> QED
        BY <1>1, <2>2, <2>4, <3>1
    <2> QED
      BY <2>1, <2>5
  <1>3. ASSUME NEW m \in T, m >= 1 PROVE m + 1 \in T
    <2>1. m \in Nat /\ (m <= K => f[m] \in Seq(X) /\ \E at : Laid(ss, m, f[m], at))
      OBVIOUS
    <2> SUFFICES ASSUME m + 1 <= K
                 PROVE  f[m + 1] \in Seq(X) /\ \E at : Laid(ss, m + 1, f[m + 1], at)
      BY <2>1
    <2>2. m <= K /\ m + 1 \in 1..K /\ m + 1 > 1 /\ (m + 1) - 1 = m
      BY <1>3, <2>1
    <2>3. f[m + 1] = f[m] \o ss[m + 1] /\ ss[m + 1] \in Seq(X) /\ f[m] \in Seq(X)
      BY <1>1, <2>1, <2>2
    <2>4. PICK at : Laid(ss, m, f[m], at)
      BY <2>1, <2>2
    <2>5. \E to : Laid(ss, m + 1, f[m] \o ss[m + 1], to)
      BY <2>1, <2>3, <2>4, LaidNext
    <2>6. f[m] \o ss[m + 1] \in Seq(X)
      BY <2>3
    <2> QED
      BY <2>3, <2>5, <2>6
  <1>4. \A m \in Nat : m >= 1 => m \in {x \in T : x >= 1}
    <2> DEFINE U == {x \in T : x >= 1}
    <2>1. U \in SUBSET Nat /\ 1 \in U
      BY <1>2
    <2> HIDE DEF T
    <2>2. \A m \in U : m + 1 \in U
      <3> SUFFICES ASSUME NEW m \in U PROVE m + 1 \in U
        OBVIOUS
      <3>1. m \in T /\ m >= 1 /\ m \in Nat
        BY <2>1
      <3>2. m + 1 \in T
        BY <1>3, <3>1
      <3> QED
        BY <3>1, <3>2
    <2> HIDE DEF U
    <2>3. \A m \in Nat : m >= 1 => m \in U
      BY <2>1, <2>2, CountUp
    <2> QED
      BY <2>3 DEF U
  <1> QED
    <2>1. K \in T
      BY <1>4
    <2> QED
      BY <1>1, <2>1

-----------------------------------------------------------------------------
\* The rounds carry every parameter once, in buckets of the right size.
Round == [rank : Actors, names : Seq(Params)]
InRound(rs, g, j) == g \in 1..Len(rs) /\ j \in 1..Len(rs[g].names)

RoundsFit(sz, rs) == \A g \in 1..Len(rs) : TotalSize(sz, rs[g].names) <= BucketSize(sz)
RoundsCover(rs) == \A p \in Params : \E g, j : InRound(rs, g, j) /\ rs[g].names[j] = p
RoundsOnce(rs) ==
  \A g, j, h, k : InRound(rs, g, j) /\ InRound(rs, h, k) /\ rs[g].names[j] = rs[h].names[k]
                    => g = h /\ j = k
Planned(sz, rs) == rs \in Seq(Round) /\ RoundsFit(sz, rs) /\ RoundsCover(rs) /\ RoundsOnce(rs)

\* Bucket i of actor a, if it has one.
Turn(b, i, a) == IF i <= Len(b[a]) THEN << [rank |-> a, names |-> b[a][i]] >> ELSE << >>
Row(b, i) == [a \in Actors |-> Turn(b, i, a)]
Most(b) == Max({Len(b[a]) : a \in Actors})

LEMMA MostIsBound ==
  ASSUME NEW b \in Layouts
  PROVE  Most(b) \in Nat /\ Most(b) > 0 /\ \A a \in Actors : Len(b[a]) \in Nat /\ Len(b[a]) <= Most(b)
PROOF
  <1> DEFINE len == [a \in Actors |-> Len(b[a])]
             S == {Len(b[a]) : a \in Actors}
  <1>0. NumActors \in Nat /\ 1 \in Actors
    BY TransferAssumption DEF Actors
  <1>1. \A a \in Actors : Len(b[a]) \in Nat /\ Len(b[a]) > 0
    <2> SUFFICES ASSUME NEW a \in Actors PROVE Len(b[a]) \in Nat /\ Len(b[a]) > 0
      OBVIOUS
    <2>1. b[a] \in Seq(Seq(Params)) \ {<< >>}
      BY DEF Layouts
    <2> QED
      BY <2>1, LastBucket
  <1>2. \A a \in 1..NumActors : len[a] \in Nat
    BY <1>1 DEF Actors
  <1> HIDE DEF len
  <1>3. PICK m \in Nat : \A a \in 1..NumActors : len[a] <= m
    BY <1>0, <1>2, Bounded
  <1>4. \A x \in S : x <= m
    BY <1>3 DEF len, Actors
  <1>5. S \in SUBSET Nat /\ Len(b[1]) \in S /\ \A a \in Actors : Len(b[a]) \in S
    BY <1>0, <1>1
  <1> HIDE DEF S
  <1>6. Max(S) \in S /\ \A x \in S : x <= Max(S)
    BY <1>4, <1>5, Maximum
  <1>7. Most(b) = Max(S)
    BY DEF Most, S
  <1>8. Most(b) \in Nat /\ \A a \in Actors : Len(b[a]) <= Most(b)
    BY <1>5, <1>6, <1>7
  <1>9. Most(b) > 0
    BY <1>0, <1>1, <1>8
  <1> QED
    BY <1>1, <1>8, <1>9

LEMMA Turns ==
  ASSUME NEW b \in Layouts, NEW i \in Nat, i > 0, NEW a \in Actors
  PROVE  /\ Turn(b, i, a) \in Seq(Round)
         /\ i <= Len(b[a]) => Len(Turn(b, i, a)) = 1
                              /\ Turn(b, i, a)[1] = [rank |-> a, names |-> b[a][i]]
         /\ ~(i <= Len(b[a])) => Len(Turn(b, i, a)) = 0
PROOF
  <1> DEFINE e == [rank |-> a, names |-> b[a][i]]
  <1>1. CASE i <= Len(b[a])
    <2>1. b[a] \in Seq(Seq(Params))
      BY DEF Layouts
    <2>2. i \in 1..Len(b[a])
      BY <1>1, <2>1
    <2>3. e \in Round
      BY <2>1, <2>2 DEF Round
    <2>4. Turn(b, i, a) = <<e>>
      BY <1>1 DEF Turn
    <2> HIDE DEF e
    <2>5. <<e>> \in Seq(Round) /\ Len(<<e>>) = 1 /\ <<e>>[1] = e
      BY <2>3
    <2> QED
      BY <1>1, <2>4, <2>5 DEF e
  <1>2. CASE ~(i <= Len(b[a]))
    BY <1>2 DEF Turn
  <1> QED
    BY <1>1, <1>2

LEMMA RoundsPlanned ==
  ASSUME NEW sz \in [Params -> Nat] PROVE Planned(sz, Rounds(sz))
PROOF
  <1> DEFINE b == GlobalBuckets(sz)
             most == Most(b)
             N == NumActors
             R(i) == FlattenSeq(Row(b, i))
             ss == [i \in 1..most |-> R(i)]
             rs == FlattenSeq(ss)
  <1>1. WellPlaced(sz, b, NumParams)
    BY BucketSteps
  <1>2. rs = Rounds(sz)
    BY DEF Rounds, Row, Turn, Most
  <1> HIDE DEF b
  <1>3. b \in Layouts /\ N \in Nat /\ N > 0
    BY <1>1, TransferAssumption DEF WellPlaced
  <1>4. most \in Nat /\ most > 0 /\ \A a \in Actors : Len(b[a]) \in Nat /\ Len(b[a]) <= most
    BY <1>3, MostIsBound
  <1> HIDE DEF most
  <1>5. ASSUME NEW i \in 1..most
        PROVE  R(i) \in Seq(Round) /\ \E at : Laid(Row(b, i), N, R(i), at)
    <2> DEFINE row == Row(b, i)
    <2>1. DOMAIN row = 1..N /\ Len(row) = N /\ \A a \in 1..N : row[a] = Turn(b, i, a)
      BY <1>3 DEF Row, Actors
    <2>2. \A a \in 1..N : row[a] \in Seq(Round)
      <3> SUFFICES ASSUME NEW a \in 1..N PROVE row[a] \in Seq(Round)
        OBVIOUS
      <3>1. i \in Nat /\ i > 0 /\ a \in Actors
        BY <1>4 DEF Actors
      <3>2. Turn(b, i, a) \in Seq(Round)
        BY <1>3, <3>1, Turns
      <3> QED
        BY <2>1, <3>2
    <2> HIDE DEF row
    <2>3. FlattenSeq(row) \in Seq(Round) /\ \E at : Laid(row, N, FlattenSeq(row), at)
      BY <1>3, <2>1, <2>2, FlattenLays
    <2> QED
      BY <2>3 DEF row
  <1> DEFINE AtRow(i) == CHOOSE at : Laid(Row(b, i), N, R(i), at)
  <1>6. \A i \in 1..most : Laid(Row(b, i), N, R(i), AtRow(i))
    <2> HIDE DEF R
    <2> QED
      BY <1>5
  <1>7. DOMAIN ss = 1..most /\ Len(ss) = most /\ \A i \in 1..most : ss[i] = R(i)
    BY <1>4
  <1>8. rs \in Seq(Round) /\ \E at : Laid(ss, most, rs, at)
    <2>1. \A i \in 1..most : ss[i] \in Seq(Round)
      BY <1>5, <1>7
    <2> HIDE DEF ss
    <2> QED
      BY <1>4, <1>7, <2>1, FlattenLays
  <1>9. PICK at : Laid(ss, most, rs, at)
    BY <1>8
  <1> DEFINE I(g) == at[g][1]
             A(g) == AtRow(I(g))[at[g][2]][1]
  <1> HIDE DEF ss, rs, R, AtRow
  <1>10. \A i \in 1..most : \A a \in Actors : Row(b, i)[a] = Turn(b, i, a)
    BY DEF Row
  \* What stands at position x of row i.
  <1>11. ASSUME NEW i \in 1..most, NEW x \in 1..Len(R(i))
         PROVE  LET a == AtRow(i)[x][1] IN
                  /\ a \in Actors /\ i <= Len(b[a]) /\ AtRow(i)[x] = <<a, 1>>
                  /\ R(i)[x] = [rank |-> a, names |-> b[a][i]]
    <2> DEFINE c == AtRow(i)[x]
               a == c[1]
    <2>1. Entry(Row(b, i), N, c) /\ R(i)[x] = Row(b, i)[a][c[2]]
      BY <1>6 DEF Laid
    <2> HIDE DEF c
    <2>2. a \in Actors /\ c[2] \in 1..Len(Row(b, i)[a]) /\ c \in Nat \X Nat
      BY <2>1 DEF Entry, Actors
    <2>3. Row(b, i)[a] = Turn(b, i, a)
      BY <1>10, <2>2
    <2>0. i \in Nat /\ i > 0
      BY <1>4
    <2>4. i <= Len(b[a])
      <3>1. Len(Turn(b, i, a)) # 0
        BY <2>2, <2>3
      <3> QED
        BY <1>3, <2>0, <2>2, <3>1, Turns
    <2>5. Len(Turn(b, i, a)) = 1 /\ Turn(b, i, a)[1] = [rank |-> a, names |-> b[a][i]]
      BY <1>3, <2>0, <2>2, <2>4, Turns
    <2>6. c[2] = 1
      BY <2>2, <2>3, <2>5
    <2>7. c = <<a, 1>>
      BY <2>2, <2>6
    <2> QED
      BY <2>1, <2>2, <2>3, <2>4, <2>5, <2>6, <2>7 DEF c
  <1>12. \A g \in 1..Len(rs) : /\ I(g) \in 1..most /\ at[g][2] \in 1..Len(R(I(g)))
                               /\ at[g] = <<I(g), at[g][2]>> /\ rs[g] = R(I(g))[at[g][2]]
    BY <1>7, <1>9 DEF Laid, Entry
  <1>13. ASSUME NEW g \in 1..Len(rs)
         PROVE  /\ I(g) \in 1..most /\ A(g) \in Actors /\ I(g) <= Len(b[A(g)])
                /\ rs[g] = [rank |-> A(g), names |-> b[A(g)][I(g)]]
                /\ AtRow(I(g))[at[g][2]] = <<A(g), 1>>
    BY <1>11, <1>12
  <1>14. ASSUME NEW g \in 1..Len(rs), NEW h \in 1..Len(rs), I(g) = I(h), A(g) = A(h)
         PROVE  g = h
    <2>1. AtRow(I(g))[at[g][2]] = AtRow(I(g))[at[h][2]]
      BY <1>13, <1>14
    <2>2. at[g][2] \in 1..Len(R(I(g))) /\ at[h][2] \in 1..Len(R(I(g))) /\ I(g) \in 1..most
      BY <1>12, <1>14
    <2>3. at[g][2] = at[h][2]
      <3>1. Laid(Row(b, I(g)), N, R(I(g)), AtRow(I(g)))
        BY <1>6, <2>2
      <3> HIDE DEF I
      <3>2. \A x, y \in 1..Len(R(I(g))) : AtRow(I(g))[x] = AtRow(I(g))[y] => x = y
        BY <3>1 DEF Laid
      <3> QED
        BY <2>1, <2>2, <3>2
    <2>4. at[g] = at[h]
      BY <1>12, <1>14, <2>3
    <2> QED
      BY <1>9, <2>4 DEF Laid
  <1>15. ASSUME NEW a \in Actors, NEW i \in 1..Len(b[a])
         PROVE  \E g \in 1..Len(rs) : I(g) = i /\ A(g) = a
    <2>1. i \in 1..most /\ i \in Nat /\ i > 0 /\ i <= Len(b[a])
      BY <1>4
    <2>2. Entry(Row(b, i), N, <<a, 1>>)
      <3>1. Len(Turn(b, i, a)) = 1
        BY <1>3, <2>1, Turns
      <3>2. a \in 1..N /\ <<a, 1>> \in Nat \X Nat
        BY <1>3 DEF Actors
      <3> QED
        <4>1. Row(b, i)[a] = Turn(b, i, a)
          BY <1>10, <2>1
        <4>2. Len(Row(b, i)[a]) = 1 /\ 1 \in 1..1
          BY <3>1, <4>1
        <4> QED
          BY <3>2, <4>2 DEF Entry
    <2>3. PICK x \in 1..Len(R(i)) : AtRow(i)[x] = <<a, 1>>
      BY <1>6, <2>1, <2>2 DEF Laid
    <2>4. Entry(ss, most, <<i, x>>)
      <3>1. R(i) \in Seq(Round)
        BY <1>5, <2>1
      <3>2. <<i, x>> \in Nat \X Nat /\ <<i, x>>[1] = i /\ <<i, x>>[2] = x
        BY <2>1, <3>1
      <3> QED
        BY <1>7, <2>1, <3>2 DEF Entry
    <2>5. PICK g \in 1..Len(rs) : at[g] = <<i, x>>
      BY <1>9, <2>4 DEF Laid
    <2>6. I(g) = i /\ A(g) = a
      BY <2>3, <2>5
    <2> QED
      BY <2>6
  <1> HIDE DEF I, A
  <1>16. \A g \in 1..Len(rs) : rs[g].names = b[A(g)][I(g)] /\ I(g) \in 1..Len(b[A(g)])
    <2> SUFFICES ASSUME NEW g \in 1..Len(rs)
                 PROVE  rs[g].names = b[A(g)][I(g)] /\ I(g) \in 1..Len(b[A(g)])
      OBVIOUS
    <2>1. rs[g].names = b[A(g)][I(g)]
      <3>1. rs[g] = [rank |-> A(g), names |-> b[A(g)][I(g)]]
        BY <1>13
      <3> QED
        BY <3>1
    <2>2. I(g) \in 1..most /\ I(g) <= Len(b[A(g)]) /\ Len(b[A(g)]) \in Nat
      BY <1>4, <1>13
    <2> QED
      BY <1>4, <2>1, <2>2
  <1>17. RoundsFit(sz, rs)
    BY <1>1, <1>13, <1>16 DEF RoundsFit, WellPlaced, Fit
  <1>18. \A g, j : InRound(rs, g, j) => IsCell(b, A(g), I(g), j)
    BY <1>13, <1>16 DEF InRound, IsCell
  <1>19. RoundsCover(rs)
    <2> SUFFICES ASSUME NEW p \in Params
                 PROVE  \E g, j : InRound(rs, g, j) /\ rs[g].names[j] = p
      BY DEF RoundsCover
    <2>1. PICK a, i, j : IsCell(b, a, i, j) /\ b[a][i][j] = p
      BY <1>1 DEF WellPlaced, AllPlaced, Params
    <2>2. PICK g \in 1..Len(rs) : I(g) = i /\ A(g) = a
      BY <1>15, <2>1 DEF IsCell
    <2>3. InRound(rs, g, j) /\ rs[g].names[j] = p
      BY <1>16, <2>1, <2>2 DEF InRound, IsCell
    <2> QED
      BY <2>3
  <1>20. RoundsOnce(rs)
    <2> SUFFICES ASSUME NEW g, NEW j, NEW h, NEW k, InRound(rs, g, j), InRound(rs, h, k),
                        rs[g].names[j] = rs[h].names[k]
                 PROVE  g = h /\ j = k
      BY DEF RoundsOnce
    <2>1. IsCell(b, A(g), I(g), j) /\ IsCell(b, A(h), I(h), k)
      BY <1>18
    <2>2. b[A(g)][I(g)][j] = b[A(h)][I(h)][k] /\ g \in 1..Len(rs) /\ h \in 1..Len(rs)
      BY <1>16 DEF InRound
    <2>3. A(g) = A(h) /\ I(g) = I(h) /\ j = k
      BY <1>1, <2>1, <2>2 DEF WellPlaced, PlacedOnce
    <2> QED
      BY <1>14, <2>2, <2>3
  <1> QED
    BY <1>2, <1>8, <1>17, <1>19, <1>20 DEF Planned

-----------------------------------------------------------------------------
(* The transfer: what every rank has and knows, wherever it is.            *)

Bucket(g, v) == [names |-> rounds[g].names, version |-> v]

\* Collective calls for n buckets, those of an update, and those r has made in its own.
Each(n) == IF overlap THEN 2 * n ELSE n
Calls == Each(Len(rounds)) + 2
Holding == {"broadcast", "reply", "load", "raised"}
Made(r) ==
  IF pc[r] \in {"done", "final"} THEN Calls
  ELSE IF pc[r] = "ready" THEN 1
  ELSE Each(gidx[r]) + (IF pc[r] \in Holding THEN 2 ELSE IF pc[r] = "sync" THEN 3 ELSE 1)

\* The calls that have returned on r.
Waits == {"ready", "broadcast", "sync", "final"}
Passed(r) == IF pc[r] \in Waits THEN joined[r] - 1 ELSE joined[r]

\* No call returns before all have made it.
Met == \A r, s \in Ranks : joined[s] >= Passed(r)

\* How far r is.
Progress(r) ==
  /\ joined[r] + Calls = Calls * update[r] + Made(r)
  /\ pc[r] \in Holding \cup {"sync"} => gidx[r] < Len(rounds)
  /\ pc[r] \in {"stop", "final"} \/ (pc[r] = "done" /\ update[r] > 0) => gidx[r] = Len(rounds)
  /\ pc[r] = "ready" => gidx[r] = 0
  /\ pc[r] \in {"load", "raised"} => ~overlap
  /\ pc[r] # "done" => update[r] > 0

\* Its thread follows it.
Talk(r) ==
  /\ overlap /\ pc[r] \in Ahead =>
       \/ channel[r] = "reply" /\ thread[r] = "wait"
       \/ channel[r] = "request" /\ thread[r] \in {"hello", "loading", "dead"}
       \/ channel[r] = "request" /\ thread[r] = "wait" /\ request[r] # Done
  /\ pc[r] = "sync" => thread[r] = "wait" /\ channel[r] = "idle"
  /\ pc[r] = "stop" => \/ channel[r] = "request" /\ thread[r] = "wait" /\ request[r] = Done
                       \/ channel[r] = "reply" /\ thread[r] = "none"
  /\ pc[r] \in {"done", "ready", "final", "load", "raised"} \/ ~overlap => thread[r] = "none"

\* What it has received, and what its thread has still to load.
Behind(r) == Pending(r) \/ thread[r] = "dead"
Held(r) ==
  /\ pc[r] \in {"reply", "sync", "load"} => half[r][Half(gidx[r])] = Bucket(gidx[r] + 1, update[r])
  /\ Pending(r) => /\ request[r].names = rounds[gidx[r]].names
                   /\ half[r][(gidx[r] - 1) % 2] = Bucket(gidx[r], update[r])
  /\ Behind(r) => gidx[r] > 0

\* What it has loaded: the first k buckets.
Item(p, v) == [name |-> p, version |-> v, of |-> p]
LoadedFrom(rs, q, k, v) ==
  /\ q \in Seq([name : Params, version : Nat, of : Params])
  /\ \A x \in 1..Len(q) : \E g \in 1..k : \E j \in 1..Len(rs[g].names) :
       q[x] = Item(rs[g].names[j], v)
  /\ \A g \in 1..k : \A j \in 1..Len(rs[g].names) : \E x \in 1..Len(q) :
       q[x] = Item(rs[g].names[j], v)
  /\ \A x, y \in 1..Len(q) : q[x].name = q[y].name => x = y
HasLoaded(q, k, v) == LoadedFrom(rounds, q, k, v)
Complete(r) == IF Behind(r) THEN gidx[r] - 1 ELSE gidx[r]
LoadedUpTo(r) == r \in Rollouts => HasLoaded(loaded[r], Complete(r), update[r])

Known(r) == r \in Actors /\ pc[r] # "done" => memory[r] = update[r]

Own(r) == Progress(r) /\ Talk(r) /\ Held(r) /\ LoadedUpTo(r) /\ Known(r)

\* The owner of a bucket has put it on the wire in this update.
Sent(g) ==
  LET o == rounds[g].rank IN
  g <= gidx[o] \/ (g = gidx[o] + 1 /\ pc[o] \in Holding \cup {"sync"})
OnWire == \A g \in 1..Len(rounds) : Sent(g) => wire[g] = Bucket(g, update[rounds[g].rank])

Shapes ==
  /\ update \in [Ranks -> 0..MaxUpdates] /\ gidx \in [Ranks -> 0..Len(rounds)]
  /\ joined \in [Ranks -> Nat] /\ memory \in [Actors -> 0..MaxUpdates]
  /\ DOMAIN wire = 1..Len(rounds) /\ DOMAIN half = Ranks /\ DOMAIN loaded = Ranks
  /\ \A r \in Ranks : DOMAIN half[r] = {0, 1}

TransferInv ==
  IInv /\ Planned(sizes, rounds) /\ Shapes /\ Met /\ OnWire /\ \A r \in Ranks : Own(r)

-----------------------------------------------------------------------------
\* What a step of another rank leaves alone.
Still(s) ==
  /\ pc'[s] = pc[s] /\ update'[s] = update[s] /\ gidx'[s] = gidx[s] /\ joined'[s] = joined[s]
  /\ half'[s] = half[s] /\ thread'[s] = thread[s] /\ channel'[s] = channel[s]
  /\ request'[s] = request[s] /\ loaded'[s] = loaded[s]
  /\ s \in Actors => memory'[s] = memory[s]

\* The plan is made once.
SamePlan == sizes' = sizes /\ rounds' = rounds /\ overlap' = overlap

LEMMA PlanFacts ==
  ASSUME TransferInv
  PROVE  /\ Len(rounds) \in Nat /\ overlap \in BOOLEAN /\ Calls \in Nat /\ Calls = Each(Len(rounds)) + 2
         /\ \A n \in Nat : Each(n) \in Nat
         /\ \A g \in 1..Len(rounds) : rounds[g] \in Round /\ rounds[g].rank \in Ranks
PROOF
  <1>1. rounds \in Seq(Round) /\ overlap \in BOOLEAN
    BY DEF TransferInv, Planned, IInv, Types
  <1>2. Len(rounds) \in Nat /\ \A g \in 1..Len(rounds) : rounds[g] \in Round
    BY <1>1
  <1>3. \A n \in Nat : Each(n) \in Nat
    BY <1>1 DEF Each
  <1>4. Calls \in Nat /\ Calls = Each(Len(rounds)) + 2
    BY <1>2, <1>3 DEF Calls
  <1>5. \A g \in 1..Len(rounds) : rounds[g].rank \in Ranks
    BY <1>2 DEF Round, Ranks
  <1> QED
    BY <1>1, <1>2, <1>3, <1>4, <1>5

LEMMA OthersKeep ==
  ASSUME SamePlan, NEW s \in Ranks, Still(s), Own(s)
  PROVE  Own(s)'
PROOF
  <1> USE DEF SamePlan, Still
  <1>1. Calls' = Calls /\ Made(s)' = Made(s)
    BY DEF Calls, Made, Each
  <1>2. Progress(s)'
    BY <1>1 DEF Own, Progress
  <1>3. (Pending(s)' <=> Pending(s)) /\ (Behind(s)' <=> Behind(s)) /\ Complete(s)' = Complete(s)
    BY DEF Pending, Behind, Complete
  <1>4. Talk(s)'
    BY DEF Own, Talk
  <1>5. Held(s)'
    BY <1>3 DEF Own, Held, Half, Bucket
  <1>6. LoadedUpTo(s)'
    <2> SUFFICES ASSUME s \in Rollouts PROVE HasLoaded(loaded[s], Complete(s), update[s])'
      BY DEF LoadedUpTo
    <2>1. HasLoaded(loaded[s], Complete(s), update[s])
      BY DEF Own, LoadedUpTo
    <2>2. /\ rounds' = rounds /\ loaded'[s] = loaded[s] /\ Complete(s)' = Complete(s)
          /\ update'[s] = update[s]
      BY <1>3
    <2> HIDE DEF SamePlan, Still
    <2> QED
      BY <2>1, <2>2 DEF HasLoaded
  <1>7. Known(s)'
    BY DEF Own, Known
  <1> QED
    BY <1>2, <1>4, <1>5, <1>6, <1>7 DEF Own

\* A rank makes a call, or goes on when the one it made returns.
MetStep(r) ==
  \/ joined' = joined /\ (Passed(r)' <= Passed(r) \/ (AllIn(r) /\ Passed(r)' <= joined[r]))
  \/ Join(r) /\ Passed(r)' <= Passed(r)

LEMMA MetKept ==
  ASSUME TransferInv, NEW r \in Ranks, MetStep(r),
         \A s \in Ranks \ {r} : pc'[s] = pc[s], joined' \in [Ranks -> Nat]
  PROVE  Met'
PROOF
  <1>1. joined \in [Ranks -> Nat] /\ \A x, y \in Ranks : joined[y] >= Passed(x)
    BY DEF TransferInv, Shapes, Met
  <1>2. \A s \in Ranks : joined'[s] >= joined[s] /\ (s # r => joined'[s] = joined[s])
    BY <1>1 DEF MetStep, Join
  <1>3. \A x \in Ranks : Passed(x) \in Int /\ Passed(x)' \in Int
    BY <1>1 DEF Passed
  <1> SUFFICES ASSUME NEW x \in Ranks, NEW y \in Ranks PROVE joined'[y] >= Passed(x)'
    BY DEF Met
  <1>4. joined'[y] \in Nat /\ joined[y] \in Nat
    BY <1>1
  <1>5. CASE x # r
    <2>1. Passed(x)' = Passed(x)
      BY <1>2, <1>5 DEF Passed
    <2> QED
      BY <1>1, <1>2, <1>3, <1>4, <2>1
  <1>6. CASE x = r
    <2>1. CASE Passed(r)' <= Passed(r)
      BY <1>1, <1>2, <1>3, <1>4, <1>6, <2>1
    <2>2. CASE AllIn(r) /\ Passed(r)' <= joined[r]
      <3>1. joined[y] >= joined[r] /\ joined[r] \in Nat
        BY <1>1, <2>2 DEF AllIn
      <3> QED
        BY <1>2, <1>3, <1>4, <1>6, <2>2, <3>1
    <2> QED
      BY <2>1, <2>2 DEF MetStep
  <1> QED
    BY <1>5, <1>6

\* What has been put on the wire stays there.
LEMMA WireKept ==
  ASSUME TransferInv, NEW r \in Ranks, SamePlan, wire' = wire, \A s \in Ranks \ {r} : Still(s),
         \A g \in 1..Len(rounds) : rounds[g].rank = r /\ Sent(g)' => Sent(g) /\ update'[r] = update[r]
  PROVE  OnWire'
PROOF
  <1> SUFFICES ASSUME NEW g \in 1..Len(rounds), Sent(g)'
               PROVE  (wire[g] = Bucket(g, update[rounds[g].rank]))'
    BY DEF OnWire, SamePlan
  <1>1. rounds[g].rank \in Ranks
    BY PlanFacts
  <1>2. Sent(g) /\ update'[rounds[g].rank] = update[rounds[g].rank]
    <2>1. CASE rounds[g].rank = r
      BY <2>1
    <2>2. CASE rounds[g].rank # r
      BY <1>1, <2>2 DEF Sent, Still, SamePlan
    <2> QED
      BY <2>1, <2>2
  <1>3. wire[g] = Bucket(g, update[rounds[g].rank])
    BY <1>2 DEF TransferInv, OnWire
  <1> QED
    BY <1>2, <1>3 DEF Bucket, SamePlan

\* One rank has moved: what is left to show.
LEMMA RankMoves ==
  ASSUME TransferInv, NEW r \in Ranks, SamePlan, \A s \in Ranks \ {r} : Still(s),
         IInv', Shapes', Own(r)', MetStep(r), OnWire'
  PROVE  TransferInv'
PROOF
  <1>1. Planned(sizes, rounds)'
    BY DEF TransferInv, SamePlan
  <1>2. Met'
    BY MetKept DEF Shapes, Still
  <1>3. \A s \in Ranks : Own(s)'
    BY OthersKeep DEF TransferInv
  <1> QED
    BY <1>1, <1>2, <1>3 DEF TransferInv

-----------------------------------------------------------------------------
(* What the collective calls tell a rank about the others.                 *)

LEMMA Product ==
  ASSUME NEW K \in Nat, NEW u \in Nat, NEW v \in Nat, u < v
  PROVE  K * u + K <= K * v
PROOF
  <1>1. PICK w \in Nat : v = u + 1 + w
    <2>1. v - (u + 1) \in Nat /\ v = u + 1 + (v - (u + 1))
      OBVIOUS
    <2> QED
      BY <2>1
  <1>2. K * w \in Nat
    OBVIOUS
  <1>3. K * v = K * u + K + K * w
    BY <1>1
  <1>4. K * u \in Nat
    OBVIOUS
  <1> QED
    BY <1>2, <1>3, <1>4

\* x calls are m calls into update u.
Ticks(x, u, m, K) == x + K = K * u + m
Compare(x, u, m, y, v, n, K) ==
  u <= v /\ (u = v => n >= m) /\ (m # K /\ x >= y - 1 => u = v)

\* Numbers of calls compare like pairs of an update and a place in it.
LEMMA Lexical ==
  ASSUME NEW K \in Nat, NEW u \in Nat, NEW v \in Nat, NEW m \in 1..K, NEW n \in 1..K,
         NEW x \in Nat, NEW y \in Nat, Ticks(x, u, m, K), Ticks(y, v, n, K), y >= x
  PROVE  Compare(x, u, m, y, v, n, K)
PROOF
  <1> DEFINE U == K * u
             V == K * v
  <1>1. U \in Nat /\ V \in Nat
    OBVIOUS
  <1>2. u < v => U + K <= V
    BY Product
  <1>3. v < u => V + K <= U
    BY Product
  <1>4. u = v => U = V
    OBVIOUS
  <1>5. x + K = U + m /\ y + K = V + n
    BY DEF Ticks
  <1> HIDE DEF U, V
  <1>6. ~(v < u)
    BY <1>1, <1>3, <1>5
  <1>7. m # K /\ x >= y - 1 => ~(u < v)
    BY <1>1, <1>2, <1>5
  <1>8. u = v => n >= m
    BY <1>1, <1>4, <1>5
  <1> QED
    BY <1>6, <1>7, <1>8 DEF Compare

\* Each is monotone, and two steps wide if there are two calls for a bucket.
LEMMA EachGrows ==
  ASSUME overlap \in BOOLEAN, NEW a \in Nat, NEW b \in Nat
  PROVE  /\ Each(a) \in Nat /\ (a = 0 => Each(a) = 0)
         /\ Each(b) >= Each(a) + 1 => b >= a + 1
         /\ Each(b) >= Each(a) => b >= a
         /\ overlap => (Each(b) + 1 >= Each(a) => b >= a) /\ (a < b => Each(a) + 2 <= Each(b))
         /\ a < b => Each(a) + 1 <= Each(b)
         /\ a <= b => Each(a) <= Each(b)
PROOF
  <1>1. CASE overlap
    BY <1>1 DEF Each
  <1>2. CASE ~overlap
    BY <1>2 DEF Each
  <1> QED
    BY <1>1, <1>2

\* Where a rank is in its update, counted in collective calls.
LEMMA MadeBounds ==
  ASSUME TransferInv, NEW r \in Ranks
  PROVE  /\ Made(r) \in 1..Calls /\ gidx[r] \in 0..Len(rounds) /\ joined[r] \in Nat
         /\ update[r] \in Nat /\ Ticks(joined[r], update[r], Made(r), Calls) /\ gidx[r] \in Nat
         /\ Made(r) = Calls => pc[r] \in {"done", "final"}
PROOF
  <1>1. /\ Len(rounds) \in Nat /\ overlap \in BOOLEAN /\ Calls \in Nat /\ Calls = Each(Len(rounds)) + 2
    BY PlanFacts
  <1>2. gidx[r] \in 0..Len(rounds) /\ joined[r] \in Nat /\ update[r] \in Nat
    BY TransferAssumption DEF TransferInv, Shapes
  <1>3. Progress(r)
    BY DEF TransferInv, Own
  <1>4. pc[r] \in {"done", "ready", "copy", "broadcast", "reply", "sync", "load", "stop",
                   "final", "raised"} /\ (pc[r] = "sync" => overlap)
    BY DEF TransferInv, IInv, Types, OnlyOverlap
  <1>5. Made(r) \in 1..Calls /\ (Made(r) = Calls => pc[r] \in {"done", "final"})
    <2> DEFINE L == Len(rounds)
    <2>1. /\ Each(gidx[r]) \in Nat /\ Each(gidx[r]) <= Each(L) /\ Each(L) \in Nat
          /\ gidx[r] < L => Each(gidx[r]) + 1 <= Each(L)
          /\ gidx[r] < L /\ overlap => Each(gidx[r]) + 2 <= Each(L)
      <3>1. gidx[r] \in Nat /\ L \in Nat /\ gidx[r] <= L
        BY <1>1, <1>2
      <3> HIDE DEF L
      <3> QED
        BY <1>1, <3>1, EachGrows
    <2>2. CASE pc[r] \in {"done", "final"}
      BY <1>1, <2>1, <2>2 DEF Made
    <2>3. CASE pc[r] = "ready"
      BY <1>1, <2>1, <2>3 DEF Made
    <2>4. CASE pc[r] \in {"copy", "stop"}
      BY <1>1, <2>1, <2>4 DEF Made, Holding
    <2>5. CASE pc[r] \in Holding
      BY <1>1, <1>3, <2>1, <2>5 DEF Made, Holding, Progress
    <2>6. CASE pc[r] = "sync"
      BY <1>1, <1>3, <1>4, <2>1, <2>6 DEF Made, Holding, Progress
    <2> QED
      BY <1>4, <2>2, <2>3, <2>4, <2>5, <2>6 DEF Holding
  <1>6. gidx[r] \in Nat
    BY <1>1, <1>2
  <1> QED
    BY <1>2, <1>3, <1>5, <1>6 DEF Progress, Ticks

\* If the call r is in can return, the owner of the bucket is in the same update and
\* has put it on the wire.
LEMMA Carried ==
  ASSUME TransferInv, NEW r \in Ranks, pc[r] = "broadcast", AllIn(r)
  PROVE  gidx[r] + 1 \in 1..Len(rounds) /\ wire[gidx[r] + 1] = Bucket(gidx[r] + 1, update[r])
PROOF
  <1> DEFINE g == gidx[r] + 1
             o == rounds[g].rank
             u == update[r]
             v == update[o]
             K == Calls
             m == Made(r)
             n == Made(o)
  <1>1. /\ Len(rounds) \in Nat /\ overlap \in BOOLEAN /\ K \in Nat /\ K = Each(Len(rounds)) + 2
    BY PlanFacts
  <1>2. gidx[r] \in 0..Len(rounds) /\ gidx[r] < Len(rounds)
    BY MadeBounds DEF TransferInv, Own, Progress, Holding
  <1>3. g \in 1..Len(rounds)
    BY <1>1, <1>2
  <1>4. o \in Ranks
    BY <1>3, PlanFacts
  <1>5. /\ m \in 1..K /\ joined[r] \in Nat /\ u \in Nat /\ Ticks(joined[r], u, m, K) /\ gidx[r] \in Nat
        /\ m # K
    BY MadeBounds
  <1>6. /\ n \in 1..K /\ joined[o] \in Nat /\ v \in Nat /\ Ticks(joined[o], v, n, K)
        /\ gidx[o] \in 0..Len(rounds) /\ gidx[o] \in Nat
    BY <1>4, MadeBounds
  <1>7. joined[o] >= joined[r]
    BY <1>4 DEF AllIn
  <1>8. joined[r] >= joined[o] - 1
    <2>1. joined[r] >= Passed(o)
      BY <1>4 DEF TransferInv, Met
    <2> QED
      BY <1>5, <1>6, <2>1 DEF Passed
  <1>9. m = Each(gidx[r]) + 2
    BY DEF Made, Holding
  <1>10. pc[o] \in {"done", "ready", "copy", "broadcast", "reply", "sync", "load", "stop",
                    "final", "raised"} /\ Progress(o)
    BY <1>4 DEF TransferInv, IInv, Types, Own
  <1> HIDE DEF K, m, u, v, g, o, n
  <1>12. u = v /\ n >= m
    <2> DEFINE x == joined[r]
               y == joined[o]
    <2>1. /\ x \in Nat /\ y \in Nat /\ y >= x /\ x >= y - 1
          /\ Ticks(x, u, m, K) /\ Ticks(y, v, n, K)
      BY <1>5, <1>6, <1>7, <1>8
    <2> HIDE DEF x, y
    <2>2. K \in Nat /\ u \in Nat /\ v \in Nat /\ m \in 1..K /\ n \in 1..K /\ m # K
      BY <1>1, <1>5, <1>6
    <2>3. Compare(x, u, m, y, v, n, K)
      BY <2>1, <2>2, Lexical, Zenon
    <2> QED
      BY <2>1, <2>2, <2>3 DEF Compare
  <1>14. v > 0
    BY <1>12 DEF u, TransferInv, Own, Progress
  <1>15. g <= gidx[o] \/ (g = gidx[o] + 1 /\ pc[o] \in Holding \cup {"sync"})
    <2>1. CASE pc[o] \in {"done", "final", "stop"}
      BY <1>1, <1>3, <1>6, <1>10, <1>14, <2>1 DEF Progress, v
    <2>2. CASE pc[o] = "ready"
      <3>1. n = 1
        BY <2>2 DEF Made, n
      <3>2. Each(gidx[r]) \in Nat
        BY <1>1, <1>5, EachGrows
      <3> QED
        BY <1>9, <1>12, <3>1, <3>2
    <2>3. CASE pc[o] = "copy"
      <3>1. n = Each(gidx[o]) + 1
        BY <2>3 DEF Made, n, Holding
      <3>2. Each(gidx[o]) \in Nat /\ Each(gidx[r]) \in Nat /\ Each(gidx[o]) >= Each(gidx[r]) + 1
        <4>1. Each(gidx[o]) \in Nat /\ Each(gidx[r]) \in Nat
          BY <1>1, <1>5, <1>6, EachGrows
        <4> QED
          BY <1>9, <1>12, <3>1, <4>1
      <3>3. gidx[o] >= gidx[r] + 1
        BY <1>1, <1>5, <1>6, <3>2, EachGrows
      <3> QED
        BY <1>2, <1>6, <3>3 DEF g
    <2>4. CASE pc[o] \in Holding \cup {"sync"}
      <3>1. Each(gidx[o]) \in Nat /\ Each(gidx[r]) \in Nat
        BY <1>1, <1>5, <1>6, EachGrows
      <3>2. gidx[o] >= gidx[r]
        <4>1. CASE pc[o] = "sync"
          <5>1. overlap
            BY <1>4, <4>1 DEF TransferInv, IInv, OnlyOverlap
          <5>2. n = Each(gidx[o]) + 3
            BY <4>1 DEF Made, n, Holding
          <5>3. Each(gidx[o]) + 1 >= Each(gidx[r])
            BY <1>1, <1>9, <1>12, <3>1, <5>2
          <5> QED
            BY <1>1, <1>5, <1>6, <5>1, <5>3, EachGrows
        <4>2. CASE pc[o] \in Holding
          <5>1. n = Each(gidx[o]) + 2
            BY <4>2 DEF Made, n, Holding
          <5>2. Each(gidx[o]) >= Each(gidx[r])
            BY <1>1, <1>9, <1>12, <3>1, <5>1
          <5> QED
            BY <1>1, <1>5, <1>6, <5>2, EachGrows
        <4> QED
          BY <2>4, <4>1, <4>2
      <3>3. g <= gidx[o] + 1
        BY <1>2, <1>6, <3>2 DEF g
      <3> QED
        BY <1>3, <1>6, <2>4, <3>3
    <2> QED
      BY <1>10, <2>1, <2>2, <2>3, <2>4 DEF Holding
  <1>16. Sent(g)
    BY <1>15 DEF Sent, o
  <1>17. wire[g] = Bucket(g, v)
    BY <1>3, <1>16 DEF TransferInv, OnWire, o, v
  <1> QED
    BY <1>3, <1>12, <1>17 DEF g, u

-----------------------------------------------------------------------------
(* What the invariant says.                                                *)

\* Who has loaded all rounds has loaded every parameter once.
LEMMA AllLoaded ==
  ASSUME TransferInv, NEW q, NEW v, HasLoaded(q, Len(rounds), v)
  PROVE  Len(q) = NumParams /\ \A p \in Params : \E x \in DOMAIN q : q[x] = Item(p, v)
PROOF
  <1> DEFINE f == [x \in 1..Len(q) |-> q[x].name]
  <1>1. q \in Seq([name : Params, version : Nat, of : Params])
    BY DEF HasLoaded, LoadedFrom
  <1>2. Len(q) \in Nat /\ DOMAIN q = 1..Len(q) /\ f \in [1..Len(q) -> Params]
    <2>1. /\ Len(q) \in Nat /\ DOMAIN q = 1..Len(q)
          /\ \A x \in 1..Len(q) : q[x] \in [name : Params, version : Nat, of : Params]
      <3> DEFINE X == [name : Params, version : Nat, of : Params]
      <3>1. q \in Seq(X)
        BY <1>1
      <3> HIDE DEF X
      <3>2. Len(q) \in Nat /\ DOMAIN q = 1..Len(q) /\ \A x \in 1..Len(q) : q[x] \in X
        BY <3>1
      <3> QED
        BY <3>2 DEF X
    <2>3. \A x \in 1..Len(q) : q[x].name \in Params
      BY <2>1
    <2> QED
      BY <2>1, <2>3
  <1>3. ASSUME NEW p \in Params PROVE \E x \in 1..Len(q) : q[x] = Item(p, v)
    <2>1. PICK g, j : InRound(rounds, g, j) /\ rounds[g].names[j] = p
      BY DEF TransferInv, Planned, RoundsCover
    <2>2. g \in 1..Len(rounds) /\ j \in 1..Len(rounds[g].names)
      BY <2>1 DEF InRound
    <2>3. \E x \in 1..Len(q) : q[x] = Item(rounds[g].names[j], v)
      BY <2>2 DEF HasLoaded, LoadedFrom
    <2> QED
      BY <2>1, <2>3
  <1>4. \A p \in Params : \E x \in 1..Len(q) : f[x] = p
    <2> SUFFICES ASSUME NEW p \in Params PROVE \E x \in 1..Len(q) : f[x] = p
      OBVIOUS
    <2>1. PICK x \in 1..Len(q) : q[x] = Item(p, v)
      BY <1>3
    <2>2. q[x].name = p
      BY <2>1 DEF Item
    <2> QED
      BY <2>2
  <1>5. \A x, y \in 1..Len(q) : f[x] = f[y] => x = y
    BY DEF HasLoaded, LoadedFrom
  <1> HIDE DEF f
  <1>6. f \in Bijection(1..Len(q), Params)
    BY <1>2, <1>4, <1>5, Fun_IsBij
  <1>7. ExistsBijection(1..Len(q), Params)
    BY <1>6 DEF ExistsBijection
  <1>8. ExistsBijection(1..NumParams, Params) /\ NumParams \in Nat
    BY Fun_ExistsBijReflexive, TransferAssumption DEF Params
  <1>9. Len(q) = NumParams
    BY <1>2, <1>7, <1>8, Fun_NatBijSame
  <1> QED
    BY <1>2, <1>3, <1>9

\* Of two ranks in the same update the one with more calls is further.
LEMMA CallsCompare ==
  ASSUME TransferInv, NEW r \in Ranks, NEW s \in Ranks, joined[s] >= joined[r]
  PROVE  update[r] = update[s] => Made(s) >= Made(r)
PROOF
  <1> DEFINE u == update[r]
             v == update[s]
             K == Calls
             m == Made(r)
             n == Made(s)
             x == joined[r]
             y == joined[s]
  <1>1. /\ m \in 1..K /\ x \in Nat /\ u \in Nat /\ Ticks(x, u, m, K)
        /\ n \in 1..K /\ y \in Nat /\ v \in Nat /\ Ticks(y, v, n, K) /\ K \in Nat /\ y >= x
    BY MadeBounds, PlanFacts
  <1> HIDE DEF u, v, K, m, n, x, y
  <1>2. Compare(x, u, m, y, v, n, K)
    BY <1>1, Lexical, Zenon
  <1> QED
    BY <1>2 DEF Compare, u, v, m, n

\* When a rank has returned, every rollout rank in the same update has loaded all rounds.
LEMMA ReturnedIsLoaded ==
  ASSUME TransferInv, NEW r \in Ranks, pc[r] = "done", update[r] > 0,
         NEW s \in Rollouts, update[s] = update[r]
  PROVE  HasLoaded(loaded[s], Len(rounds), update[r])
PROOF
  <1> DEFINE u == update[r]
             v == update[s]
             K == Calls
             m == Made(r)
             n == Made(s)
             x == joined[r]
             y == joined[s]
  <1>0. s \in Ranks /\ K \in Nat /\ K > 0
    BY PlanFacts, EachGrows DEF Ranks
  <1>1. m = K
    BY DEF Made
  <1>2. m \in 1..K /\ x \in Nat /\ u \in Nat /\ Ticks(x, u, m, K)
    BY MadeBounds
  <1>3. /\ n \in 1..K /\ y \in Nat /\ v \in Nat /\ Ticks(y, v, n, K)
        /\ n = K => pc[s] \in {"done", "final"}
    BY <1>0, MadeBounds
  <1>4. y >= x
    <2>1. y >= Passed(r)
      BY <1>0 DEF TransferInv, Met
    <2> QED
      BY <2>1 DEF Passed, Waits
  <1>5. n >= K
    <2>1. u = v => n >= m
      BY <1>0, <1>4, CallsCompare
    <2>2. u = v
      OBVIOUS
    <2> QED
      BY <1>1, <2>1, <2>2
  <1>6. pc[s] \in {"done", "final"}
    <2> HIDE DEF K, n
    <2> QED
      BY <1>0, <1>3, <1>5
  <1>7. Own(s)
    BY <1>0 DEF TransferInv
  <1>8. gidx[s] = Len(rounds)
    BY <1>6, <1>7 DEF Own, Progress
  <1>9. thread[s] = "none"
    BY <1>6, <1>7 DEF Own, Talk
  <1>10. Complete(s) = Len(rounds)
    BY <1>8, <1>9 DEF Complete, Behind, Pending
  <1> QED
    BY <1>7, <1>10 DEF Own, LoadedUpTo

LEMMA TransferInvIsWhole == TransferInv => TransferWhole
PROOF
  <1> SUFFICES ASSUME TransferInv PROVE TransferWhole
    OBVIOUS
  <1>1. TypeOK
    BY DEF TransferInv, IInv, Types, Shapes, TypeOK
  <1>2. BucketsFit
    <2>1. DOMAIN rounds = 1..Len(rounds) /\ RoundsFit(sizes, rounds)
      BY DEF TransferInv, Planned
    <2> QED
      BY <2>1 DEF BucketsFit, RoundsFit
  <1>3. Delivered
    <2> SUFFICES ASSUME NEW r \in Ranks, pc[r] = "done", update[r] > 0,
                        NEW s \in Rollouts, update[s] = update[r]
                 PROVE  /\ Len(loaded[s]) = NumParams
                        /\ \A p \in Params : \E i \in DOMAIN loaded[s] :
                             loaded[s][i] = [name |-> p, of |-> p, version |-> update[r]]
      BY DEF Delivered
    <2>1. HasLoaded(loaded[s], Len(rounds), update[r])
      BY ReturnedIsLoaded
    <2> QED
      BY <2>1, AllLoaded DEF Item
  <1> QED
    BY <1>1, <1>2, <1>3 DEF TransferWhole

-----------------------------------------------------------------------------
(* The steps.                                                              *)

Cell == [name : Params, version : Nat, of : Params]

\* What is loaded of a bucket whose metadata and content belong together.
LEMMA ExtractedItems ==
  ASSUME TransferInv, NEW g \in 1..Len(rounds), NEW v \in Nat
  PROVE  /\ Extracted(rounds[g].names, Bucket(g, v)) \in Seq(Cell)
         /\ Len(Extracted(rounds[g].names, Bucket(g, v))) = Len(rounds[g].names)
         /\ Len(rounds[g].names) \in Nat
         /\ \A j \in 1..Len(rounds[g].names) :
              /\ rounds[g].names[j] \in Params
              /\ Extracted(rounds[g].names, Bucket(g, v))[j] = Item(rounds[g].names[j], v)
PROOF
  <1> DEFINE names == rounds[g].names
             e == Extracted(names, Bucket(g, v))
  <1>1. names \in Seq(Params)
    BY PlanFacts DEF Round
  <1>2. Bucket(g, v).names = names /\ Bucket(g, v).version = v
    BY DEF Bucket
  <1> HIDE DEF names
  <1>3. Len(names) \in Nat /\ DOMAIN names = 1..Len(names) /\ \A j \in 1..Len(names) : names[j] \in Params
    BY <1>1
  <1>4. e = [j \in 1..Len(names) |-> Item(names[j], v)]
    BY <1>2, <1>3 DEF Extracted, Item
  <1>5. \A j \in 1..Len(names) : e[j] = Item(names[j], v) /\ Item(names[j], v) \in Cell
    BY <1>3, <1>4 DEF Item, Cell
  <1> HIDE DEF e
  <1>6. e \in [1..Len(names) -> Cell]
    BY <1>4, <1>5
  <1>7. e \in Seq(Cell) /\ Len(e) = Len(names)
    BY <1>3, <1>6
  <1> QED
    BY <1>3, <1>5, <1>7 DEF e, names

\* The parts of HasLoaded.
OnlyFrom(q, k, v) ==
  \A x \in 1..Len(q) : \E g \in 1..k : \E j \in 1..Len(rounds[g].names) :
    q[x] = Item(rounds[g].names[j], v)
AllFrom(q, k, v) ==
  \A g \in 1..k : \A j \in 1..Len(rounds[g].names) : \E x \in 1..Len(q) :
    q[x] = Item(rounds[g].names[j], v)
NoneTwice(q) == \A x, y \in 1..Len(q) : q[x].name = q[y].name => x = y

\* Loading one more bucket.
LEMMA LoadsBucket ==
  ASSUME TransferInv, NEW k \in Nat, k + 1 \in 1..Len(rounds), NEW v \in Nat, NEW q,
         HasLoaded(q, k, v)
  PROVE  HasLoaded(q \o Extracted(rounds[k + 1].names, Bucket(k + 1, v)), k + 1, v)
PROOF
  <1> DEFINE e == Extracted(rounds[k + 1].names, Bucket(k + 1, v))
             both == q \o e
             L == Len(rounds[k + 1].names)
  <1>1. q \in Seq(Cell) /\ OnlyFrom(q, k, v) /\ AllFrom(q, k, v) /\ NoneTwice(q)
    BY DEF HasLoaded, LoadedFrom, Cell, OnlyFrom, AllFrom, NoneTwice
  <1>2. /\ e \in Seq(Cell) /\ Len(e) = L /\ L \in Nat
        /\ \A j \in 1..L : e[j] = Item(rounds[k + 1].names[j], v)
    BY ExtractedItems
  <1> HIDE DEF e, L
  <1>3. /\ both \in Seq(Cell) /\ Len(q) \in Nat /\ Len(both) = Len(q) + L
        /\ \A x \in 1..Len(q) : both[x] = q[x]
        /\ \A y \in 1..L : both[Len(q) + y] = e[y]
    <2>1. /\ both \in Seq(Cell) /\ Len(q) \in Nat /\ Len(e) \in Nat
          /\ Len(both) = Len(q) + Len(e)
          /\ \A x \in 1..Len(q) : both[x] = q[x]
          /\ \A y \in 1..Len(e) : both[Len(q) + y] = e[y]
      <3>1. q \in Seq(Cell) /\ e \in Seq(Cell)
        BY <1>1, <1>2
      <3> QED
        BY <3>1, ConcatExtends
    <2> HIDE DEF both
    <2> QED
      BY <1>2, <2>1
  <1> HIDE DEF both
  <1>4. ASSUME NEW x \in 1..Len(both)
        PROVE  \/ x \in 1..Len(q) /\ both[x] = q[x]
               \/ \E y \in 1..L : x = Len(q) + y /\ both[x] = Item(rounds[k + 1].names[y], v)
    <2>1. CASE x <= Len(q)
      BY <1>3, <2>1
    <2>2. CASE x > Len(q)
      <3>1. x - Len(q) \in 1..L /\ x = Len(q) + (x - Len(q))
        BY <1>2, <1>3, <2>2
      <3> QED
        BY <1>2, <1>3, <3>1
    <2> QED
      BY <1>3, <2>1, <2>2
  <1>5. \A x \in 1..Len(q) : \E g \in 1..k : \E j \in 1..Len(rounds[g].names) :
          both[x] = Item(rounds[g].names[j], v) /\ g # k + 1 /\ g \in 1..k + 1
    BY <1>1, <1>3 DEF OnlyFrom
  <1>6. OnlyFrom(both, k + 1, v)
    <2> SUFFICES ASSUME NEW x \in 1..Len(both)
                 PROVE  \E g \in 1..k + 1 : \E j \in 1..Len(rounds[g].names) :
                          both[x] = Item(rounds[g].names[j], v)
      BY DEF OnlyFrom
    <2>1. CASE x \in 1..Len(q)
      BY <1>5, <2>1
    <2>2. CASE \E y \in 1..L : both[x] = Item(rounds[k + 1].names[y], v)
      BY <2>2 DEF L
    <2> QED
      BY <1>4, <2>1, <2>2
  <1>7. AllFrom(both, k + 1, v)
    <2> SUFFICES ASSUME NEW g \in 1..k + 1, NEW j \in 1..Len(rounds[g].names)
                 PROVE  \E x \in 1..Len(both) : both[x] = Item(rounds[g].names[j], v)
      BY DEF AllFrom
    <2>1. CASE g = k + 1
      <3>1. j \in 1..L /\ both[Len(q) + j] = Item(rounds[g].names[j], v)
        BY <1>2, <1>3, <2>1 DEF L
      <3>2. Len(q) + j \in 1..Len(both)
        BY <1>2, <1>3, <3>1
      <3> QED
        BY <3>1, <3>2
    <2>2. CASE g # k + 1
      <3>1. g \in 1..k
        BY <2>2
      <3>2. PICK x \in 1..Len(q) : q[x] = Item(rounds[g].names[j], v)
        BY <1>1, <3>1 DEF AllFrom
      <3>3. x \in 1..Len(both)
        BY <1>2, <1>3
      <3> QED
        BY <1>3, <3>2, <3>3
    <2> QED
      BY <2>1, <2>2
  <1>8. NoneTwice(both)
    <2>1. ASSUME NEW x \in 1..Len(both)
          PROVE  \E g, j : /\ InRound(rounds, g, j) /\ both[x].name = rounds[g].names[j]
                           /\ \/ g # k + 1 /\ x \in 1..Len(q) /\ both[x] = q[x]
                              \/ g = k + 1 /\ x = Len(q) + j
      <3>1. CASE x \in 1..Len(q) /\ both[x] = q[x]
        <4>0. PICK g \in 1..k + 1 : \E j \in 1..Len(rounds[g].names) :
                both[x] = Item(rounds[g].names[j], v) /\ g # k + 1
          BY <1>5, <3>1
        <4>1. PICK j \in 1..Len(rounds[g].names) :
                both[x] = Item(rounds[g].names[j], v) /\ g # k + 1
          BY <4>0
        <4>2. InRound(rounds, g, j)
          BY <4>1, PlanFacts DEF InRound
        <4>3. both[x].name = rounds[g].names[j]
          BY <4>1 DEF Item
        <4> QED
          BY <3>1, <4>1, <4>2, <4>3
      <3>2. CASE \E y \in 1..L : x = Len(q) + y /\ both[x] = Item(rounds[k + 1].names[y], v)
        <4>1. PICK y \in 1..L : x = Len(q) + y /\ both[x] = Item(rounds[k + 1].names[y], v)
          BY <3>2
        <4>2. InRound(rounds, k + 1, y) /\ both[x].name = rounds[k + 1].names[y]
          BY <4>1 DEF InRound, L, Item
        <4> QED
          BY <4>1, <4>2
      <3> QED
        BY <1>4, <3>1, <3>2
    <2> SUFFICES ASSUME NEW x \in 1..Len(both), NEW y \in 1..Len(both), both[x].name = both[y].name
                 PROVE  x = y
      BY DEF NoneTwice
    <2>2. PICK g, j : /\ InRound(rounds, g, j) /\ both[x].name = rounds[g].names[j]
                      /\ \/ g # k + 1 /\ x \in 1..Len(q) /\ both[x] = q[x]
                         \/ g = k + 1 /\ x = Len(q) + j
      BY <2>1
    <2>3. PICK h, i : /\ InRound(rounds, h, i) /\ both[y].name = rounds[h].names[i]
                      /\ \/ h # k + 1 /\ y \in 1..Len(q) /\ both[y] = q[y]
                         \/ h = k + 1 /\ y = Len(q) + i
      BY <2>1
    <2>4. g = h /\ j = i
      BY <2>2, <2>3 DEF TransferInv, Planned, RoundsOnce
    <2> QED
      BY <1>1, <2>2, <2>3, <2>4 DEF NoneTwice
  <1> QED
    BY <1>3, <1>6, <1>7, <1>8 DEF HasLoaded, LoadedFrom, Cell, OnlyFrom, AllFrom, NoneTwice, both, e

-----------------------------------------------------------------------------
\* What the invariant says of one rank.
LEMMA RankFacts ==
  ASSUME TransferInv, NEW r \in Ranks
  PROVE  /\ Progress(r) /\ Talk(r) /\ Held(r) /\ LoadedUpTo(r) /\ Known(r) /\ overlap \in BOOLEAN
         /\ update[r] \in Nat /\ gidx[r] \in Nat /\ gidx[r] <= Len(rounds) /\ joined[r] \in Nat
         /\ Len(rounds) \in Nat /\ Calls \in Nat /\ Calls = Each(Len(rounds)) + 2
         /\ pc[r] \in {"done", "ready", "copy", "broadcast", "reply", "sync", "load", "stop",
                       "final", "raised"}
         /\ thread[r] \in {"none", "hello", "wait", "loading", "dead"}
         /\ channel[r] \in {"idle", "request", "reply"}
         /\ pc[r] \in {"reply", "sync", "stop"} => overlap
         /\ Pending(r) => /\ overlap /\ pc[r] \in Ahead /\ channel[r] = "request"
                          /\ gidx[r] > 0 /\ request[r].start = (gidx[r] - 1) % 2
PROOF
  <1>1. Own(r) /\ IInv
    BY DEF TransferInv
  <1>2. gidx[r] \in 0..Len(rounds)
    BY MadeBounds
  <1>3. Progress(r) /\ Talk(r) /\ Held(r) /\ LoadedUpTo(r) /\ Known(r)
    BY <1>1 DEF Own
  <1>4. /\ overlap \in BOOLEAN /\ Len(rounds) \in Nat /\ Calls \in Nat /\ Calls = Each(Len(rounds)) + 2
        /\ update[r] \in Nat /\ joined[r] \in Nat /\ gidx[r] \in Nat
    BY MadeBounds, PlanFacts
  <1>5. gidx[r] <= Len(rounds)
    BY <1>2, <1>4
  <1>6. /\ pc[r] \in {"done", "ready", "copy", "broadcast", "reply", "sync", "load", "stop",
                      "final", "raised"}
        /\ thread[r] \in {"none", "hello", "wait", "loading", "dead"}
        /\ channel[r] \in {"idle", "request", "reply"}
        /\ pc[r] \in {"reply", "sync", "stop"} => overlap
    BY <1>1 DEF IInv, Types, OnlyOverlap
  <1>7. Pending(r) => /\ overlap /\ pc[r] \in Ahead /\ channel[r] = "request"
                      /\ gidx[r] > 0 /\ request[r].start = (gidx[r] - 1) % 2
    BY <1>1 DEF IInv, PendingIsLast
  <1> QED
    BY <1>3, <1>4, <1>5, <1>6, <1>7

\* The functions of the state are functions of the ranks.
Functional ==
  /\ DOMAIN pc = Ranks /\ DOMAIN update = Ranks /\ DOMAIN gidx = Ranks /\ DOMAIN joined = Ranks
  /\ DOMAIN memory = Actors /\ DOMAIN half = Ranks /\ DOMAIN thread = Ranks
  /\ DOMAIN channel = Ranks /\ DOMAIN request = Ranks /\ DOMAIN loaded = Ranks
  /\ DOMAIN wire = 1..Len(rounds) /\ \A r \in Ranks : DOMAIN half[r] = {0, 1}

LEMMA AllFunctional == TransferInv => Functional
PROOF
  BY DEF TransferInv, IInv, Types, Shapes, Functional

\* LoadedUpTo when nothing is loaded by the step.
LEMMA LoadedKept ==
  ASSUME NEW r \in Ranks, SamePlan, LoadedUpTo(r), Complete(r)' = Complete(r),
         loaded'[r] = loaded[r], update'[r] = update[r]
  PROVE  LoadedUpTo(r)'
PROOF
  <1> SUFFICES ASSUME r \in Rollouts PROVE HasLoaded(loaded[r], Complete(r), update[r])'
    BY DEF LoadedUpTo
  <1>1. HasLoaded(loaded[r], Complete(r), update[r])
    BY DEF LoadedUpTo
  <1>2. rounds' = rounds
    BY DEF SamePlan
  <1> QED
    BY <1>1, <1>2 DEF HasLoaded

\* The step of r counts the calls it makes in its own update.
LEMMA CallsCounted ==
  ASSUME TransferInv, NEW r \in Ranks, SamePlan, update'[r] = update[r],
         joined'[r] - joined[r] = Made(r)' - Made(r), joined'[r] \in Nat, Made(r)' \in Nat
  PROVE  (joined[r] + Calls = Calls * update[r] + Made(r))'
PROOF
  <1> DEFINE C == Calls * update[r]
  <1>1. joined[r] + Calls = C + Made(r) /\ Made(r) \in Nat /\ joined[r] \in Nat
    BY MadeBounds, RankFacts DEF Progress
  <1>2. C \in Nat
    BY RankFacts
  <1>3. Calls' = Calls /\ C' = C
    BY DEF SamePlan, Calls, Each
  <1>4. joined'[r] + Calls = C + Made(r)'
    <2> HIDE DEF C
    <2>1. Calls \in Nat /\ joined'[r] - joined[r] = Made(r)' - Made(r) /\ joined'[r] \in Nat
          /\ Made(r)' \in Nat
      BY RankFacts
    <2> QED
      BY <1>1, <1>2, <2>1
  <1> QED
    BY <1>3, <1>4

-----------------------------------------------------------------------------
\* A rank is called again: it starts from nothing.
LEMMA CallWhole == ASSUME TransferInv, IInv', NEW r \in Ranks, Call(r) PROVE TransferInv'
PROOF
  <1>0. Functional /\ joined \in [Ranks -> Nat] /\ update \in [Ranks -> 0..MaxUpdates]
    BY AllFunctional DEF TransferInv, Shapes
  <1>1. SamePlan /\ \A s \in Ranks \ {r} : Still(s)
    BY <1>0 DEF Call, Goto, Join, SamePlan, Still, Functional, planVars, socketVars
  <1>2. /\ pc[r] = "done" /\ pc'[r] = "ready" /\ update'[r] = update[r] + 1 /\ gidx'[r] = 0
        /\ joined'[r] = joined[r] + 1 /\ loaded'[r] = << >>
        /\ thread' = thread /\ channel' = channel /\ wire' = wire
        /\ r \in Actors => memory'[r] = update'[r]
    BY <1>0 DEF Call, Goto, Join, Functional, socketVars
  <1>3. thread[r] = "none"
    BY <1>2, RankFacts DEF Talk
  <1>4. Shapes'
    BY <1>1, <1>0, TransferAssumption DEF Call, Join, TransferInv, Shapes, SamePlan
  <1>5. Own(r)'
    <2>1. (joined[r] + Calls = Calls * update[r] + Made(r))'
      <3>1. joined[r] + Calls = Calls * update[r] + Calls
        BY <1>2, RankFacts DEF Progress, Made
      <3>2. Made(r)' = 1 /\ Calls' = Calls
        BY <1>1, <1>2 DEF Made, SamePlan, Calls, Each
      <3>3. Calls * (update[r] + 1) = Calls * update[r] + Calls /\ Calls * update[r] \in Nat
        BY RankFacts
      <3> QED
        BY <1>2, <3>1, <3>2, <3>3, RankFacts
    <2>2. Progress(r)'
      BY <1>2, <2>1, RankFacts DEF Progress, Holding
    <2>3. Talk(r)' /\ Held(r)' /\ ~Behind(r)'
      BY <1>2, <1>3 DEF Talk, Held, Ahead, Behind, Pending
    <2>4. LoadedUpTo(r)'
      <3>1. Complete(r)' = 0
        BY <1>2, <2>3 DEF Complete
      <3> QED
        BY <1>2, <3>1 DEF LoadedUpTo, HasLoaded, LoadedFrom
    <2>5. Known(r)'
      BY <1>2 DEF Known
    <2> QED
      BY <2>2, <2>3, <2>4, <2>5 DEF Own
  <1>6. MetStep(r)
    BY <1>2, RankFacts DEF Call, MetStep, Passed, Waits
  <1>7. OnWire'
    <2>1. \A g \in 1..Len(rounds) : rounds[g].rank = r => ~Sent(g)'
      BY <1>1, <1>2 DEF Sent, SamePlan, Holding
    <2> QED
      BY <1>1, <1>2, <2>1, WireKept
  <1> QED
    BY <1>1, <1>4, <1>5, <1>6, <1>7, RankMoves

\* update_checkpoint starts with the first collective call behind it.
LEMMA StartWhole == ASSUME TransferInv, IInv', NEW r \in Ranks, Start(r) PROVE TransferInv'
PROOF
  <1>0. Functional
    BY AllFunctional
  <1>1. SamePlan /\ \A s \in Ranks \ {r} : Still(s)
    BY <1>0 DEF Start, Goto, SamePlan, Still, Functional, planVars, bufferVars
  <1>2. /\ pc[r] = "ready" /\ pc'[r] = "copy" /\ AllIn(r) /\ update' = update /\ gidx' = gidx
        /\ joined' = joined /\ loaded' = loaded /\ wire' = wire /\ half' = half
        /\ memory' = memory /\ request' = request
        /\ overlap => thread'[r] = "hello" /\ channel'[r] = "request"
        /\ ~overlap => thread' = thread /\ channel' = channel
    BY <1>0 DEF Start, Goto, Functional, bufferVars
  <1>3. thread[r] = "none" /\ gidx[r] = 0
    BY <1>2, RankFacts DEF Talk, Progress
  <1>4. Shapes'
    BY <1>1, <1>2 DEF TransferInv, Shapes, SamePlan
  <1>5. Own(r)'
    <2>1. Progress(r)'
      <3>1. Made(r) = 1 /\ Made(r)' = 1
        BY <1>1, <1>2, <1>3, RankFacts DEF Made, SamePlan, Each, Holding
      <3>2. (joined[r] + Calls = Calls * update[r] + Made(r))'
        BY <1>1, <1>2, <3>1, RankFacts, CallsCounted
      <3> QED
        BY <1>1, <1>2, <3>2, RankFacts DEF Progress, Holding, SamePlan
    <2>2. Talk(r)'
      BY <1>1, <1>2, <1>3, RankFacts DEF Talk, SamePlan, Ahead
    <2>3. ~Behind(r) /\ ~Behind(r)' /\ ~Pending(r)'
      BY <1>2, <1>3, RankFacts DEF Behind, Pending
    <2>4. Held(r)'
      BY <1>2, <2>3 DEF Held, Behind
    <2>5. LoadedUpTo(r)'
      BY <1>1, <1>2, <2>3, RankFacts, LoadedKept DEF Complete
    <2>6. Known(r)'
      BY <1>2, RankFacts DEF Known
    <2> QED
      BY <2>1, <2>2, <2>4, <2>5, <2>6 DEF Own
  <1>6. MetStep(r)
    BY <1>2, RankFacts DEF MetStep, Passed, Waits
  <1>7. OnWire'
    BY <1>1, <1>2, WireKept DEF Sent, SamePlan, Holding
  <1> QED
    BY <1>1, <1>4, <1>5, <1>6, <1>7, RankMoves

\* The owner of the bucket puts it on the wire, in the version it keeps.
LEMMA BroadcastWhole ==
  ASSUME TransferInv, IInv', NEW r \in Ranks, Broadcast(r) PROVE TransferInv'
PROOF
  <1>0. Functional /\ joined \in [Ranks -> Nat]
    BY AllFunctional DEF TransferInv, Shapes
  <1>1. SamePlan /\ \A s \in Ranks \ {r} : Still(s)
    BY <1>0 DEF Broadcast, Goto, Join, SamePlan, Still, Functional, planVars, socketVars
  <1>2. /\ pc[r] = "copy" /\ pc'[r] = "broadcast" /\ gidx[r] < Len(rounds) /\ update' = update
        /\ gidx' = gidx /\ joined'[r] = joined[r] + 1 /\ loaded' = loaded /\ half' = half
        /\ memory' = memory /\ request' = request /\ thread' = thread /\ channel' = channel
        /\ Join(r)
        /\ rounds' = rounds /\ overlap' = overlap
    BY <1>0, <1>1 DEF Broadcast, Goto, Join, Functional, socketVars, SamePlan
  <1>4. Shapes'
    <2>1. DOMAIN wire' = DOMAIN wire
      BY DEF Broadcast
    <2>2. joined' \in [Ranks -> Nat]
      BY <1>0 DEF Broadcast, Join
    <2> QED
      BY <1>1, <1>2, <2>1, <2>2 DEF TransferInv, Shapes, SamePlan
  <1>5. Own(r)'
    <2>1. Progress(r)'
      <3>1. Made(r) = Each(gidx[r]) + 1 /\ Made(r)' = Each(gidx[r]) + 2 /\ Each(gidx[r]) \in Nat
        BY <1>2, RankFacts, EachGrows DEF Made, Each, Holding
      <3>2. (joined[r] + Calls = Calls * update[r] + Made(r))'
        <4>1. /\ joined'[r] - joined[r] = Made(r)' - Made(r) /\ joined'[r] \in Nat
              /\ Made(r)' \in Nat /\ update'[r] = update[r]
          BY <1>2, <3>1, RankFacts
        <4> QED
          BY <1>1, <4>1, CallsCounted
      <3> QED
        BY <1>2, <3>2, RankFacts DEF Progress, Holding
    <2>2. Talk(r)'
      BY <1>2, RankFacts DEF Talk, Ahead
    <2>3. (Behind(r)' <=> Behind(r)) /\ (Pending(r)' <=> Pending(r)) /\ Complete(r)' = Complete(r)
      BY <1>2 DEF Behind, Pending, Complete
    <2>4. Held(r)'
      BY <1>2, <2>3, RankFacts DEF Held, Bucket
    <2>5. LoadedUpTo(r)'
      BY <1>1, <1>2, <2>3, RankFacts, LoadedKept
    <2>6. Known(r)'
      BY <1>2, RankFacts DEF Known
    <2> QED
      BY <2>1, <2>2, <2>4, <2>5, <2>6 DEF Own
  <1>6. MetStep(r)
    BY <1>2, RankFacts DEF MetStep, Passed, Waits
  <1>7. OnWire'
    <2> SUFFICES ASSUME NEW g \in 1..Len(rounds), Sent(g)'
                 PROVE  wire'[g] = Bucket(g, update[rounds[g].rank])
      BY <1>2 DEF OnWire, Bucket
    <2>1. rounds[g].rank \in Actors /\ rounds[g].rank \in Ranks
      BY PlanFacts DEF Round
    <2>2. CASE rounds[g].rank = r /\ g = gidx[r] + 1
      <3>1. memory[r] = update[r]
        BY <1>2, <2>1, <2>2, RankFacts DEF Known
      <3>2. wire'[g] = [names |-> rounds[g].names, version |-> memory[r]]
        BY <1>0, <2>2 DEF Broadcast, Functional
      <3> QED
        BY <2>2, <3>1, <3>2 DEF Bucket
    <2>3. CASE ~(rounds[g].rank = r /\ g = gidx[r] + 1)
      <3>1. Sent(g)
        BY <1>1, <1>2, <2>1, <2>3 DEF Sent, Still
      <3>2. wire'[g] = wire[g]
        BY <1>0, <2>3 DEF Broadcast, Functional
      <3> QED
        BY <3>1, <3>2 DEF TransferInv, OnWire
    <2> QED
      BY <2>2, <2>3
  <1> QED
    BY <1>1, <1>4, <1>5, <1>6, <1>7, RankMoves

\* The broadcast returns: what it carried is in the half the thread is not loading.
LEMMA ReceivedWhole ==
  ASSUME TransferInv, IInv', NEW r \in Ranks, Received(r) PROVE TransferInv'
PROOF
  <1>0. Functional
    BY AllFunctional
  <1>1. SamePlan /\ \A s \in Ranks \ {r} : Still(s)
    BY <1>0 DEF Received, Goto, SamePlan, Still, Functional, planVars, socketVars
  <1>2. /\ pc[r] = "broadcast" /\ AllIn(r) /\ update' = update
        /\ pc'[r] = (IF overlap THEN "reply" ELSE "load")
        /\ gidx' = gidx /\ joined' = joined /\ loaded' = loaded /\ wire' = wire
        /\ memory' = memory /\ request' = request /\ thread' = thread /\ channel' = channel
        /\ rounds' = rounds /\ overlap' = overlap
    BY <1>0, <1>1 DEF Received, Goto, Functional, socketVars, SamePlan
  <1>3. Half(gidx[r]) \in {0, 1} /\ gidx[r] < Len(rounds)
    BY <1>2, RankFacts DEF Half, Progress, Holding
  <1>4. Shapes'
    <2>1. DOMAIN half' = Ranks /\ \A s \in Ranks : DOMAIN half'[s] = {0, 1}
      BY <1>0 DEF Received, Functional
    <2> QED
      BY <1>1, <1>2, <2>1 DEF TransferInv, Shapes, SamePlan
  <1>5. Own(r)'
    <2>1. Progress(r)'
      <3>1. Made(r)' = Made(r) /\ Made(r) \in Nat /\ Calls' = Calls
        BY <1>2, RankFacts, MadeBounds DEF Made, Each, Holding, Calls
      <3> QED
        BY <1>2, <3>1, RankFacts DEF Progress, Holding
    <2>2. Talk(r)'
      BY <1>2, RankFacts DEF Talk, Ahead
    <2>3. (Behind(r)' <=> Behind(r)) /\ (Pending(r)' <=> Pending(r)) /\ Complete(r)' = Complete(r)
      BY <1>2 DEF Behind, Pending, Complete
    <2>4. half'[r] = [half[r] EXCEPT ![Half(gidx[r])] = wire[gidx[r] + 1]]
      BY <1>0 DEF Received, Functional
    <2>5. Held(r)'
      <3>1. (half[r][Half(gidx[r])] = Bucket(gidx[r] + 1, update[r]))'
        <4>1. half'[r][Half(gidx[r])] = Bucket(gidx[r] + 1, update[r])
          BY <1>0, <1>2, <1>3, <2>4, Carried DEF Functional
        <4> QED
          BY <1>2, <4>1 DEF Half, Bucket
      <3>2. ASSUME Pending(r)
            PROVE  (/\ request[r].names = rounds[gidx[r]].names
                    /\ half[r][(gidx[r] - 1) % 2] = Bucket(gidx[r], update[r]))'
        <4>1. (gidx[r] - 1) % 2 # Half(gidx[r])
          BY <3>2, RankFacts, Alternate
        <4>2. half'[r][(gidx[r] - 1) % 2] = half[r][(gidx[r] - 1) % 2]
          BY <2>4, <4>1
        <4> QED
          BY <1>2, <3>2, <4>2, RankFacts DEF Held, Bucket
      <3>3. (Behind(r) => gidx[r] > 0)'
        BY <1>2, <2>3, RankFacts DEF Held
      <3> QED
        BY <2>3, <3>1, <3>2, <3>3 DEF Held
    <2>6. LoadedUpTo(r)'
      BY <1>1, <1>2, <2>3, RankFacts, LoadedKept
    <2>7. Known(r)'
      BY <1>2, RankFacts DEF Known
    <2> QED
      BY <2>1, <2>2, <2>5, <2>6, <2>7 DEF Own
  <1>6. MetStep(r)
    BY <1>2, RankFacts DEF MetStep, Passed, Waits
  <1>7. OnWire'
    BY <1>1, <1>2, WireKept DEF Sent, Holding
  <1> QED
    BY <1>1, <1>4, <1>5, <1>6, <1>7, RankMoves

\* Without overlap the rank loads the bucket itself.
LEMMA LoadInPlaceWhole ==
  ASSUME TransferInv, IInv', NEW r \in Ranks, LoadInPlace(r) PROVE TransferInv'
PROOF
  <1>0. Functional
    BY AllFunctional
  <1>1. SamePlan /\ \A s \in Ranks \ {r} : Still(s)
    BY <1>0 DEF LoadInPlace, Loads, Goto, SamePlan, Still, Functional, planVars, bufferVars, socketVars
  <1>2. /\ pc[r] = "load" /\ pc'[r] = "copy" /\ update' = update /\ gidx'[r] = gidx[r] + 1
        /\ joined' = joined /\ wire' = wire /\ half' = half
        /\ memory' = memory /\ request' = request /\ thread' = thread /\ channel' = channel
        /\ rounds' = rounds /\ overlap' = overlap
    BY <1>0, <1>1 DEF LoadInPlace, Goto, Functional, bufferVars, socketVars, SamePlan
  <1>3. ~overlap /\ gidx[r] < Len(rounds) /\ thread[r] = "none" /\ gidx[r] + 1 \in 1..Len(rounds)
    BY <1>2, RankFacts DEF Progress, Talk, Holding
  <1>4. Shapes'
    <2>1. DOMAIN loaded' = Ranks
      BY <1>0 DEF LoadInPlace, Loads, Functional
    <2>2. gidx' \in [Ranks -> 0..Len(rounds)]
      BY <1>3, RankFacts DEF LoadInPlace, TransferInv, Shapes
    <2> QED
      BY <1>1, <1>2, <2>1, <2>2 DEF TransferInv, Shapes, SamePlan
  <1>5. Own(r)'
    <2>1. Progress(r)'
      <3>1. Made(r) = gidx[r] + 2 /\ Made(r)' = gidx[r] + 2
        BY <1>2, <1>3, RankFacts DEF Made, Each, Holding
      <3>2. (joined[r] + Calls = Calls * update[r] + Made(r))'
        <4>1. /\ joined'[r] - joined[r] = Made(r)' - Made(r) /\ joined'[r] \in Nat
              /\ Made(r)' \in Nat /\ update'[r] = update[r]
          BY <1>2, <3>1, RankFacts
        <4> QED
          BY <1>1, <4>1, CallsCounted
      <3> QED
        BY <1>2, <1>3, <3>2, RankFacts DEF Progress, Holding
    <2>2. Talk(r)' /\ ~Behind(r) /\ ~Behind(r)' /\ ~Pending(r)'
      BY <1>2, <1>3 DEF Talk, Behind, Pending
    <2>3. Held(r)'
      BY <1>2, <2>2 DEF Held
    <2>4. LoadedUpTo(r)'
      <3> SUFFICES ASSUME r \in Rollouts PROVE HasLoaded(loaded[r], Complete(r), update[r])'
        BY DEF LoadedUpTo
      <3>1. HasLoaded(loaded[r], gidx[r], update[r])
        BY <2>2, RankFacts DEF LoadedUpTo, Complete
      <3>2. half[r][0] = Bucket(gidx[r] + 1, update[r])
        BY <1>2, <1>3, RankFacts DEF Held, Half
      <3>3. loaded'[r] = loaded[r] \o Extracted(rounds[gidx[r] + 1].names, Bucket(gidx[r] + 1, update[r]))
        BY <1>0, <3>2 DEF LoadInPlace, Loads, Functional
      <3>4. HasLoaded(loaded'[r], gidx[r] + 1, update[r])
        BY <1>3, <3>1, <3>3, RankFacts, LoadsBucket
      <3>5. Complete(r)' = gidx[r] + 1
        BY <1>2, <2>2 DEF Complete
      <3> QED
        BY <1>2, <3>4, <3>5 DEF HasLoaded
    <2>5. Known(r)'
      BY <1>2, RankFacts DEF Known
    <2> QED
      BY <2>1, <2>2, <2>3, <2>4, <2>5 DEF Own
  <1>6. MetStep(r)
    BY <1>2, RankFacts DEF MetStep, Passed, Waits
  <1>7. OnWire'
    BY <1>1, <1>2, RankFacts, WireKept DEF Sent, Holding
  <1> QED
    BY <1>1, <1>4, <1>5, <1>6, <1>7, RankMoves

\* The thread has replied: it has nothing left to load.
LEMMA AwaitReplyWhole ==
  ASSUME TransferInv, IInv', NEW r \in Ranks, AwaitReply(r) PROVE TransferInv'
PROOF
  <1>0. Functional /\ joined \in [Ranks -> Nat]
    BY AllFunctional DEF TransferInv, Shapes
  <1>1. SamePlan /\ \A s \in Ranks \ {r} : Still(s)
    BY <1>0 DEF AwaitReply, Goto, Join, SamePlan, Still, Functional, planVars, bufferVars
  <1>2. /\ pc[r] = "reply" /\ pc'[r] = "sync" /\ update' = update /\ gidx' = gidx
        /\ joined'[r] = joined[r] + 1 /\ Join(r) /\ wire' = wire /\ half' = half
        /\ memory' = memory /\ request' = request /\ thread' = thread /\ loaded' = loaded
        /\ channel[r] = "reply" /\ channel'[r] = "idle"
        /\ rounds' = rounds /\ overlap' = overlap
    BY <1>0, <1>1 DEF AwaitReply, Replied, Goto, Join, Functional, bufferVars, SamePlan
  <1>3. overlap /\ gidx[r] < Len(rounds) /\ thread[r] = "wait"
    BY <1>2, RankFacts DEF Progress, Talk, Holding, Ahead
  <1>4. Shapes'
    <2>1. joined' \in [Ranks -> Nat]
      BY <1>0 DEF AwaitReply, Join
    <2> QED
      BY <1>1, <1>2, <2>1 DEF TransferInv, Shapes, SamePlan
  <1>5. Own(r)'
    <2>1. Progress(r)'
      <3>1. Made(r) = Each(gidx[r]) + 2 /\ Made(r)' = Each(gidx[r]) + 3 /\ Each(gidx[r]) \in Nat
        BY <1>2, RankFacts, EachGrows DEF Made, Each, Holding
      <3>2. (joined[r] + Calls = Calls * update[r] + Made(r))'
        <4>1. /\ joined'[r] - joined[r] = Made(r)' - Made(r) /\ joined'[r] \in Nat
              /\ Made(r)' \in Nat /\ update'[r] = update[r]
          BY <1>2, <3>1, RankFacts
        <4> QED
          BY <1>1, <4>1, CallsCounted
      <3> QED
        BY <1>2, <1>3, <3>2, RankFacts DEF Progress, Holding
    <2>2. Talk(r)' /\ ~Behind(r) /\ ~Behind(r)' /\ ~Pending(r)'
      BY <1>2, <1>3 DEF Talk, Behind, Pending, Ahead
    <2>3. Held(r)'
      BY <1>2, <2>2, RankFacts DEF Held, Half, Bucket
    <2>4. LoadedUpTo(r)'
      BY <1>1, <1>2, <2>2, RankFacts, LoadedKept DEF Complete
    <2>5. Known(r)'
      BY <1>2, RankFacts DEF Known
    <2> QED
      BY <2>1, <2>2, <2>3, <2>4, <2>5 DEF Own
  <1>6. MetStep(r)
    BY <1>2, RankFacts DEF MetStep, Passed, Waits
  <1>7. OnWire'
    BY <1>1, <1>2, WireKept DEF Sent, Holding
  <1> QED
    BY <1>1, <1>4, <1>5, <1>6, <1>7, RankMoves

\* The metadata sent are those of the bucket just received.
LEMMA SendMetasWhole ==
  ASSUME TransferInv, IInv', NEW r \in Ranks, SendMetas(r) PROVE TransferInv'
PROOF
  <1>0. Functional
    BY AllFunctional
  <1>1. SamePlan /\ \A s \in Ranks \ {r} : Still(s)
    BY <1>0 DEF SendMetas, Request, Goto, SamePlan, Still, Functional, planVars, bufferVars
  <1>2. /\ pc[r] = "sync" /\ pc'[r] = "copy" /\ AllIn(r) /\ update' = update
        /\ gidx'[r] = gidx[r] + 1 /\ joined' = joined /\ wire' = wire /\ half' = half
        /\ memory' = memory /\ thread' = thread /\ loaded' = loaded /\ channel'[r] = "request"
        /\ request'[r].names = rounds[gidx[r] + 1].names
        /\ request'[r].start = Half(gidx[r])
        /\ rounds' = rounds /\ overlap' = overlap
    BY <1>0, <1>1 DEF SendMetas, Request, Goto, Functional, bufferVars, SamePlan
  <1>3. /\ overlap /\ gidx[r] < Len(rounds) /\ thread[r] = "wait" /\ channel[r] = "idle"
        /\ gidx[r] + 1 \in 1..Len(rounds)
    BY <1>2, RankFacts DEF Progress, Talk, Holding
  <1>4. Shapes'
    <2>1. gidx' \in [Ranks -> 0..Len(rounds)]
      BY <1>3, RankFacts DEF SendMetas, TransferInv, Shapes
    <2> QED
      BY <1>1, <1>2, <2>1 DEF TransferInv, Shapes, SamePlan
  <1>5. Own(r)'
    <2>0. ~Behind(r) /\ Behind(r)' /\ request'[r] # Done
      <3>1. Half(gidx[r]) # 2
        BY RankFacts DEF Half
      <3>2. request'[r] # Done
        BY <1>2, <3>1 DEF Done
      <3> QED
        BY <1>2, <1>3, <3>2 DEF Behind, Pending
    <2>1. Progress(r)'
      <3>1. Made(r) = 2 * gidx[r] + 3 /\ Made(r)' = 2 * (gidx[r] + 1) + 1
        BY <1>2, <1>3, RankFacts DEF Made, Each, Holding
      <3>2. (joined[r] + Calls = Calls * update[r] + Made(r))'
        <4>1. /\ joined'[r] - joined[r] = Made(r)' - Made(r) /\ joined'[r] \in Nat
              /\ Made(r)' \in Nat /\ update'[r] = update[r]
          BY <1>2, <3>1, RankFacts
        <4> QED
          BY <1>1, <4>1, CallsCounted
      <3> QED
        BY <1>2, <1>3, <3>2, RankFacts DEF Progress, Holding
    <2>2. Talk(r)'
      BY <1>2, <1>3, <2>0 DEF Talk
    <2>3. Held(r)'
      <3>1. half[r][Half(gidx[r])] = Bucket(gidx[r] + 1, update[r])
        BY <1>2, RankFacts DEF Held
      <3>2. (gidx'[r] - 1) % 2 = Half(gidx[r]) /\ gidx'[r] > 0
        BY <1>2, <1>3, RankFacts DEF Half
      <3>3. half'[r][(gidx'[r] - 1) % 2] = Bucket(gidx'[r], update'[r])
        BY <1>2, <3>1, <3>2
      <3> QED
        BY <1>2, <3>2, <3>3 DEF Held, Bucket
    <2>4. LoadedUpTo(r)'
      <3>1. Complete(r)' = Complete(r)
        BY <1>2, <2>0, RankFacts DEF Complete
      <3> QED
        BY <1>1, <1>2, <3>1, RankFacts, LoadedKept
    <2>5. Known(r)'
      BY <1>2, RankFacts DEF Known
    <2> QED
      BY <2>1, <2>2, <2>3, <2>4, <2>5 DEF Own
  <1>6. MetStep(r)
    BY <1>2, RankFacts DEF MetStep, Passed, Waits
  <1>7. OnWire'
    BY <1>1, <1>2, RankFacts, WireKept DEF Sent, Holding
  <1> QED
    BY <1>1, <1>4, <1>5, <1>6, <1>7, RankMoves

\* After the last bucket the thread is told to stop.
LEMMA SendDoneWhole ==
  ASSUME TransferInv, IInv', NEW r \in Ranks, SendDone(r) PROVE TransferInv'
PROOF
  <1>0. Functional
    BY AllFunctional
  <1>1. SamePlan /\ \A s \in Ranks \ {r} : Still(s)
    BY <1>0 DEF SendDone, Request, Goto, SamePlan, Still, Functional, planVars, bufferVars
  <1>2. /\ pc[r] = "copy" /\ pc'[r] = "stop" /\ update' = update /\ gidx' = gidx
        /\ joined' = joined /\ wire' = wire /\ half' = half /\ overlap /\ gidx[r] = Len(rounds)
        /\ memory' = memory /\ thread' = thread /\ loaded' = loaded
        /\ channel[r] = "reply" /\ channel'[r] = "request" /\ request'[r] = Done
        /\ rounds' = rounds /\ overlap' = overlap
    BY <1>0, <1>1 DEF SendDone, Request, Goto, Functional, bufferVars, SamePlan
  <1>3. thread[r] = "wait"
    BY <1>2, RankFacts DEF Talk, Ahead
  <1>4. Shapes'
    BY <1>1, <1>2 DEF TransferInv, Shapes, SamePlan
  <1>5. Own(r)'
    <2>1. Progress(r)'
      <3>1. Made(r)' = Made(r) /\ Calls' = Calls
        BY <1>2 DEF Made, Each, Holding, Calls
      <3> QED
        BY <1>2, <3>1, RankFacts DEF Progress, Holding
    <2>2. Talk(r)' /\ ~Behind(r) /\ ~Behind(r)' /\ ~Pending(r)'
      BY <1>2, <1>3 DEF Talk, Behind, Pending, Ahead
    <2>3. Held(r)'
      BY <1>2, <2>2 DEF Held
    <2>4. LoadedUpTo(r)'
      BY <1>1, <1>2, <2>2, RankFacts, LoadedKept DEF Complete
    <2>5. Known(r)'
      BY <1>2, RankFacts DEF Known
    <2> QED
      BY <2>1, <2>2, <2>3, <2>4, <2>5 DEF Own
  <1>6. MetStep(r)
    BY <1>2, RankFacts DEF MetStep, Passed, Waits
  <1>7. OnWire'
    BY <1>1, <1>2, WireKept DEF Sent, Holding
  <1> QED
    BY <1>1, <1>4, <1>5, <1>6, <1>7, RankMoves

\* The thread is joined: the rank makes the last collective call of the update.
LEMMA FinishWhole ==
  ASSUME TransferInv, IInv', NEW r \in Ranks, Finish(r) PROVE TransferInv'
PROOF
  <1>0. Functional /\ joined \in [Ranks -> Nat]
    BY AllFunctional DEF TransferInv, Shapes
  <1>1. SamePlan /\ \A s \in Ranks \ {r} : Still(s)
    BY <1>0 DEF Finish, Goto, Join, SamePlan, Still, Functional, planVars, bufferVars
  <1>2. /\ pc'[r] = "final" /\ update' = update /\ gidx' = gidx
        /\ joined'[r] = joined[r] + 1 /\ Join(r) /\ wire' = wire /\ half' = half
        /\ memory' = memory /\ thread' = thread /\ loaded' = loaded /\ request' = request
        /\ channel'[r] = "idle"
        /\ rounds' = rounds /\ overlap' = overlap
    BY <1>0, <1>1 DEF Finish, Goto, Join, Functional, bufferVars, SamePlan
  <1>3. gidx[r] = Len(rounds) /\ pc[r] \in {"copy", "stop"} /\ thread[r] = "none"
    BY RankFacts DEF Finish, ThreadOver, Progress, Talk
  <1>4. Shapes'
    <2>1. joined' \in [Ranks -> Nat]
      BY <1>0 DEF Finish, Join
    <2> QED
      BY <1>1, <1>2, <2>1 DEF TransferInv, Shapes, SamePlan
  <1>5. Own(r)'
    <2>1. Progress(r)'
      <3>1. Made(r) = Each(Len(rounds)) + 1 /\ Made(r)' = Each(Len(rounds)) + 2 /\ Each(Len(rounds)) \in Nat
        BY <1>2, <1>3, RankFacts, EachGrows DEF Made, Each, Holding, Calls
      <3>2. (joined[r] + Calls = Calls * update[r] + Made(r))'
        <4>1. /\ joined'[r] - joined[r] = Made(r)' - Made(r) /\ joined'[r] \in Nat
              /\ Made(r)' \in Nat /\ update'[r] = update[r]
          BY <1>2, <3>1, RankFacts
        <4> QED
          BY <1>1, <4>1, CallsCounted
      <3> QED
        BY <1>2, <1>3, <3>2, RankFacts DEF Progress, Holding
    <2>2. Talk(r)' /\ ~Behind(r) /\ ~Behind(r)' /\ ~Pending(r)'
      BY <1>2, <1>3, RankFacts DEF Talk, Behind, Pending, Ahead
    <2>3. Held(r)'
      BY <1>2, <2>2 DEF Held
    <2>4. LoadedUpTo(r)'
      BY <1>1, <1>2, <2>2, RankFacts, LoadedKept DEF Complete
    <2>5. Known(r)'
      BY <1>2, <1>3, RankFacts DEF Known
    <2> QED
      BY <2>1, <2>2, <2>3, <2>4, <2>5 DEF Own
  <1>6. MetStep(r)
    BY <1>2, <1>3, RankFacts DEF MetStep, Passed, Waits
  <1>7. OnWire'
    BY <1>1, <1>2, WireKept DEF Sent, Holding
  <1> QED
    BY <1>1, <1>4, <1>5, <1>6, <1>7, RankMoves

\* The last collective call returns, and an actor frees its buckets.
LEMMA ReturnWhole ==
  ASSUME TransferInv, IInv', NEW r \in Ranks, Return(r) PROVE TransferInv'
PROOF
  <1>0. Functional
    BY AllFunctional
  <1>1. SamePlan /\ \A s \in Ranks \ {r} : Still(s)
    BY <1>0 DEF Return, Goto, SamePlan, Still, Functional, planVars, socketVars
  <1>2. /\ pc[r] = "final" /\ pc'[r] = "done" /\ AllIn(r) /\ update' = update /\ gidx' = gidx
        /\ joined' = joined /\ wire' = wire /\ half' = half
        /\ thread' = thread /\ loaded' = loaded /\ request' = request /\ channel' = channel
        /\ rounds' = rounds /\ overlap' = overlap
    BY <1>0, <1>1 DEF Return, LastBarrier, Goto, Functional, socketVars, SamePlan
  <1>3. thread[r] = "none"
    BY <1>2, RankFacts DEF Talk
  <1>4. Shapes'
    <2>1. memory' \in [Actors -> 0..MaxUpdates]
      BY TransferAssumption DEF Return, TransferInv, Shapes
    <2> QED
      BY <1>1, <1>2, <2>1 DEF TransferInv, Shapes, SamePlan
  <1>5. Own(r)'
    <2>1. Progress(r)'
      <3>1. Made(r)' = Made(r) /\ Calls' = Calls
        BY <1>2 DEF Made, Each, Calls
      <3> QED
        BY <1>2, <3>1, RankFacts DEF Progress, Holding
    <2>2. Talk(r)' /\ ~Behind(r) /\ ~Behind(r)' /\ ~Pending(r)'
      BY <1>2, <1>3 DEF Talk, Behind, Pending, Ahead
    <2>3. Held(r)'
      BY <1>2, <2>2 DEF Held
    <2>4. LoadedUpTo(r)'
      BY <1>1, <1>2, <2>2, RankFacts, LoadedKept DEF Complete
    <2>5. Known(r)'
      BY <1>2 DEF Known
    <2> QED
      BY <2>1, <2>2, <2>3, <2>4, <2>5 DEF Own
  <1>6. MetStep(r)
    BY <1>2, RankFacts DEF MetStep, Passed, Waits
  <1>7. OnWire'
    BY <1>1, <1>2, WireKept DEF Sent, Holding
  <1> QED
    BY <1>1, <1>4, <1>5, <1>6, <1>7, RankMoves

-----------------------------------------------------------------------------
\* The thread's first message is answered.
LEMMA HelloWhole == ASSUME TransferInv, IInv', NEW r \in Ranks, Hello(r) PROVE TransferInv'
PROOF
  <1>0. Functional
    BY AllFunctional
  <1>1. SamePlan /\ \A s \in Ranks \ {r} : Still(s)
    BY <1>0 DEF Hello, Reply, Thread, SamePlan, Still, Functional, planVars, bufferVars
  <1>2. /\ pc' = pc /\ update' = update /\ gidx' = gidx /\ joined' = joined /\ wire' = wire
        /\ half' = half /\ memory' = memory /\ loaded' = loaded /\ request' = request
        /\ thread[r] = "hello" /\ thread'[r] = "wait" /\ channel'[r] = "reply"
        /\ rounds' = rounds /\ overlap' = overlap
    BY <1>0, <1>1 DEF Hello, Reply, Thread, Functional, bufferVars, SamePlan
  <1>3. Shapes'
    BY <1>1, <1>2 DEF TransferInv, Shapes, SamePlan
  <1>4. Own(r)'
    <2>1. Progress(r)'
      BY <1>2, RankFacts DEF Progress, Made, Each, Calls
    <2>2. pc[r] \in Ahead /\ overlap
      BY <1>2, RankFacts DEF Talk, Ahead
    <2>3. Talk(r)' /\ ~Behind(r) /\ ~Behind(r)' /\ ~Pending(r)'
      BY <1>2, <2>2 DEF Talk, Behind, Pending, Ahead
    <2>4. Held(r)'
      BY <1>2, <2>3, RankFacts DEF Held, Half, Bucket
    <2>5. LoadedUpTo(r)'
      BY <1>1, <1>2, <2>3, RankFacts, LoadedKept DEF Complete
    <2>6. Known(r)'
      BY <1>2, RankFacts DEF Known
    <2> QED
      BY <2>1, <2>3, <2>4, <2>5, <2>6 DEF Own
  <1>5. MetStep(r)
    BY <1>2, RankFacts DEF MetStep, Passed, Waits
  <1>6. OnWire'
    BY <1>1, <1>2, WireKept DEF Sent
  <1> QED
    BY <1>1, <1>3, <1>4, <1>5, <1>6, RankMoves

\* The thread takes a request: metadata to load, or the word to stop.
LEMMA TakeWhole == ASSUME TransferInv, IInv', NEW r \in Ranks, Take(r) PROVE TransferInv'
PROOF
  <1>0. Functional
    BY AllFunctional
  <1>1. SamePlan /\ \A s \in Ranks \ {r} : Still(s)
    BY <1>0 DEF Take, Reply, Thread, SamePlan, Still, Functional, planVars, bufferVars
  <1>2. /\ pc' = pc /\ update' = update /\ gidx' = gidx /\ joined' = joined /\ wire' = wire
        /\ half' = half /\ memory' = memory /\ loaded' = loaded /\ request' = request
        /\ thread[r] = "wait" /\ channel[r] = "request"
        /\ request[r] = Done => thread'[r] = "none" /\ channel'[r] = "reply"
        /\ request[r] # Done => thread'[r] = "loading" /\ channel'[r] = "request"
        /\ rounds' = rounds /\ overlap' = overlap
    BY <1>0, <1>1 DEF Take, Reply, Thread, Functional, bufferVars, SamePlan
  <1>3. Shapes'
    BY <1>1, <1>2 DEF TransferInv, Shapes, SamePlan
  <1>4. Own(r)'
    <2>1. Progress(r)'
      BY <1>2, RankFacts DEF Progress, Made, Each, Calls
    <2>2. IF request[r] = Done THEN pc[r] = "stop" ELSE pc[r] \in Ahead /\ overlap
      BY <1>2, RankFacts DEF Talk, Ahead, Pending
    <2>3. Talk(r)'
      BY <1>2, <2>2 DEF Talk, Ahead
    <2>4. (Behind(r)' <=> Behind(r)) /\ (Pending(r)' <=> Pending(r)) /\ Complete(r)' = Complete(r)
      BY <1>2 DEF Behind, Pending, Complete
    <2>5. Held(r)'
      BY <1>2, <2>4, RankFacts DEF Held, Half, Bucket
    <2>6. LoadedUpTo(r)'
      BY <1>1, <1>2, <2>4, RankFacts, LoadedKept
    <2>7. Known(r)'
      BY <1>2, RankFacts DEF Known
    <2> QED
      BY <2>1, <2>3, <2>5, <2>6, <2>7 DEF Own
  <1>5. MetStep(r)
    BY <1>2, RankFacts DEF MetStep, Passed, Waits
  <1>6. OnWire'
    BY <1>1, <1>2, WireKept DEF Sent
  <1> QED
    BY <1>1, <1>3, <1>4, <1>5, <1>6, RankMoves

\* The thread has loaded the half its metadata belong to.
LEMMA LoadEndsWhole ==
  ASSUME TransferInv, IInv', NEW r \in Ranks, LoadEnds(r) PROVE TransferInv'
PROOF
  <1>0. Functional
    BY AllFunctional
  <1>1. SamePlan /\ \A s \in Ranks \ {r} : Still(s)
    BY <1>0 DEF LoadEnds, Loads, Reply, Thread, SamePlan, Still, Functional, planVars, bufferVars
  <1>2. /\ pc' = pc /\ update' = update /\ gidx' = gidx /\ joined' = joined /\ wire' = wire
        /\ half' = half /\ memory' = memory /\ request' = request
        /\ thread[r] = "loading" /\ thread'[r] = "wait" /\ channel'[r] = "reply"
        /\ rounds' = rounds /\ overlap' = overlap
    BY <1>0, <1>1 DEF LoadEnds, Reply, Thread, Functional, bufferVars, SamePlan
  <1>3. Shapes'
    <2>1. DOMAIN loaded' = Ranks
      BY <1>0 DEF LoadEnds, Loads, Functional
    <2> QED
      BY <1>1, <1>2, <2>1 DEF TransferInv, Shapes, SamePlan
  <1>4. Own(r)'
    <2>1. Progress(r)'
      BY <1>2, RankFacts DEF Progress, Made, Each, Calls
    <2>2. Pending(r) /\ Behind(r)
      BY <1>2 DEF Pending, Behind
    <2>3. pc[r] \in Ahead /\ overlap /\ gidx[r] > 0 /\ request[r].start = (gidx[r] - 1) % 2
      BY <2>2, RankFacts
    <2>4. Talk(r)' /\ ~Behind(r)' /\ ~Pending(r)'
      BY <1>2, <2>3 DEF Talk, Behind, Pending, Ahead
    <2>5. Held(r)'
      BY <1>2, <2>4, RankFacts DEF Held, Half, Bucket
    <2>6. LoadedUpTo(r)'
      <3> SUFFICES ASSUME r \in Rollouts PROVE HasLoaded(loaded[r], Complete(r), update[r])'
        BY DEF LoadedUpTo
      <3> DEFINE k == gidx[r] - 1
      <3>1. k \in Nat /\ k + 1 = gidx[r] /\ k + 1 \in 1..Len(rounds)
        BY <2>3, RankFacts
      <3>2. HasLoaded(loaded[r], k, update[r])
        BY <2>2, RankFacts DEF LoadedUpTo, Complete
      <3>3. half[r][request[r].start] = Bucket(gidx[r], update[r]) /\ request[r].names = rounds[gidx[r]].names
        BY <2>2, <2>3, RankFacts DEF Held
      <3>4. loaded'[r] = loaded[r] \o Extracted(rounds[k + 1].names, Bucket(k + 1, update[r]))
        BY <1>0, <3>1, <3>3 DEF LoadEnds, Loads, Functional
      <3> HIDE DEF k
      <3>5. HasLoaded(loaded'[r], k + 1, update[r])
        BY <3>1, <3>2, <3>4, RankFacts, LoadsBucket
      <3>6. Complete(r)' = k + 1
        BY <1>2, <2>4, <3>1 DEF Complete
      <3>7. rounds' = rounds /\ update'[r] = update[r]
        BY <1>2
      <3> QED
        BY <3>5, <3>6, <3>7 DEF HasLoaded
    <2>7. Known(r)'
      BY <1>2, RankFacts DEF Known
    <2> QED
      BY <2>1, <2>4, <2>5, <2>6, <2>7 DEF Own
  <1>5. MetStep(r)
    BY <1>2, RankFacts DEF MetStep, Passed, Waits
  <1>6. OnWire'
    BY <1>1, <1>2, WireKept DEF Sent
  <1> QED
    BY <1>1, <1>3, <1>4, <1>5, <1>6, RankMoves

\* A load that raises leaves what was loaded before, and its rank waiting for good.
LEMMA LoadFailsWhole ==
  ASSUME TransferInv, IInv', NEW r \in Ranks, LoadFails(r) PROVE TransferInv'
PROOF
  <1>0. Functional
    BY AllFunctional
  <1>1. SamePlan /\ \A s \in Ranks \ {r} : Still(s)
    BY <1>0 DEF LoadFails, Goto, Thread, SamePlan, Still, Functional, planVars, bufferVars, socketVars
  <1>2. /\ update' = update /\ gidx' = gidx /\ joined' = joined /\ wire' = wire
        /\ half' = half /\ memory' = memory /\ request' = request /\ loaded' = loaded
        /\ channel' = channel
        /\ \/ thread[r] = "loading" /\ thread'[r] = "dead" /\ pc'[r] = pc[r]
           \/ pc[r] = "load" /\ pc'[r] = "raised" /\ thread'[r] = thread[r]
        /\ rounds' = rounds /\ overlap' = overlap
    BY <1>0, <1>1 DEF LoadFails, Goto, Thread, Functional, bufferVars, socketVars, SamePlan
  <1>3. Shapes'
    BY <1>1, <1>2 DEF TransferInv, Shapes, SamePlan
  <1>4. pc'[r] # pc[r] => pc[r] = "load" /\ pc'[r] = "raised"
    BY <1>2
  <1>5. Own(r)'
    <2>1. Progress(r)'
      <3>1. Made(r)' = Made(r) /\ Calls' = Calls
        BY <1>2, <1>4 DEF Made, Each, Calls, Holding
      <3> QED
        BY <1>2, <1>4, <3>1, RankFacts DEF Progress, Holding
    <2>2. /\ thread[r] = "loading" => /\ pc[r] \in Ahead /\ overlap /\ channel[r] = "request"
                                      /\ pc[r] # "load"
          /\ pc[r] = "load" => thread[r] = "none" /\ ~overlap
      BY RankFacts DEF Pending, Ahead, Talk, Progress
    <2>3. Talk(r)'
      BY <1>2, <2>2, RankFacts DEF Talk, Ahead
    <2>4. (Behind(r)' <=> Behind(r)) /\ ~Pending(r)' /\ Complete(r)' = Complete(r)
      BY <1>2, <2>2 DEF Behind, Pending, Complete
    <2>5. Held(r)'
      BY <1>2, <2>2, <2>4, RankFacts DEF Held, Half, Bucket
    <2>6. LoadedUpTo(r)'
      BY <1>1, <1>2, <2>4, RankFacts, LoadedKept
    <2>7. Known(r)'
      BY <1>2, <1>4, RankFacts DEF Known
    <2> QED
      BY <2>1, <2>3, <2>5, <2>6, <2>7 DEF Own
  <1>6. MetStep(r)
    BY <1>2, <1>4, RankFacts DEF MetStep, Passed, Waits
  <1>7. OnWire'
    BY <1>1, <1>2, <1>4, WireKept DEF Sent, Holding
  <1> QED
    BY <1>1, <1>3, <1>5, <1>6, <1>7, RankMoves

-----------------------------------------------------------------------------
\* Before the first update nothing is sent, received or loaded.
LEMMA InitWhole == Init => TransferInv
PROOF
  <1> SUFFICES ASSUME Init PROVE TransferInv
    OBVIOUS
  <1>1. IInv
    BY InitTransfer
  <1>2. Planned(sizes, rounds)
    <2>1. sizes \in [Params -> Nat]
      BY TransferAssumption DEF Init
    <2> QED
      BY <2>1, RoundsPlanned DEF Init
  <1>3. Len(rounds) \in Nat /\ DOMAIN rounds = 1..Len(rounds) /\ overlap \in BOOLEAN
    BY <1>2 DEF Planned, Init
  <1>4. /\ pc = [r \in Ranks |-> "done"] /\ update = [r \in Ranks |-> 0]
        /\ gidx = [r \in Ranks |-> 0] /\ joined = [r \in Ranks |-> 0]
        /\ thread = [r \in Ranks |-> "none"] /\ loaded = [r \in Ranks |-> << >>]
    BY DEF Init
  <1>5. Shapes
    BY <1>3, TransferAssumption DEF Init, Shapes
  <1>6. Met
    BY <1>4 DEF Met, Passed, Waits
  <1>7. OnWire
    <2>0. rounds \in Seq(Round)
      BY <1>2 DEF Planned
    <2>1. \A g \in 1..Len(rounds) : rounds[g].rank \in Ranks
      <3>1. \A g \in 1..Len(rounds) : rounds[g] \in Round
        BY <2>0
      <3> QED
        BY <3>1 DEF Round, Ranks
    <2>2. \A g \in 1..Len(rounds) : ~Sent(g)
      BY <1>4, <2>1 DEF Sent, Holding
    <2> QED
      BY <2>2 DEF OnWire
  <1>8. ASSUME NEW r \in Ranks PROVE Own(r)
    <2>1. Calls \in Nat
      BY <1>3, EachGrows DEF Calls
    <2>2. Progress(r)
      <3>1. Made(r) = Calls /\ joined[r] = 0 /\ update[r] = 0 /\ Calls * 0 = 0
        BY <1>4, <2>1 DEF Made
      <3> QED
        BY <1>4, <2>1, <3>1 DEF Progress, Holding
    <2>3. Talk(r) /\ Held(r) /\ ~Behind(r)
      BY <1>4 DEF Talk, Held, Ahead, Behind, Pending
    <2>4. LoadedUpTo(r)
      <3>1. Complete(r) = 0 /\ loaded[r] = << >>
        BY <1>4, <2>3 DEF Complete
      <3> QED
        BY <3>1 DEF LoadedUpTo, HasLoaded, LoadedFrom
    <2>5. Known(r)
      BY <1>4 DEF Known
    <2> QED
      BY <2>2, <2>3, <2>4, <2>5 DEF Own
  <1> QED
    BY <1>1, <1>2, <1>5, <1>6, <1>7, <1>8 DEF TransferInv

\* A step that changes nothing.
LEMMA WholeStutters == ASSUME TransferInv, UNCHANGED vars PROVE TransferInv'
PROOF
  <1> USE DEF vars, planVars, bufferVars, socketVars
  <1>1. /\ Planned(sizes, rounds)' /\ Shapes' /\ IInv'
    BY DEF TransferInv, Shapes, IInv, Types, OnlyOverlap, PendingIsLast, Pending
  <1>2. SamePlan /\ \A s \in Ranks : Still(s)
    BY DEF SamePlan, Still
  <1>3. Met'
    BY DEF TransferInv, Met, Passed
  <1>4. OnWire'
    BY DEF TransferInv, OnWire, Sent, Bucket
  <1>5. \A s \in Ranks : Own(s)'
    BY <1>2, OthersKeep DEF TransferInv
  <1> QED
    BY <1>1, <1>3, <1>4, <1>5 DEF TransferInv

\* When any rank returns from an update, every rollout rank has loaded every parameter
\* once, whole and in the version of this update (checkpoint_engine.py 509-520), and no
\* bucket overflows its half: for any number of ranks, parameters, sizes and updates,
\* with overlap or without, and whichever loads raise.
THEOREM TransferAlwaysWhole == Spec => []TransferWhole
PROOF
  <1>1. TransferInv /\ [Next]_vars => TransferInv'
    <2> SUFFICES ASSUME TransferInv, [Next]_vars PROVE TransferInv'
      OBVIOUS
    <2>1. CASE UNCHANGED vars
      BY <2>1, WholeStutters
    <2>2. CASE Next
      <3>1. IInv'
        BY <2>2, IInvKept DEF TransferInv
      <3>2. PICK r \in Ranks : Main(r) \/ ReqThread(r) \/ LoadFails(r)
        BY <2>2 DEF Next
      <3>3. CASE Main(r)
        BY <3>1, <3>3, CallWhole, StartWhole, BroadcastWhole, ReceivedWhole, LoadInPlaceWhole,
           AwaitReplyWhole, SendMetasWhole, SendDoneWhole, FinishWhole, ReturnWhole DEF Main
      <3>4. CASE ReqThread(r)
        BY <3>1, <3>4, HelloWhole, TakeWhole, LoadEndsWhole DEF ReqThread
      <3>5. CASE LoadFails(r)
        BY <3>1, <3>5, LoadFailsWhole
      <3> QED
        BY <3>2, <3>3, <3>4, <3>5
    <2> QED
      BY <2>1, <2>2
  <1> QED
    BY <1>1, InitWhole, TransferInvIsWhole, PTL DEF Spec
=============================================================================
