---------------------------- MODULE MessageQueue ----------------------------
(***************************************************************************)
(* The Ray actor that carries samples from the rollouter to the trainer    *)
(* (fully_async_policy/message_queue.py).  Every method takes the actor's  *)
(* asyncio lock and gives it up only inside get_sample's condition.wait,   *)
(* so a method is one atomic action here, and get_sample is two: going to  *)
(* sleep on the condition, and leaving with an item.                       *)
(***************************************************************************)
EXTENDS Integers, Sequences

CONSTANTS
  MaxQueueSize,   \* capacity of the sample queue (deque maxlen)
  Consumers       \* callers of get_sample

ASSUME CapacityAssumption == MaxQueueSize \in Nat \ {0}

VARIABLES
  queue,          \* the sample deque, oldest first
  valQueue,       \* the unbounded deque of validation results
  mqVersion,      \* current_param_version of the actor
  mqRunning,      \* FALSE once shutdown() ran
  produced,       \* total_produced
  consumed,       \* total_consumed
  dropped,        \* dropped_samples
  waiting         \* consumers asleep in _consumer_condition.wait()

mqVars == <<queue, valQueue, mqVersion, mqRunning, produced, consumed,
            dropped, waiting>>

MQInit ==
  /\ queue = << >>
  /\ valQueue = << >>
  /\ mqVersion = 0
  /\ mqRunning = TRUE
  /\ produced = 0
  /\ consumed = 0
  /\ dropped = 0
  /\ waiting = {}

QueueFullLate == Len(queue) > MaxQueueSize      \* mutant: one entry too many
QueueFull == Len(queue) >= MaxQueueSize

Pop(q) ==                                       \* mutant: pop() for popleft()
  [item |-> q[Len(q)], rest |-> SubSeq(q, 1, Len(q) - 1)]
PopLeft(q) == [item |-> Head(q), rest |-> Tail(q)]

NotifyOne ==                                    \* mutant: notify() for notify_all()
  IF waiting = {} THEN waiting' = {} ELSE \E c \in waiting : waiting' = waiting \ {c}
NotifyNobody == UNCHANGED waiting               \* mutant: no notification
NotifyAll == waiting' = {}

\* put_sample never refuses: a full queue loses its oldest entry instead.  The Boolean
\* it returns, False when one was lost, only feeds the rollouter's statistics.
PutSample(s) ==
  /\ queue' = Append(IF QueueFull THEN PopLeft(queue).rest ELSE queue, s)
  /\ dropped' = dropped + (IF QueueFull THEN 1 ELSE 0)
  /\ produced' = produced + 1
  /\ NotifyAll
  /\ UNCHANGED <<valQueue, mqVersion, mqRunning, consumed>>

\* get_sample finds nothing and sleeps; put_sample and shutdown wake everyone.
AwaitSample(c) ==
  /\ c \notin waiting
  /\ queue = << >>
  /\ mqRunning
  /\ waiting' = waiting \cup {c}
  /\ UNCHANGED <<queue, valQueue, mqVersion, mqRunning, produced, consumed, dropped>>

\* get_sample, called or woken, leaves with the oldest entry, PopLeft(queue).item.
GetSample(c) ==
  /\ c \notin waiting
  /\ queue # << >>
  /\ queue' = PopLeft(queue).rest
  /\ consumed' = consumed + 1
  /\ UNCHANGED <<valQueue, mqVersion, mqRunning, produced, dropped, waiting>>

UpdateMqVersion(v) ==
  /\ mqVersion' = v
  /\ UNCHANGED <<queue, valQueue, mqRunning, produced, consumed, dropped, waiting>>

\* clear_queue forgets the entries without counting them anywhere.
ClearQueue ==
  /\ queue' = << >>
  /\ UNCHANGED <<valQueue, mqVersion, mqRunning, produced, consumed, dropped, waiting>>

Shutdown ==
  /\ mqRunning' = FALSE
  /\ NotifyAll
  /\ UNCHANGED <<queue, valQueue, mqVersion, produced, consumed, dropped>>

PutValidate(d) ==
  /\ valQueue' = Append(valQueue, d)
  /\ UNCHANGED <<queue, mqVersion, mqRunning, produced, consumed, dropped, waiting>>

\* get_validate never waits: with nothing to return it returns None.
GetValidate ==
  /\ valQueue' = IF valQueue = << >> THEN << >> ELSE Tail(valQueue)
  /\ UNCHANGED <<queue, mqVersion, mqRunning, produced, consumed, dropped, waiting>>

=============================================================================
