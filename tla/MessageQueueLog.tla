-------------------------- MODULE MessageQueueLog ---------------------------
(***************************************************************************)
(* The message queue with its callers, and a record of what they did: what *)
(* was put, what was got, and how many entries clear_queue forgot.         *)
(***************************************************************************)
EXTENDS MessageQueue

CONSTANTS
  Entries,        \* what can be put: samples and the end-of-stream None
  MaxProduced,    \* bound on put_sample calls
  MaxVersion      \* bound on the versions announced, and on validation results

ASSUME BoundsAssumption == MaxProduced \in Nat /\ MaxVersion \in Nat

VARIABLES
  sent,           \* every entry put, in order
  got,            \* every entry a consumer received, in order
  cleared         \* entries forgotten by clear_queue

logVars == <<sent, got, cleared>>
allVars == <<mqVars, logVars>>

LogInit ==
  /\ MQInit
  /\ sent = << >>
  /\ got = << >>
  /\ cleared = 0

Put(e) ==
  /\ produced < MaxProduced
  /\ PutSample(e)
  /\ sent' = Append(sent, e)
  /\ UNCHANGED <<got, cleared>>

Get(c) ==
  /\ GetSample(c)
  /\ got' = Append(got, PopLeft(queue).item)
  /\ UNCHANGED <<sent, cleared>>

Clear ==
  /\ ClearQueue
  /\ cleared' = cleared + Len(queue)
  /\ UNCHANGED <<sent, got>>

\* Calls that concern neither the samples nor their record.
Other ==
  /\ \/ \E c \in Consumers : AwaitSample(c)
     \/ \E v \in 0..MaxVersion : UpdateMqVersion(v)
     \/ \E d \in 0..MaxVersion : Len(valQueue) < MaxVersion /\ PutValidate(d)
     \/ GetValidate
     \/ Shutdown
  /\ UNCHANGED logVars

LogNext ==
  \/ \E e \in Entries : Put(e)
  \/ \E c \in Consumers : Get(c)
  \/ Clear
  \/ Other

\* The trainer calls get_sample again and again; nobody owes anything else.
LogSpec ==
  /\ LogInit
  /\ [][LogNext]_allVars
  /\ \A c \in Consumers : WF_allVars(Get(c))

-----------------------------------------------------------------------------
LogTypeOK ==
  /\ queue \in Seq(Entries) /\ Len(queue) <= MaxQueueSize
  /\ valQueue \in Seq(0..MaxVersion)
  /\ mqVersion \in 0..MaxVersion
  /\ mqRunning \in BOOLEAN
  /\ produced \in Nat /\ consumed \in Nat /\ dropped \in Nat /\ cleared \in Nat
  /\ waiting \subseteq Consumers
  /\ sent \in Seq(Entries) /\ got \in Seq(Entries)

\* No lost wakeup: a consumer of get_sample sleeps only while there is nothing
\* for it to take and the queue is open.
NoLostWakeup == waiting # {} => queue = << >> /\ mqRunning

\* The queue implements the abstract stream: consumers receive what was put, in
\* order and once, and what they never receive is exactly what the counters say
\* was dropped by a put on a full queue or forgotten by clear_queue.
Stream == INSTANCE SampleStream WITH
            Window <- MaxQueueSize, log <- sent, delivered <- got,
            cursor <- consumed + dropped + cleared
ImplementsStream == Stream!StreamSpec

\* An entry that was put does not stay in the queue for ever, whatever else is
\* called meanwhile: some get_sample, put_sample or clear_queue passes it.
EveryEntryLeaves ==
  \A n \in 1..MaxProduced :
     Len(sent) >= n ~> consumed + dropped + cleared >= n
=============================================================================
