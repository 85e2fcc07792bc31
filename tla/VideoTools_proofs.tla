-------------------------- MODULE VideoTools_proofs --------------------------
(***************************************************************************)
(* The calls to the simulator, for any finite set of calls, any number of  *)
(* permits, retries and lost connections: the session is shared, and the   *)
(* class never keeps a closed one.                                         *)
(***************************************************************************)
EXTENDS VideoTools, FiniteSetTheorems, TLAPS

States == {"idle", "waiting", "posting", "backoff", "closing", "answered"}

CallTypes ==
  /\ call \in [Calls -> States]
  /\ attempt \in [Calls -> 0..MaxRetries - 1]
  /\ session \in [Calls -> Nat] /\ sent \in [Calls -> Nat]
  /\ result \in [Calls -> {"none", "content", "refused", "error"}]
  /\ disconnects \in 0..MaxDisconnects

\* The semaphore's queue: the waiting calls, each once.
QueueInv ==
  /\ waiters \in Seq(Calls)
  /\ \A i \in DOMAIN waiters : call[waiters[i]] = "waiting"
  /\ \A i, j \in DOMAIN waiters : waiters[i] = waiters[j] => i = j

\* A request is sent once per attempt; one that backs off has not sent the next yet.
SentInv ==
  \A c \in Calls :
    /\ session[c] <= opened
    /\ call[c] \in {"idle", "waiting"} => sent[c] = 0
    /\ sent[c] <= attempt[c] + 1
    /\ call[c] = "backoff" => sent[c] <= attempt[c]

\* A call creates one session at most.
Entered == {c \in Calls : call[c] \notin {"idle", "waiting"}}
OpenedInv == opened \in Nat /\ opened <= Cardinality(Entered)

Closing == \E c \in Calls : call[c] = "closing"

\* Until a session is closed there is one at most, and the class has it.  Later the one
\* it has may be closed, but only while the call that closed it still is.
SessionInv ==
  /\ global \in Nat /\ global <= opened /\ closed \subseteq 1..opened
  /\ Closing => closed # {}
  /\ closed = {} => global = opened /\ opened <= 1
  /\ global \in closed => Closing

Inv == CallTypes /\ QueueInv /\ SentInv /\ OpenedInv /\ SessionInv

-----------------------------------------------------------------------------

\* What a call goes through from its permit on.
Admitted == {"posting", "backoff", "closing", "answered"}

LEMMA InitInv == Init => Inv
PROOF
  <1> SUFFICES ASSUME Init
               PROVE  Inv
    OBVIOUS
  <1>1. CallTypes
    BY SimulatorAssumption DEF Init, CallTypes, States
  <1>2. QueueInv
    BY DEF Init, QueueInv
  <1>3. SentInv
    BY DEF Init, SentInv
  <1>4. Entered = {}
    BY DEF Init, Entered
  <1>5. OpenedInv
    BY <1>4, FS_EmptySet DEF Init, OpenedInv
  <1>6. SessionInv
    BY DEF Init, SessionInv, Closing
  <1> QED
    BY <1>1, <1>2, <1>3, <1>5, <1>6 DEF Inv

\* A call that has its permit, or has given it back, goes on: the queue does not change.
LEMMA CallMoves ==
  ASSUME CallTypes, QueueInv, NEW c \in Calls, call[c] \in Admitted, NEW s \in Admitted,
         call' = [call EXCEPT ![c] = s], waiters' = waiters
  PROVE  QueueInv' /\ Entered' = Entered
PROOF
  <1>1. call' \in [Calls -> States] /\ call'[c] = s
        /\ \A d \in Calls \ {c} : call'[d] = call[d]
    BY DEF CallTypes, States, Admitted
  <1>2. \A i \in DOMAIN waiters : waiters[i] \in Calls /\ call[waiters[i]] = "waiting"
    BY DEF QueueInv
  <1>3. QueueInv'
    BY <1>1, <1>2 DEF QueueInv, Admitted
  <1>4. \A d \in Calls : (call'[d] \notin {"idle", "waiting"})
                           <=> (call[d] \notin {"idle", "waiting"})
    BY <1>1 DEF Admitted
  <1> QED
    BY <1>3, <1>4 DEF Entered

\* The handler of an exception leads to the next attempt, to a reset or to the answer.
LEMMA HandleKeeps ==
  ASSUME Inv, NEW c \in Calls, call[c] \in {"posting", "backoff"}, NEW severe \in BOOLEAN,
         Handle(c, severe), UNCHANGED <<waiters, session, sent>>,
         disconnects' \in 0..MaxDisconnects
  PROVE  Inv'
PROOF
  <1> USE DEF Admitted
  <1>1. CallTypes /\ QueueInv /\ SentInv /\ OpenedInv /\ SessionInv /\ MaxRetries \in Nat \ {0}
    BY SimulatorAssumption DEF Inv
  <1>2. /\ sent[c] \in Nat /\ sent[c] <= attempt[c] + 1 /\ attempt[c] \in 0..MaxRetries - 1
    BY <1>1 DEF CallTypes, SentInv
  <1>3. CASE ~LastAttempt(c) /\ BackOff(c)
    <2>1. /\ call' = [call EXCEPT ![c] = "backoff"]
          /\ attempt' = [attempt EXCEPT ![c] = attempt[c] + 1]
          /\ result' = result /\ global' = global /\ opened' = opened /\ closed' = closed
          /\ attempt[c] # MaxRetries - 1
      BY <1>3 DEF BackOff, LastAttempt, sessionVars
    <2>2. attempt[c] + 1 \in 0..MaxRetries - 1
      BY <1>1, <1>2, <2>1
    <2>3. CallTypes'
      BY <1>1, <2>1, <2>2 DEF CallTypes, States
    <2>4. QueueInv' /\ Entered' = Entered
      BY <1>1, <2>1, CallMoves
    <2>5. SentInv'
      BY <1>1, <1>2, <2>1 DEF SentInv, CallTypes
    <2>6. OpenedInv'
      BY <1>1, <2>1, <2>4 DEF OpenedInv
    <2>7. Closing' <=> Closing
      BY <1>1, <2>1 DEF Closing, CallTypes
    <2>8. SessionInv'
      BY <1>1, <2>1, <2>7 DEF SessionInv
    <2> QED
      BY <2>3, <2>4, <2>5, <2>6, <2>8 DEF Inv
  <1>4. CASE /\ call' = [call EXCEPT ![c] = "answered"]
             /\ result' = [result EXCEPT ![c] = "error"]
             /\ attempt' = attempt /\ opened' = opened
             /\ \/ closed' = closed /\ global' = global
                \/ closed' = (IF Reusable THEN closed \cup {global} ELSE closed) /\ global' = 0
    <2>1. CallTypes'
      BY <1>1, <1>4 DEF CallTypes, States
    <2>2. QueueInv' /\ Entered' = Entered
      BY <1>1, <1>4, CallMoves
    <2>3. SentInv'
      BY <1>1, <1>4 DEF SentInv, CallTypes
    <2>4. OpenedInv'
      BY <1>1, <1>4, <2>2 DEF OpenedInv
    <2>5. Closing' <=> Closing
      BY <1>1, <1>4 DEF Closing, CallTypes
    <2>6. SessionInv'
      <3>1. CASE closed' = closed /\ global' = global
        BY <1>1, <1>4, <2>5, <3>1 DEF SessionInv
      <3>2. CASE Reusable /\ closed' = closed \cup {global} /\ global' = 0
        <4>1. closed' \subseteq 1..opened /\ closed' # {}
          BY <1>1, <3>2 DEF SessionInv, OpenedInv, Reusable
        <4>2. 0 \notin closed' /\ 0 <= opened
          BY <1>1, <4>1 DEF OpenedInv
        <4> QED
          BY <1>4, <2>5, <3>2, <4>1, <4>2 DEF SessionInv
      <3>3. CASE ~Reusable /\ closed' = closed /\ global' = 0
        <4>1. closed = {} => opened = 0
          BY <1>1, <3>3 DEF SessionInv, Reusable
        <4>2. 0 \notin closed /\ 0 <= opened
          BY <1>1 DEF OpenedInv, SessionInv
        <4> QED
          BY <1>1, <1>4, <2>5, <3>3, <4>1, <4>2 DEF SessionInv
      <3> QED
        BY <1>4, <3>1, <3>2, <3>3
    <2> QED
      BY <2>1, <2>2, <2>3, <2>4, <2>6 DEF Inv
  <1>5. CASE /\ call' = [call EXCEPT ![c] = "closing"] /\ Reusable
             /\ result' = result /\ attempt' = attempt /\ opened' = opened
             /\ closed' = closed \cup {global} /\ global' = global
    <2>1. CallTypes'
      BY <1>1, <1>5 DEF CallTypes, States
    <2>2. QueueInv' /\ Entered' = Entered
      BY <1>1, <1>5, CallMoves
    <2>3. SentInv'
      BY <1>1, <1>5 DEF SentInv, CallTypes
    <2>4. OpenedInv'
      BY <1>1, <1>5, <2>2 DEF OpenedInv
    <2>5. Closing'
      BY <1>1, <1>5 DEF Closing, CallTypes
    <2>6. SessionInv'
      BY <1>1, <1>5, <2>5 DEF SessionInv, Reusable, OpenedInv
    <2> QED
      BY <2>1, <2>2, <2>3, <2>4, <2>6 DEF Inv
  <1> QED
    BY <1>3, <1>4, <1>5 DEF Handle, Reset, Answer, Dropped, sessionVars

LEMMA ArriveKeeps ==
  ASSUME Inv, NEW c \in Calls, Arrive(c)
  PROVE  Inv'
PROOF
  <1>1. CallTypes /\ QueueInv /\ SentInv /\ OpenedInv /\ SessionInv
    BY DEF Inv
  <1>2. /\ call[c] = "idle" /\ call' = [call EXCEPT ![c] = "waiting"]
        /\ waiters' = Append(waiters, c)
        /\ UNCHANGED <<attempt, session, sent, result, global, opened, closed, disconnects>>
    BY DEF Arrive, sessionVars
  <1>3. CallTypes'
    BY <1>1, <1>2 DEF CallTypes, States
  <1>4. QueueInv'
    <2>1. /\ waiters \in Seq(Calls) /\ call' \in [Calls -> States]
          /\ \A i \in 1..Len(waiters) : waiters[i] \in Calls \ {c} /\ call[waiters[i]] = "waiting"
      BY <1>1, <1>2, <1>3 DEF QueueInv, CallTypes
    <2>2. /\ waiters' \in Seq(Calls) /\ DOMAIN waiters' = 1..Len(waiters) + 1
          /\ waiters'[Len(waiters) + 1] = c /\ Len(waiters) \in Nat
          /\ \A i \in 1..Len(waiters) : waiters'[i] = waiters[i]
      BY <1>2, <2>1
    <2>3. \A i \in DOMAIN waiters' : call'[waiters'[i]] = "waiting"
      BY <1>1, <1>2, <2>1, <2>2 DEF CallTypes
    <2>4. \A i, j \in DOMAIN waiters' : waiters'[i] = waiters'[j] => i = j
      <3>1. ASSUME NEW i \in DOMAIN waiters', NEW j \in DOMAIN waiters', waiters'[i] = waiters'[j]
            PROVE  i = j
        <4>1. \A k \in DOMAIN waiters' : k \in 1..Len(waiters) \/ k = Len(waiters) + 1
          BY <2>2
        <4>2. CASE i \in 1..Len(waiters) /\ j \in 1..Len(waiters)
          BY <1>1, <2>2, <3>1, <4>2 DEF QueueInv
        <4> QED
          BY <2>1, <2>2, <3>1, <4>1, <4>2
      <3> QED
        BY <3>1
    <2> QED
      BY <2>2, <2>3, <2>4 DEF QueueInv
  <1>5. SentInv'
    BY <1>1, <1>2 DEF SentInv, CallTypes
  <1>6. Entered' = Entered /\ (Closing' <=> Closing)
    BY <1>1, <1>2 DEF Entered, Closing, CallTypes
  <1> QED
    BY <1>1, <1>2, <1>3, <1>4, <1>5, <1>6 DEF Inv, OpenedInv, SessionInv

LEMMA EnterKeeps ==
  ASSUME Inv, NEW c \in Calls, Enter(c)
  PROVE  Inv'
PROOF
  <1>1. CallTypes /\ QueueInv /\ SentInv /\ OpenedInv /\ SessionInv
    BY DEF Inv
  <1>2. /\ waiters # << >> /\ c = Head(waiters) /\ waiters' = Tail(waiters)
        /\ opened' = IF Reusable THEN opened ELSE opened + 1
        /\ global' = IF Reusable THEN global ELSE opened'
        /\ session' = [session EXCEPT ![c] = global']
        /\ call' = [call EXCEPT ![c] = "posting"] /\ sent' = [sent EXCEPT ![c] = 1]
        /\ UNCHANGED <<attempt, result, closed, disconnects>>
    BY DEF Enter
  <1>3. /\ waiters \in Seq(Calls) /\ Len(waiters) \in Nat /\ Len(waiters) >= 1
        /\ c = waiters[1] /\ call[c] = "waiting"
        /\ waiters' \in Seq(Calls) /\ DOMAIN waiters' = 1..Len(waiters) - 1
        /\ \A i \in 1..Len(waiters) - 1 : waiters'[i] = waiters[i + 1]
    BY <1>1, <1>2 DEF QueueInv
  <1>4. opened' \in Nat /\ opened' >= opened /\ global' \in Nat /\ global' <= opened'
    BY <1>1, <1>2 DEF OpenedInv, SessionInv
  <1>5. CallTypes'
    BY <1>1, <1>2, <1>4 DEF CallTypes, States
  <1>6. QueueInv'
    <2>1. \A i \in 1..Len(waiters) - 1 : /\ i + 1 \in DOMAIN waiters /\ 1 \in DOMAIN waiters
                                         /\ i + 1 # 1
      BY <1>3
    <2>2. \A i \in 1..Len(waiters) - 1 : waiters[i + 1] \in Calls \ {c}
                                         /\ call[waiters[i + 1]] = "waiting"
      BY <1>1, <1>3, <2>1 DEF QueueInv
    <2>3. ASSUME NEW i \in DOMAIN waiters'
          PROVE  call'[waiters'[i]] = "waiting"
      <3>1. waiters'[i] \in Calls \ {c} /\ call[waiters'[i]] = "waiting"
        BY <1>3, <2>2, <2>3
      <3>2. \A d \in Calls \ {c} : call'[d] = call[d]
        BY <1>1, <1>2 DEF CallTypes
      <3> QED
        BY <3>1, <3>2
    <2>4. ASSUME NEW i \in DOMAIN waiters', NEW j \in DOMAIN waiters', waiters'[i] = waiters'[j]
          PROVE  i = j
      <3>1. i \in 1..Len(waiters) - 1 /\ j \in 1..Len(waiters) - 1
        BY <1>3, <2>4
      <3>2. waiters[i + 1] = waiters[j + 1]
        BY <1>3, <2>4, <3>1
      <3>3. i + 1 = j + 1
        BY <1>1, <2>1, <3>1, <3>2 DEF QueueInv
      <3> QED
        BY <1>3, <3>1, <3>3
    <2> QED
      BY <1>3, <2>3, <2>4 DEF QueueInv
  <1>7. SentInv'
    <2>1. session'[c] = global' /\ sent'[c] = 1 /\ call'[c] = "posting" /\ attempt[c] \in Nat
      BY <1>1, <1>2, SimulatorAssumption DEF CallTypes
    <2>2. \A d \in Calls \ {c} :
            session'[d] = session[d] /\ sent'[d] = sent[d] /\ call'[d] = call[d]
            /\ session[d] \in Nat
      BY <1>1, <1>2 DEF CallTypes
    <2> QED
      BY <1>1, <1>2, <1>4, <2>1, <2>2 DEF SentInv, OpenedInv
  <1>8. OpenedInv'
    <2>1. Entered' = Entered \cup {c} /\ c \notin Entered /\ IsFiniteSet(Entered)
      BY <1>1, <1>2, <1>3, SimulatorAssumption, FS_Subset DEF Entered, CallTypes
    <2>2. Cardinality(Entered') = Cardinality(Entered) + 1 /\ Cardinality(Entered) \in Nat
      BY <2>1, FS_AddElement, FS_CardinalityType
    <2> QED
      BY <1>1, <1>2, <2>2 DEF OpenedInv
  <1>9. Closing' <=> Closing
    BY <1>1, <1>2, <1>3 DEF Closing, CallTypes
  <1>10. SessionInv'
    <2>1. closed \subseteq 1..opened' /\ (global' \in closed => global \in closed)
      BY <1>1, <1>2, <1>4 DEF SessionInv, OpenedInv, Reusable
    <2>2. closed = {} => global' = opened' /\ opened' <= 1
      BY <1>1, <1>2 DEF SessionInv, OpenedInv, Reusable
    <2> QED
      BY <1>1, <1>2, <1>4, <1>9, <2>1, <2>2 DEF SessionInv
  <1> QED
    BY <1>5, <1>6, <1>7, <1>8, <1>10 DEF Inv

LEMMA RespondKeeps ==
  ASSUME Inv, NEW c \in Calls, Respond(c)
  PROVE  Inv'
PROOF
  <1>1. CallTypes /\ QueueInv /\ SentInv /\ OpenedInv /\ SessionInv
    BY DEF Inv
  <1>2. /\ call[c] = "posting" /\ call' = [call EXCEPT ![c] = "answered"]
        /\ \E r \in {"content", "refused"} : result' = [result EXCEPT ![c] = r]
        /\ UNCHANGED <<waiters, attempt, session, sent, global, opened, closed, disconnects>>
    BY DEF Respond, Answer, sessionVars
  <1>3. CallTypes'
    BY <1>1, <1>2 DEF CallTypes, States
  <1>4. QueueInv' /\ Entered' = Entered
    BY <1>1, <1>2, CallMoves DEF Admitted
  <1>5. SentInv'
    BY <1>1, <1>2 DEF SentInv, CallTypes
  <1>6. Closing' <=> Closing
    BY <1>1, <1>2 DEF Closing, CallTypes
  <1> QED
    BY <1>1, <1>2, <1>3, <1>4, <1>5, <1>6 DEF Inv, OpenedInv, SessionInv

\* The next attempt is sent on a session that is still open.
LEMMA RetrySends ==
  ASSUME Inv, NEW c \in Calls, Retry(c), session[c] \notin closed
  PROVE  Inv'
PROOF
  <1>1. CallTypes /\ QueueInv /\ SentInv /\ OpenedInv /\ SessionInv
    BY DEF Inv
  <1>2. /\ call[c] = "backoff" /\ call' = [call EXCEPT ![c] = "posting"]
        /\ sent' = [sent EXCEPT ![c] = sent[c] + 1]
        /\ UNCHANGED <<waiters, attempt, session, result, global, opened, closed, disconnects>>
    BY DEF Retry, sessionVars
  <1>3. sent[c] \in Nat /\ attempt[c] \in Nat /\ sent[c] <= attempt[c]
    BY <1>1, <1>2, SimulatorAssumption DEF CallTypes, SentInv
  <1>4. CallTypes'
    BY <1>1, <1>2, <1>3 DEF CallTypes, States
  <1>5. QueueInv' /\ Entered' = Entered
    BY <1>1, <1>2, CallMoves DEF Admitted
  <1>6. SentInv'
    BY <1>1, <1>2, <1>3 DEF SentInv, CallTypes
  <1>7. Closing' <=> Closing
    BY <1>1, <1>2 DEF Closing, CallTypes
  <1> QED
    BY <1>1, <1>2, <1>4, <1>5, <1>6, <1>7 DEF Inv, OpenedInv, SessionInv

\* When close() returns, the class forgets its session: also one created meanwhile.
LEMMA ClosedKeeps ==
  ASSUME Inv, NEW c \in Calls, Closed(c)
  PROVE  Inv'
PROOF
  <1>1. CallTypes /\ QueueInv /\ SentInv /\ OpenedInv /\ SessionInv
    BY DEF Inv
  <1>2. /\ call[c] = "closing" /\ call' = [call EXCEPT ![c] = "answered"]
        /\ result' = [result EXCEPT ![c] = "error"] /\ global' = 0
        /\ UNCHANGED <<waiters, attempt, session, sent, opened, closed, disconnects>>
    BY DEF Closed, CloseEnds, Answer, Dropped
  <1>3. CallTypes'
    BY <1>1, <1>2 DEF CallTypes, States
  <1>4. QueueInv' /\ Entered' = Entered
    BY <1>1, <1>2, CallMoves DEF Admitted
  <1>5. SentInv'
    BY <1>1, <1>2 DEF SentInv, CallTypes
  <1>6. closed # {} /\ 0 \notin closed /\ 0 <= opened
    BY <1>1, <1>2 DEF SessionInv, OpenedInv, Closing
  <1>7. SessionInv'
    BY <1>1, <1>2, <1>6 DEF SessionInv
  <1> QED
    BY <1>1, <1>2, <1>3, <1>4, <1>5, <1>7 DEF Inv, OpenedInv

LEMMA StepInv == Inv /\ [Next]_vars => Inv'
PROOF
  <1> SUFFICES ASSUME Inv, [Next]_vars
               PROVE  Inv'
    OBVIOUS
  <1>1. disconnects \in 0..MaxDisconnects /\ MaxDisconnects \in Nat
    BY SimulatorAssumption DEF Inv, CallTypes
  <1>2. ASSUME NEW c \in Calls, Error(c)
        PROVE  Inv'
    <2>1. /\ call[c] = "posting" /\ Handle(c, FALSE)
          /\ UNCHANGED <<waiters, session, sent, disconnects>>
      BY <1>2 DEF Error
    <2> QED
      BY <1>1, <2>1, HandleKeeps
  <1>3. ASSUME NEW c \in Calls, Disconnect(c)
        PROVE  Inv'
    <2>1. /\ call[c] = "posting" /\ Handle(c, TRUE)
          /\ UNCHANGED <<waiters, session, sent>>
          /\ \/ disconnects' = disconnects
             \/ disconnects < MaxDisconnects /\ disconnects' = disconnects + 1
      BY <1>3 DEF Disconnect
    <2>2. disconnects' \in 0..MaxDisconnects
      BY <1>1, <2>1
    <2> QED
      BY <2>1, <2>2, HandleKeeps
  <1>4. ASSUME NEW c \in Calls, Retry(c), session[c] \in closed
        PROVE  Inv'
    <2>1. /\ call[c] = "backoff" /\ Handle(c, FALSE)
          /\ UNCHANGED <<waiters, session, sent, disconnects>>
      BY <1>4 DEF Retry
    <2> QED
      BY <1>1, <2>1, HandleKeeps
  <1>5. CASE UNCHANGED vars
    BY <1>5 DEF vars, callVars, sessionVars, Inv, CallTypes, QueueInv, SentInv, OpenedInv,
                SessionInv, Entered, Closing
  <1> QED
    BY <1>2, <1>3, <1>4, <1>5, ArriveKeeps, EnterKeeps, RespondKeeps, RetrySends, ClosedKeeps
    DEF Next

LEMMA Invariance == Spec => []Inv
  <1> QED
    BY InitInv, StepInv, PTL DEF Spec

\* All calls of a process share one session until one is reset, no call creates more
\* than one or sends more than its attempts, and the class holds a closed session only
\* while it is being closed (video_analysis_tools.py 53-60, 102-132).
THEOREM SharedSession == Spec => []SessionShared
PROOF
  <1>1. Inv => SessionShared
    <2> SUFFICES ASSUME Inv
                 PROVE  SessionShared
      OBVIOUS
    <2>1. CallTypes /\ QueueInv /\ SentInv /\ OpenedInv /\ SessionInv
      BY DEF Inv
    <2>2. opened \in 0..Cardinality(Calls)
      <3>1. Entered \in SUBSET Calls
        BY DEF Entered
      <3>2. Cardinality(Entered) \in Nat /\ Cardinality(Calls) \in Nat
            /\ Cardinality(Entered) <= Cardinality(Calls)
        BY <3>1, SimulatorAssumption, FS_Subset, FS_CardinalityType
      <3> QED
        BY <2>1, <3>2 DEF OpenedInv
    <2>3. \A c \in Calls : session[c] \in 0..opened /\ sent[c] \in 0..MaxRetries
      BY <2>1, SimulatorAssumption DEF CallTypes, SentInv, OpenedInv
    <2>4. TypeOK
      BY <2>1, <2>2, <2>3 DEF TypeOK, CallTypes, States, QueueInv, SessionInv, OpenedInv
    <2>5. SharedUntilReset
      <3>1. closed = {} => Open = 1..opened /\ opened \in {0, 1}
        BY <2>1 DEF Open, SessionInv, OpenedInv
      <3>2. opened \in {0, 1} => Cardinality(1..opened) <= 1
        BY FS_Interval
      <3> QED
        BY <3>1, <3>2 DEF SharedUntilReset
    <2>6. ClosedIsForgotten
      BY <2>1 DEF ClosedIsForgotten, SessionInv, Closing
    <2> QED
      BY <2>4, <2>5, <2>6 DEF SessionShared
  <1> QED
    BY <1>1, Invariance, PTL
=============================================================================
