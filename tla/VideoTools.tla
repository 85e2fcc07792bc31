----------------------------- MODULE VideoTools -----------------------------
(***************************************************************************)
(* The video tools' calls to the simulator: _call_simulator_api.           *)
(*                                                                         *)
(* All calls of a process share a semaphore, held through every retry and  *)
(* back-off, and one HTTP session.  A call whose last attempt loses its    *)
(* connection closes the session the class holds at that moment; requests  *)
(* in flight on a closed session are lost, later ones are refused at once. *)
(* Between two awaits the event loop runs nothing else.                    *)
(***************************************************************************)
EXTENDS Naturals, Sequences, FiniteSets

CONSTANTS
  Calls,
  Permits,         \* of the semaphore: 10
  MaxRetries,      \* max_retries: 3
  MaxDisconnects   \* bound on the connections the simulator resets

ASSUME SimulatorAssumption ==
  /\ Permits \in Nat \ {0} /\ MaxRetries \in Nat \ {0} /\ MaxDisconnects \in Nat
  /\ IsFiniteSet(Calls)

VARIABLES
  call,        \* "idle", "waiting", "posting", "backoff", "closing", "answered"
  waiters,     \* the semaphore's queue
  attempt,
  session,     \* the session a call uses
  sent,        \* requests of a call that were sent
  result,      \* "none", "content", "refused" (status below 500), "error"
  global,      \* _global_session, 0 for None
  opened,      \* sessions created so far
  closed,      \* sessions that are closed
  disconnects

callVars == <<call, attempt, session, sent, result>>
sessionVars == <<global, opened, closed>>
vars == <<callVars, waiters, sessionVars, disconnects>>

Init ==
  /\ call = [c \in Calls |-> "idle"] /\ waiters = << >>
  /\ attempt = [c \in Calls |-> 0] /\ session = [c \in Calls |-> 0]
  /\ sent = [c \in Calls |-> 0] /\ result = [c \in Calls |-> "none"]
  /\ global = 0 /\ opened = 0 /\ closed = {} /\ disconnects = 0

Inside == {c \in Calls : call[c] \in {"posting", "backoff", "closing"}}

Arrive(c) ==
  /\ call[c] = "idle"
  /\ call' = [call EXCEPT ![c] = "waiting"]
  /\ waiters' = Append(waiters, c)
  /\ UNCHANGED <<attempt, session, sent, result, sessionVars, disconnects>>

Reusable == global # 0 /\ global \notin closed

\* The permit is taken, the session fetched or created, and the first request sent.
Enter(c) ==
  /\ waiters # << >> /\ c = Head(waiters) /\ Cardinality(Inside) < Permits
  /\ waiters' = Tail(waiters)
  /\ opened' = IF Reusable THEN opened ELSE opened + 1
  /\ global' = IF Reusable THEN global ELSE opened'
  /\ session' = [session EXCEPT ![c] = global']
  /\ call' = [call EXCEPT ![c] = "posting"]
  /\ sent' = [sent EXCEPT ![c] = 1]
  /\ UNCHANGED <<attempt, result, closed, disconnects>>

Answer(c, r) ==
  /\ call' = [call EXCEPT ![c] = "answered"]
  /\ result' = [result EXCEPT ![c] = r]

LastAttempt(c) == attempt[c] = MaxRetries - 1

BackOff(c) ==
  /\ call' = [call EXCEPT ![c] = "backoff"]
  /\ attempt' = [attempt EXCEPT ![c] = @ + 1]
  /\ UNCHANGED <<result, sessionVars>>

\* mutant: the session is closed but stays in the class
KeepsClosed == global
Dropped == 0

\* The last attempt lost its connection: close whatever session the class holds now.
\* close() of an open session may suspend, as newer releases of the library do.
Reset(c) ==
  /\ closed' = IF Reusable THEN closed \cup {global} ELSE closed
  /\ \/ /\ Reusable
        /\ call' = [call EXCEPT ![c] = "closing"]
        /\ UNCHANGED <<result, global>>
     \/ global' = Dropped /\ Answer(c, "error")
  /\ UNCHANGED <<attempt, opened>>

\* The handler of an exception, of a kind that is severe or not.
Handle(c, severe) ==
  \/ ~LastAttempt(c) /\ BackOff(c)
  \/ LastAttempt(c) /\ severe /\ Reset(c)
  \/ LastAttempt(c) /\ ~severe /\ Answer(c, "error") /\ UNCHANGED <<attempt, sessionVars>>

\* The simulator answers a request, with content or a status below 500, ...
Respond(c) ==
  /\ call[c] = "posting" /\ session[c] \notin closed
  /\ Answer(c, "content") \/ Answer(c, "refused")
  /\ UNCHANGED <<waiters, attempt, session, sent, sessionVars, disconnects>>

\* ... fails it: a status of 500 or more, a timeout, a body that is no answer, ...
Error(c) ==
  /\ call[c] = "posting" /\ session[c] \notin closed
  /\ Handle(c, FALSE)
  /\ UNCHANGED <<waiters, session, sent, disconnects>>

\* ... or resets the connection, as closing the session does with those it has.
Disconnect(c) ==
  /\ call[c] = "posting"
  /\ \/ session[c] \in closed /\ UNCHANGED disconnects
     \/ /\ session[c] \notin closed /\ disconnects < MaxDisconnects
        /\ disconnects' = disconnects + 1
  /\ Handle(c, TRUE)
  /\ UNCHANGED <<waiters, session, sent>>

\* The back-off is over: a closed session refuses the request before it is sent.
Retry(c) ==
  /\ call[c] = "backoff"
  /\ IF session[c] \in closed
     THEN Handle(c, FALSE) /\ UNCHANGED sent
     ELSE /\ call' = [call EXCEPT ![c] = "posting"]
          /\ sent' = [sent EXCEPT ![c] = @ + 1]
          /\ UNCHANGED <<attempt, result, sessionVars>>
  /\ UNCHANGED <<waiters, session, disconnects>>

StuckClosing(c) == FALSE                      \* mutant: the reset path keeps the permit
CloseEnds(c) == call[c] = "closing"

\* close() returns: the class forgets its session, whichever that is by now.
Closed(c) ==
  /\ CloseEnds(c)
  /\ global' = Dropped
  /\ Answer(c, "error")
  /\ UNCHANGED <<waiters, attempt, session, sent, opened, closed, disconnects>>

Next == \E c \in Calls :
  \/ Arrive(c) \/ Enter(c) \/ Respond(c) \/ Error(c) \/ Disconnect(c) \/ Retry(c) \/ Closed(c)

Spec == Init /\ [][Next]_vars

\* A request always ends: the session has a total timeout.
FairSpec == Spec /\ \A c \in Calls :
  /\ WF_vars(Enter(c)) /\ WF_vars(Retry(c)) /\ WF_vars(Closed(c))
  /\ WF_vars(Respond(c) \/ Error(c) \/ Disconnect(c))

-----------------------------------------------------------------------------
Open == (1..opened) \ closed

TypeOK ==
  /\ call \in [Calls -> {"idle", "waiting", "posting", "backoff", "closing", "answered"}]
  /\ waiters \in Seq(Calls) /\ attempt \in [Calls -> 0..MaxRetries - 1]
  /\ session \in [Calls -> 0..opened] /\ sent \in [Calls -> 0..MaxRetries]
  /\ result \in [Calls -> {"none", "content", "refused", "error"}]
  /\ global \in 0..opened /\ opened \in 0..Cardinality(Calls) /\ closed \subseteq 1..opened
  /\ disconnects \in 0..MaxDisconnects

\* Every call gets its answer, however the calls before it fail: the semaphore and the
\* session are given back on every path (102, 121-132).
EveryCallAnswers == \A c \in Calls : call[c] = "waiting" ~> call[c] = "answered"

\* A session is shared by all calls, and a second one exists only after a reset (53-60).
SharedUntilReset == closed = {} => Cardinality(Open) <= 1

\* The class does not hold on to a closed session once those who closed it are done.
ClosedIsForgotten ==
  global \in closed => \E c \in Calls : call[c] = "closing"

\* The session the tools share is one, and an open one, but for the time of a reset.
SessionShared == TypeOK /\ SharedUntilReset /\ ClosedIsForgotten
=============================================================================
