--------------------------- MODULE PartialService ---------------------------
(***************************************************************************)
(* Partial rollout: the agent loop workers and the vLLM servers.           *)
(*                                                                         *)
(* The rollouter submits a sample; the worker runs the agent loops of its  *)
(* group concurrently; each sends one request to a server.  To change the  *)
(* weights the manager pauses the servers one by one: an open request      *)
(* answers with the tokens it has, a new one is turned away.  An           *)
(* interrupted loop is resumed later from the tokens it kept.  The monitor *)
(* may have the rollouter submit samples again before the servers resume.  *)
(*                                                                         *)
(* A server's lock is never held across an await, so each half of its      *)
(* request handler, before and after the wait, is one step.  A token is    *)
(* its position in the answer, the version of the weights behind it, and   *)
(* whether it ends the answer.                                             *)
(***************************************************************************)
EXTENDS Naturals, Sequences, FiniteSets, SequencesExt

CONSTANTS
  Servers, Samples, Group,
  ResponseLength,   \* rollout.response_length
  ModelLength,      \* what max_model_len leaves for the answer
  MaxPauses,        \* bound on cancel() calls
  MaxFailures       \* bound on generations that raise

ASSUME ServiceAssumption ==
  /\ ResponseLength \in Nat \ {0} /\ ModelLength \in Nat \ {0}
  /\ MaxPauses \in Nat /\ MaxFailures \in Nat /\ Servers # {}
  /\ IsFiniteSet(Samples) /\ IsFiniteSet(Group)

VARIABLES
  sample,      \* "ready", "busy", "complete", "failed"
  loop,        \* of an agent loop: "idle", "sent", "open", "raised", "ended"
  server,      \* the server an open request is at
  given,       \* tokens of the answer that the request's prompt ends with
  output,      \* req_output: the tokens generated by the request so far
  generated,   \* generation_handle is done
  answer,      \* AgentLoopOutput: response, is_cancel and the versions it spans
  paused,      \* of a server
  cancelled,   \* open requests whose cancel_event is set
  entries,     \* of a server: how many keys cancel_event and req_output hold
  phase,       \* of a synchronization: "run", "cancel", "drain", "transfer", "update", "resume"
  version,     \* of the weights in the servers
  reported,    \* current_param_version: the version the rollouter labels samples with
  pauses, failures

callVars == <<sample, answer>>
requestVars == <<loop, server, given, output, generated, cancelled, entries>>
pauseVars == <<paused, phase, version, reported, pauses>>
vars == <<callVars, requestVars, pauseVars, failures>>

Loops == Samples \X Group
GroupOf(s) == {s} \X Group
NewAnswer == [response |-> << >>, isCancel |-> TRUE, begun |-> FALSE, start |-> 0, end |-> 0]
Token == [pos : Nat, ver : Nat, last : BOOLEAN]

Init ==
  /\ sample = [s \in Samples |-> "ready"]
  /\ loop = [l \in Loops |-> "idle"]
  /\ server = [l \in Loops |-> CHOOSE v \in Servers : TRUE]
  /\ given = [l \in Loops |-> 0]
  /\ output = [l \in Loops |-> << >>]
  /\ generated = {} /\ cancelled = {}
  /\ answer = [l \in Loops |-> NewAnswer]
  /\ paused = [v \in Servers |-> FALSE]
  /\ entries = [v \in Servers |-> 0]
  /\ phase = "run" /\ version = 0 /\ reported = 0 /\ pauses = 0 /\ failures = 0

-----------------------------------------------------------------------------
(* The worker.                                                             *)

\* A loop that is not cancelled is returned directly; the others run again.  The
\* first run of a loop fixes the version it starts at.
FirstRun(l) == ~answer[l].begun
RunsAgain(l) == answer[l].isCancel

PromptOnly(l) == 0                            \* mutant: resumes from the prompt
ResumedTokens(l) == Len(answer[l].response)

Span(l) == [answer[l] EXCEPT !.start = IF FirstRun(l) THEN reported ELSE @,
                             !.end = reported, !.begun = TRUE]

\* The rollouter's task calls generate_single_sample_async.  pause() keeps new tasks out
\* with its lock; after it, a monitor's late lift of the pause lets them in again.
Submit(s) ==
  /\ phase \notin {"cancel", "drain"} /\ sample[s] = "ready"
  /\ sample' = [sample EXCEPT ![s] = "busy"]
  /\ LET again == {l \in GroupOf(s) : RunsAgain(l)} IN
       /\ loop' = [l \in Loops |-> IF l \in again THEN "sent" ELSE loop[l]]
       /\ given' = [l \in Loops |-> IF l \in again THEN ResumedTokens(l) ELSE given[l]]
       /\ answer' = [l \in Loops |-> IF l \in again THEN Span(l) ELSE answer[l]]
  /\ UNCHANGED <<server, output, generated, cancelled, entries, pauseVars, failures>>

\* What the agent loop makes of the server's reply.
KeptAll(l, tokens, isCancel) ==               \* mutant: the length is not looked at
  [answer[l] EXCEPT !.response = @ \o tokens, !.isCancel = isCancel]
Joined(l, tokens, isCancel) ==
  LET whole == answer[l].response \o tokens IN
  [answer[l] EXCEPT !.response = SubSeq(whole, 1, Min({Len(whole), ResponseLength})),
                    !.isCancel = isCancel /\ Len(whole) < ResponseLength]

Ends(l, tokens, isCancel) ==
  /\ loop' = [loop EXCEPT ![l] = "ended"]
  /\ answer' = [answer EXCEPT ![l] = Joined(l, tokens, isCancel)]

GroupCancelled(s) == \E l \in GroupOf(s) : answer[l].isCancel

\* Every loop of the group is done: the sample is complete, or handed back whole.
Collect(s) ==
  /\ sample[s] = "busy" /\ \A l \in GroupOf(s) : loop[l] \in {"idle", "ended"}
  /\ sample' = [sample EXCEPT ![s] = IF GroupCancelled(s) THEN "ready" ELSE "complete"]
  /\ loop' = [l \in Loops |-> IF l[1] = s THEN "idle" ELSE loop[l]]
  /\ UNCHANGED <<answer, server, given, output, generated, cancelled, entries, pauseVars,
                 failures>>

\* gather raises the first exception: the sample fails, the other loops go on.
Raise(s) ==
  /\ sample[s] = "busy" /\ \E l \in GroupOf(s) : loop[l] = "raised"
  /\ sample' = [sample EXCEPT ![s] = "failed"]
  /\ UNCHANGED <<answer, requestVars, pauseVars, failures>>

-----------------------------------------------------------------------------
(* A server: generate_for_partial.                                         *)

\* The request reaches a paused server: it answers at once with nothing.
Bounce(l, v) ==
  /\ loop[l] = "sent" /\ paused[v]
  /\ Ends(l, << >>, TRUE)
  /\ UNCHANGED <<sample, server, given, output, generated, cancelled, entries, pauseVars,
                 failures>>

Open(l, v) ==
  /\ loop[l] = "sent" /\ ~paused[v]
  /\ loop' = [loop EXCEPT ![l] = "open"]
  /\ server' = [server EXCEPT ![l] = v]
  /\ entries' = [entries EXCEPT ![v] = @ + 1]
  /\ UNCHANGED <<callVars, given, output, generated, cancelled, pauseVars, failures>>

Running(l) == loop[l] = "open" /\ l \notin generated

\* The engine yields: another token, and with the last one the generation is done.
Yield(l) ==
  /\ Running(l) /\ given[l] + Len(output[l]) < ModelLength
  /\ LET position == given[l] + Len(output[l]) + 1 IN
     \E last \in IF position = ModelLength THEN {TRUE} ELSE BOOLEAN :
       /\ output' = [output EXCEPT ![l] =
                       Append(@, [pos |-> position, ver |-> version, last |-> last])]
       /\ generated' = IF last THEN generated \cup {l} ELSE generated
  /\ UNCHANGED <<callVars, loop, server, given, cancelled, entries, pauseVars, failures>>

Interrupted(l) == l \notin generated

NeverPops(l) == FALSE                         \* mutant: the keys are never popped
Pops(l) == output[l] # << >>

\* The wait is over.  Without a token yet, the keys of the request stay behind.
Wake(l) ==
  /\ loop[l] = "open" /\ l \in generated \cup cancelled
  /\ Ends(l, output[l], Interrupted(l))
  /\ entries' = [entries EXCEPT ![server[l]] = IF Pops(l) THEN @ - 1 ELSE @]
  /\ generated' = generated \ {l} /\ cancelled' = cancelled \ {l}
  /\ output' = [output EXCEPT ![l] = << >>]
  /\ UNCHANGED <<sample, server, given, pauseVars, failures>>

\* The generation raises; its keys stay behind too.
Fail(l) ==
  /\ Running(l) /\ failures < MaxFailures
  /\ failures' = failures + 1
  /\ loop' = [loop EXCEPT ![l] = "raised"]
  /\ cancelled' = cancelled \ {l}
  /\ output' = [output EXCEPT ![l] = << >>]
  /\ UNCHANGED <<callVars, server, given, generated, entries, pauseVars>>

-----------------------------------------------------------------------------
(* The pause, as the synchronizer and the rollouter drive it.              *)

PauseBegin ==
  /\ phase = "run" /\ pauses < MaxPauses
  /\ phase' = "cancel" /\ pauses' = pauses + 1
  /\ UNCHANGED <<callVars, requestVars, paused, version, reported, failures>>

SetsNothing(v) == {}                          \* mutant: running requests are left alone
CancelSets(v) == {l \in Loops : loop[l] = "open" /\ server[l] = v}

\* cancel() at one server.
Cancel(v) ==
  /\ phase = "cancel" /\ ~paused[v]
  /\ paused' = [paused EXCEPT ![v] = TRUE]
  /\ cancelled' = cancelled \cup CancelSets(v)
  /\ UNCHANGED <<callVars, loop, server, given, output, generated, entries, phase, version,
                 reported, pauses, failures>>

AllCancelled ==
  /\ phase = "cancel" /\ \A v \in Servers : paused[v]
  /\ phase' = "drain"
  /\ UNCHANGED <<callVars, requestVars, paused, version, reported, pauses, failures>>

DrainedAtOnce == TRUE                         \* mutant: the tasks are not gathered
Drained == \A s \in Samples : sample[s] # "busy"

\* Every task of the rollouter has returned, and so does pause().
AllDrained ==
  /\ phase = "drain" /\ Drained
  /\ phase' = "transfer"
  /\ UNCHANGED <<callVars, requestVars, paused, version, reported, pauses, failures>>

SyncWeights ==
  /\ phase = "transfer"
  /\ version' = version + 1 /\ phase' = "update"
  /\ UNCHANGED <<callVars, requestVars, paused, reported, pauses, failures>>

\* update_param_version, on whose return resume() waits.
UpdateVersion ==
  /\ phase = "update"
  /\ reported' = version /\ phase' = "resume"
  /\ UNCHANGED <<callVars, requestVars, paused, version, pauses, failures>>

Resume(v) ==
  /\ phase = "resume" /\ paused[v]
  /\ paused' = [paused EXCEPT ![v] = FALSE]
  /\ UNCHANGED <<callVars, requestVars, phase, version, reported, pauses, failures>>

AllResumed ==
  /\ phase = "resume" /\ \A v \in Servers : ~paused[v]
  /\ phase' = "run"
  /\ UNCHANGED <<callVars, requestVars, paused, version, reported, pauses, failures>>

-----------------------------------------------------------------------------
Next ==
  \/ \E s \in Samples : Submit(s) \/ Collect(s) \/ Raise(s)
  \/ \E l \in Loops : Yield(l) \/ Wake(l) \/ Fail(l)
  \/ \E l \in Loops, v \in Servers : Bounce(l, v) \/ Open(l, v)
  \/ PauseBegin \/ AllCancelled \/ AllDrained \/ SyncWeights \/ UpdateVersion \/ AllResumed
  \/ \E v \in Servers : Cancel(v) \/ Resume(v)

Spec == Init /\ [][Next]_vars

\* The handlers, the workers and the pause always get on; the engine need not.
Fairness ==
  /\ \A s \in Samples : WF_vars(Collect(s)) /\ WF_vars(Raise(s))
  /\ \A l \in Loops : WF_vars(Wake(l)) /\ WF_vars(\E v \in Servers : Bounce(l, v) \/ Open(l, v))
  /\ \A v \in Servers : WF_vars(Cancel(v)) /\ WF_vars(Resume(v))
  /\ WF_vars(AllCancelled) /\ WF_vars(AllDrained) /\ WF_vars(SyncWeights)
  /\ WF_vars(UpdateVersion) /\ WF_vars(AllResumed)

FairSpec == Spec /\ Fairness

-----------------------------------------------------------------------------
TypeOK ==
  /\ sample \in [Samples -> {"ready", "busy", "complete", "failed"}]
  /\ loop \in [Loops -> {"idle", "sent", "open", "raised", "ended"}]
  /\ server \in [Loops -> Servers] /\ given \in [Loops -> Nat]
  /\ output \in [Loops -> Seq(Token)]
  /\ generated \subseteq Loops /\ cancelled \subseteq Loops
  /\ answer \in [Loops -> [response : Seq(Token), isCancel : BOOLEAN, begun : BOOLEAN,
                           start : Nat, end : Nat]]
  /\ paused \in [Servers -> BOOLEAN] /\ entries \in [Servers -> Nat]
  /\ \A l \in Loops : /\ Len(answer[l].response) <= ResponseLength
                      /\ loop[l] # "open" => output[l] = << >> /\ l \notin generated \cup cancelled
  /\ phase \in {"run", "cancel", "drain", "transfer", "update", "resume"}
  /\ version \in Nat /\ reported \in Nat /\ pauses \in Nat /\ failures \in Nat

\* However often a loop is interrupted, its response is what one uninterrupted
\* generation would have been made of: no token lost, repeated or out of place
\* (partial_single_turn_agent_loop.py 79, 97).
Contiguous ==
  \A l \in Loops : \A i \in DOMAIN answer[l].response : answer[l].response[i].pos = i

\* Nothing follows the end of an answer, though a cancellation may reach the request as
\* its generation ends; and no response of a complete sample stops short (115, 99).
EndsOnce ==
  \A l \in Loops :
    LET r == answer[l].response IN
    /\ \A i \in DOMAIN r : r[i].last => i = Len(r)
    /\ sample[l[1]] = "complete" => r # << >> /\ (r[Len(r)].last \/ Len(r) = ResponseLength)

\* The versions reported with a sample span the versions of the weights that wrote it,
\* also for the loops of the group that finished before the others (46-47, 81), but for
\* the one version a call's last tokens can be ahead: a sample submitted during a
\* synchronization carries the old version, and its request may arrive after resume().
SpanCoversTokens ==
  \A l \in Loops : sample[l[1]] \in {"ready", "complete"} =>
    \A i \in DOMAIN answer[l].response :
      answer[l].response[i].ver \in answer[l].start..answer[l].end + 1

\* A response is what one generation would have been: whole, ended once, and written by
\* weights at most one version past those reported with it.
ResponseWhole == TypeOK /\ Contiguous /\ EndsOnce /\ SpanCoversTokens

\* Two versions of the weights never meet in one request that a sample waits for: what
\* is submitted while they change is turned away or has not arrived.
OneVersionPerRequest ==
  \A l \in Loops : loop[l] = "open" /\ sample[l[1]] = "busy" =>
    \A i \in DOMAIN output[l] : output[l][i].ver = version

\* cancel_event and req_output grow by at most one key per loop and pause, or per
\* generation that raised (105-107: the keys are popped only after a first token).
LeakPerPause ==
  \A v \in Servers :
    /\ entries[v] >= Cardinality({l \in Loops : loop[l] = "open" /\ server[l] = v})
    /\ entries[v] <= Cardinality({l \in Loops : loop[l] = "open" /\ server[l] = v})
                     + pauses * Cardinality(Loops) + failures

\* A pause ends although no generation does: what runs is interrupted, what arrives
\* is turned away.
PauseEnds == phase = "cancel" ~> phase = "resume"

\* The workers and servers implement the service the rollouter relies on: what the
\* loops of a failed call still answer reaches nobody (138, 198).
Lost(l) == sample[l[1]] = "failed"

Written ==
  {s \in Samples : /\ sample[s] = "busy"
                   /\ \E l \in GroupOf(s) : /\ loop[l] = "ended"
                                             /\ Len(answer[l].response) > given[l]}
ServiceStatus ==
  [s \in Samples |-> IF sample[s] = "ready" THEN "waiting"
                     ELSE IF sample[s] = "busy" THEN "served" ELSE sample[s]]
KeptVersions ==
  [l \in Loops |-> IF Lost(l) THEN << >>
                   ELSE [i \in DOMAIN answer[l].response |-> answer[l].response[i].ver]]
Finished == {l \in Loops : ~answer[l].isCancel /\ ~Lost(l)}

Service == INSTANCE GenerationService WITH
  status <- ServiceStatus, written <- Written, response <- KeptVersions,
  finished <- Finished

ImplementsService == Service!ServiceSpec
=============================================================================
