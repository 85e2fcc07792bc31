-------------------------- MODULE GenerationService --------------------------
(***************************************************************************)
(* What the generation service of partial rollout promises the rollouter.  *)
(* A sample is a group of agent loops, each with its own response.  One    *)
(* call extends each unfinished response of a sample by a run of tokens,   *)
(* possibly empty, and leaves the finished ones alone.  All the tokens of  *)
(* a call are written by one version of the weights: no call that has      *)
(* tokens to show is under way when the weights change.                    *)
(***************************************************************************)
EXTENDS Naturals, Sequences, FiniteSets

CONSTANTS
  Samples,
  Group,            \* the agent loops of a sample (rollout.n)
  ResponseLength    \* rollout.response_length

VARIABLES
  status,           \* of a sample: "waiting", "served", "complete", "failed"
  written,          \* samples whose call has answered with tokens so far
  response,         \* of a loop: the version of the weights behind each token kept
  finished,         \* loops whose response will not be extended
  version           \* of the weights

serviceVars == <<status, written, response, finished, version>>

Loops == Samples \X Group
GroupOf(s) == {s} \X Group

ServiceInit ==
  /\ status = [s \in Samples |-> "waiting"] /\ written = {}
  /\ response = [l \in Loops |-> << >>]
  /\ finished = {}
  /\ version = 0

Serve(s) ==
  /\ status[s] = "waiting"
  /\ status' = [status EXCEPT ![s] = "served"]
  /\ UNCHANGED <<written, response, finished, version>>

\* A loop of the sample answers.
Extend(l) ==
  /\ l \notin finished /\ status[l[1]] = "served"
  /\ \E n \in 0..ResponseLength - Len(response[l]) :
       /\ response' = [response EXCEPT ![l] = @ \o [i \in 1..n |-> version]]
       /\ finished' \in {finished, finished \cup {l}}
       /\ written' = IF n > 0 THEN written \cup {l[1]} ELSE written
  /\ UNCHANGED <<status, version>>

\* The call returns: complete when every response of the group is finished.
Return(s) ==
  /\ status[s] = "served"
  /\ status' = [status EXCEPT ![s] = IF GroupOf(s) \subseteq finished THEN "complete"
                                     ELSE "waiting"]
  /\ written' = written \ {s}
  /\ UNCHANGED <<response, finished, version>>

\* The call fails, and the sample with all its responses is lost.
Abandon(s) ==
  /\ status[s] = "served"
  /\ status' = [status EXCEPT ![s] = "failed"]
  /\ written' = written \ {s}
  /\ response' = [l \in Loops |-> IF l[1] = s THEN << >> ELSE response[l]]
  /\ finished' = finished \ GroupOf(s)
  /\ UNCHANGED version

NewWeights ==
  /\ written = {}
  /\ version' = version + 1
  /\ UNCHANGED <<status, written, response, finished>>

ServiceNext ==
  \/ \E s \in Samples : Serve(s) \/ Return(s) \/ Abandon(s)
  \/ \E l \in Loops : Extend(l)
  \/ NewWeights

ServiceSpec == ServiceInit /\ [][ServiceNext]_serviceVars
=============================================================================
