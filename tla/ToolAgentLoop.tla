--------------------------- MODULE ToolAgentLoop ----------------------------
(***************************************************************************)
(* One trajectory of the tool agent: generate, run the tool calls of the   *)
(* answer concurrently, append what they returned, generate again, until a *)
(* limit is reached or an answer calls no tool.                            *)
(*                                                                         *)
(* A token is what it stands for: a token of the prompt, one the model     *)
(* generated, one of the message that answers call i, an image of that     *)
(* message, or one of a user's message.                                    *)
(***************************************************************************)
EXTENDS Naturals, Sequences, FiniteSets, SequencesExt

CONSTANTS
  PromptTokens,       \* length of this trajectory's prompt
  PromptLength,       \* rollout.prompt_length
  ResponseLength,     \* rollout.response_length
  ModelLength,        \* rollout.max_model_len
  MaxAssistantTurns,  \* 0: no limit
  MaxUserTurns,       \* 0: no limit
  MaxParallelCalls,
  LogProbs,           \* rollout.calculate_log_probs
  MaxCalls,           \* bound on the tool calls in one answer
  MaxMessage,         \* bound on the tokens of one message
  MaxImages           \* bound on the images in the list of one result

ASSUME ToolAgentAssumption ==
  /\ {MaxAssistantTurns, MaxUserTurns, MaxImages} \subseteq Nat
  /\ {PromptTokens, PromptLength, ResponseLength, ModelLength, MaxParallelCalls, MaxCalls,
      MaxMessage} \subseteq Nat \ {0}
  /\ PromptTokens <= PromptLength
  /\ LogProbs \in BOOLEAN

VARIABLES
  interaction,   \* interaction_config_path is set
  state,         \* AgentState, or "raised"
  promptIds, responseMask,
  logprobs,      \* 1 for the model's own, 0 for padding
  images,        \* image_data after the prompt's, as the lists they came in: how many each
  userTurns, assistantTurns,
  calls,         \* tool_calls of the last answer that are executed, and their progress
  instances,     \* the calls that hold a tool instance
  answered,      \* the calls that are done, in the order they ended
  allValid,      \* all_tool_calls: each so far names a tool and has JSON arguments
  toolRewards    \* tool_rewards: how many

tokenVars == <<promptIds, responseMask, logprobs, images>>
turnVars == <<userTurns, assistantTurns>>
callVars == <<calls, instances, answered>>
vars == <<interaction, state, tokenVars, turnVars, callVars, allValid, toolRewards>>

Tok(kind, call) == [kind |-> kind, call |-> call]
Repeated(x, n) == [i \in 1..n |-> x]

\* What the parser makes of a call; "good" names a registered tool and has JSON
\* arguments.
Parsed == {"good", "bad"}
Results == {"text", "image", "video"}
Progress == {"asked", "created", "executed", "raised", "lost"} \cup Results

Init ==
  /\ interaction \in BOOLEAN
  /\ state = "pending"
  /\ promptIds = << >> /\ responseMask = << >> /\ logprobs = << >> /\ images = << >>
  /\ userTurns = 0 /\ assistantTurns = 0
  /\ calls = << >> /\ instances = {} /\ answered = << >>
  /\ allValid = TRUE /\ toolRewards = 0

-----------------------------------------------------------------------------
\* _handle_pending_state: the chat template applied to the prompt's messages.
Prepare ==
  /\ state = "pending"
  /\ promptIds' = Repeated(Tok("prompt", 0), PromptTokens)
  /\ state' = "generating"
  /\ UNCHANGED <<responseMask, logprobs, images, turnVars, callVars, allValid, toolRewards>>

\* vLLMHttpServer.generate: what is left of both lengths.  The engine takes no
\* request for less than one token.
Fits == Len(promptIds) < Min({ResponseLength + PromptLength, ModelLength})
MaxTokens == Min({ResponseLength + PromptLength, ModelLength}) - Len(promptIds)

Refuse ==
  /\ state = "generating" /\ ~Fits
  /\ state' = "raised"
  /\ UNCHANGED <<tokenVars, turnVars, callVars, allValid, toolRewards>>

UserLimit == MaxUserTurns > 0 /\ userTurns >= MaxUserTurns

\* The checks after an answer of n tokens.
Limit(n) ==
  \/ Len(responseMask) + n >= ResponseLength
  \/ MaxAssistantTurns > 0 /\ assistantTurns + 1 >= MaxAssistantTurns
  \/ UserLimit

Executed(cs) == SubSeq(cs, 1, Min({Len(cs), MaxParallelCalls}))

ValidSoFar(cs) == allValid /\ \A i \in DOMAIN cs : cs[i] = "good"

\* _handle_generating_state.
Generate ==
  /\ state = "generating" /\ Fits
  /\ \E n \in 1..MaxTokens :
       /\ promptIds' = promptIds \o Repeated(Tok("generated", 0), n)
       /\ responseMask' = responseMask \o Repeated(1, n)
       /\ logprobs' = IF LogProbs THEN logprobs \o Repeated(1, n) ELSE logprobs
       /\ assistantTurns' = assistantTurns + 1
       /\ IF Limit(n)
          THEN state' = "terminated" /\ calls' = << >> /\ UNCHANGED allValid
          ELSE \E cs \in UNION {[1..k -> Parsed] : k \in 0..MaxCalls} :
               /\ calls' = [i \in DOMAIN Executed(cs) |->
                              [parsed |-> cs[i], progress |-> "asked"]]
               /\ allValid' = ValidSoFar(cs)
               /\ state' = IF cs # << >> THEN "processing_tools"
                           ELSE IF interaction THEN "interacting" ELSE "terminated"
  /\ answered' = << >>
  /\ UNCHANGED <<images, userTurns, instances, toolRewards>>

-----------------------------------------------------------------------------
(* _call_tool, one coroutine per call, and the gather that awaits them.    *)

\* The other calls go on when one has made the gather, and with it the trajectory, raise.
At(i, p) ==
  state \in {"processing_tools", "raised"} /\ i \in DOMAIN calls /\ calls[i].progress = p

Advance(i, p) ==
  /\ calls' = [calls EXCEPT ![i].progress = p]
  /\ answered' = IF p \in Results THEN Append(answered, i) ELSE answered
  /\ UNCHANGED <<tokenVars, turnVars, allValid, toolRewards>>

\* Arguments that are no JSON, a name that is no tool, or a tool that fails to create an
\* instance: the error is the answer, and there is nothing to release.
CallError(i) ==
  At(i, "asked") /\ Advance(i, "text") /\ UNCHANGED <<state, instances>>

Create(i) ==
  /\ At(i, "asked") /\ calls[i].parsed = "good"
  /\ Advance(i, "created") /\ UNCHANGED state
  /\ instances' = instances \cup {i}

Execute(i) ==
  /\ At(i, "created") /\ \E p \in {"executed", "raised"} : Advance(i, p)
  /\ UNCHANGED <<state, instances>>

\* mutant: the release is not in a "finally"
ReleasedOnSuccess(i) == IF At(i, "raised") THEN instances ELSE instances \ {i}
Released(i) == instances \ {i}

\* The instance is released, and the call has its answer.
Release(i) ==
  /\ \/ At(i, "raised") /\ Advance(i, "text")
     \/ At(i, "executed") /\ \E p \in Results : Advance(i, p)
  /\ instances' = Released(i) /\ UNCHANGED state

\* The release raises, with the instance gone or not: nothing catches it in _call_tool,
\* and the gather raises it without waiting for the other calls.
ReleaseRaises(i) ==
  /\ At(i, "executed") \/ At(i, "raised")
  /\ Advance(i, "lost")
  /\ state' = "raised" /\ instances' \in {instances, Released(i)}

Gathered == Len(answered) = Len(calls)

\* Results that raise: a video always does; an image does where the model takes none, and
\* may where a list does not hold the one image its placeholder announces.
Unsupported ==
  /\ state = "processing_tools" /\ Gathered
  /\ \E i \in DOMAIN calls : calls[i].progress \in {"image", "video"}
  /\ state' = "raised"
  /\ UNCHANGED <<tokenVars, turnVars, callVars, allValid, toolRewards>>

\* The order in which the results are read.
AsTheyEnd == answered                         \* mutant
ResultOrder == [i \in DOMAIN calls |-> i]

\* The tool messages, as the chat template lays them out: n[i] tokens of text, and one
\* placeholder before them if the call returned an image or a list of images.
Message(i, n) ==
  (IF calls[i].progress = "image" THEN <<Tok("image", i)>> ELSE << >>)
    \o Repeated(Tok(IF calls[i].parsed = "bad" THEN "error" ELSE "tool", i), n)
Messages(n) == FlattenSeq([k \in DOMAIN ResultOrder |-> Message(ResultOrder[k], n[k])])

TooLongNever(ids) == FALSE                    \* mutant: the length is not checked
TooLong(ids) == Len(responseMask) + Len(ids) >= ResponseLength

\* The lists of images that the results of this turn may bring; what is None in a list is
\* left out, so that one may bring nothing.
ImageLists ==
  [1..Cardinality({i \in DOMAIN calls : calls[i].progress = "image"}) -> 0..MaxImages]

ImagesAfter(ids, lists) == IF TooLong(ids) THEN images ELSE images \o lists

MessageMask(ids) == Repeated(0, Len(ids))

Padded(ids) == IF logprobs # << >> THEN logprobs \o Repeated(0, Len(ids)) ELSE logprobs

TurnAfter(ids) == IF TooLong(ids) THEN userTurns ELSE userTurns + 1

\* A message joins the transcript.
Observe(ids) ==
  /\ promptIds' = promptIds \o ids
  /\ responseMask' = responseMask \o MessageMask(ids)
  /\ logprobs' = Padded(ids)

\* _handle_processing_tools_state, once the calls are gathered.  A reward may be None,
\* though not that of an error; rewards are kept also when the messages are not.
ProcessTools ==
  /\ state = "processing_tools" /\ Gathered
  /\ \A i \in DOMAIN calls : calls[i].progress # "video"
  /\ \E n \in [DOMAIN calls -> 1..MaxMessage], lists \in ImageLists :
       LET ids == Messages(n) IN
       /\ images' = ImagesAfter(ids, lists)
       /\ userTurns' = TurnAfter(ids)
       /\ IF TooLong(ids) THEN /\ state' = "terminated"
                               /\ UNCHANGED <<promptIds, responseMask, logprobs>>
                          ELSE Observe(ids) /\ state' = "generating"
  /\ \E r \in Cardinality({i \in DOMAIN calls : calls[i].parsed = "bad"})..Len(calls) :
       toolRewards' = toolRewards + r
  /\ UNCHANGED <<assistantTurns, callVars, allValid>>

\* _handle_interacting_state.  No length is checked here.
Interact ==
  /\ state = "interacting"
  /\ \E n \in 1..MaxMessage : Observe(Repeated(Tok("user", 0), n))
  /\ userTurns' = userTurns + 1
  /\ state' \in {"generating", "terminated"}
  /\ UNCHANGED <<images, assistantTurns, callVars, allValid, toolRewards>>

-----------------------------------------------------------------------------
Next ==
  /\ \/ Prepare \/ Refuse \/ Generate \/ Unsupported \/ ProcessTools \/ Interact
     \/ \E i \in 1..MaxCalls :
          CallError(i) \/ Create(i) \/ Execute(i) \/ Release(i) \/ ReleaseRaises(i)
  /\ UNCHANGED interaction

Spec == Init /\ [][Next]_vars

-----------------------------------------------------------------------------
Kinds == {"prompt", "generated", "tool", "error", "image", "user"}

TypeOK ==
  /\ interaction \in BOOLEAN
  /\ state \in {"pending", "generating", "processing_tools", "interacting", "terminated",
                "raised"}
  /\ promptIds \in Seq([kind : Kinds, call : Nat])
  /\ responseMask \in Seq({0, 1}) /\ logprobs \in Seq({0, 1})
  /\ images \in Seq(Nat)
  /\ userTurns \in Nat /\ assistantTurns \in Nat /\ toolRewards \in Nat
  /\ calls \in Seq([parsed : Parsed, progress : Progress]) /\ Len(calls) <= MaxParallelCalls
  /\ instances \subseteq DOMAIN calls /\ answered \in Seq(DOMAIN calls)
  /\ allValid \in BOOLEAN

\* The transcript after the prompt: run() cuts it off by the length of the mask (218).
Response == SubSeq(promptIds, Len(promptIds) - Len(responseMask) + 1, Len(promptIds))

\* The mask, the log-probabilities and the tokens never lose step: what is trained on
\* is exactly what the model wrote, and the cut falls between prompt and response
\* (218-219, 278-281, 408-411, 440-443).
Aligned ==
  /\ state # "pending" => Len(promptIds) = PromptTokens + Len(responseMask)
  /\ \A i \in DOMAIN Response : (responseMask[i] = 1) <=> (Response[i].kind = "generated")
  /\ LogProbs => logprobs = responseMask

\* The images that are sent along are those of the results whose placeholder the
\* transcript has, one list for each: a turn's are kept or discarded with its messages
\* (396-406).  A result has one placeholder however many images its list has (342-344,
\* 357-363): the images are as many as the placeholders where each list holds one.
ImagesMatch == Len(images) = Cardinality({i \in DOMAIN promptIds : promptIds[i].kind = "image"})

\* However the calls of an answer overtake each other, the i-th message answers the i-th
\* call: nothing else ties them together (328-332).
MessagesInOrder ==
  \A i \in 1..Len(Response) - 1 :
    Response[i].call > 0 /\ Response[i + 1].call > 0 =>
      Response[i + 1].call \in {Response[i].call, Response[i].call + 1}

Runs(m) == Cardinality({i \in DOMAIN responseMask :
                          responseMask[i] = m /\ (i = 1 \/ responseMask[i - 1] # m)})

\* num_turns tells what the transcript holds, and the limits are kept (237, 289-292).
TurnsMatch ==
  /\ assistantTurns = Runs(1) /\ userTurns = Runs(0)
  /\ MaxAssistantTurns > 0 => assistantTurns <= MaxAssistantTurns
  /\ MaxUserTurns > 0 => userTurns <= MaxUserTurns

\* The format reward is for the whole trajectory: it is not earned with a call in the
\* transcript that was answered by an error of its format (296, 226).
FormatOfTrajectory ==
  allValid => \A i \in DOMAIN promptIds : promptIds[i].kind # "error"

\* Tokens, mask, log-probabilities, images, messages and turn counts tell the same
\* story, at whichever point of whichever turn the trajectory was cut.
TranscriptConsistent ==
  TypeOK /\ Aligned /\ ImagesMatch /\ MessagesInOrder /\ TurnsMatch /\ FormatOfTrajectory

\* No tool instance outlives its call, whichever calls raised and in whatever order they
\* end (490-492), but one whose own release raised; and while the trajectory goes on, none
\* outlives the step that created it.  Where a release made the trajectory raise, the
\* calls it left behind still release theirs.
NoInstanceLeft ==
  /\ \A i \in instances : calls[i].progress \in {"created", "executed", "raised", "lost"}
  /\ state \notin {"processing_tools", "raised"} => instances = {}

\* After tool messages there is room for an answer of at least one token (396); after
\* a user's message there need not be, and the engine refuses the request.
RoomToAnswer == state = "generating" /\ ~interaction => Fits
=============================================================================
