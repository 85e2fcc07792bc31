---------------------------- MODULE AgentExecutor ----------------------------
(***************************************************************************)
(* The inference agent's ReAct loop: run_agent_loop, with the retries of   *)
(* the chat call below it and the tool calls it makes.                     *)
(*                                                                         *)
(* One executor is reused for all the questions of a benchmark.  A turn    *)
(* asks the master for one JSON action, at most FormatTries times, and     *)
(* every ask posts at most ChatTries times.  The loop runs in one thread.  *)
(***************************************************************************)
EXTENDS Naturals, Sequences

CONSTANTS
  Letters,      \* what an answer can say: option letters, or intervals
  MaxTurns,     \* max_turns: 20
  FormatTries,  \* max_retries of a turn: 3
  ChatTries,    \* max_retries of _call_api_chat: 5
  ToolTries     \* max_retries of _call_api: 3

None == "none"   \* a text without a letter
ASSUME ExecutorAssumption ==
  /\ MaxTurns \in Nat \ {0} /\ FormatTries \in Nat \ {0}
  /\ ChatTries \in Nat \ {0} /\ ToolTries \in Nat \ {0} /\ None \notin Letters

\* A final_answer: its JSON shape and the letter it holds, if any.  The last
\* four are not the master's: the loop's own texts for a run without an answer.
Shapes == {"text", "list", "sentence", "object"}
Given == [shape : Shapes, letter : Letters]
Null == [shape |-> "null", letter |-> None]
Default == [shape |-> "default", letter |-> None]
Unexpected == [shape |-> "unexpected", letter |-> None]
Raised == [shape |-> "raised", letter |-> None]
Answers == Given \cup {Null, Default, Unexpected, Raised}

\* A reply: what the parser makes of it, and its final_answer if it has one.
Actions == {"observe", "noTargets", "caption", "unknown"}
Malformed == {"notObject", "notString", "nullParams"}
Unparsable == {"prose", "noAction", "apiError"}
Reply(kind) == [kind |-> kind, final |-> Default]
MasterReplies ==
  {Reply(k) : k \in Actions \cup Malformed \cup {"prose", "noAction"}}
    \cup {[kind |-> "answer", final |-> f] : f \in Given \cup {Null, Default}}
Replies == MasterReplies \cup {Reply("apiError")}

VARIABLES
  step,         \* "idle", "ready", "post", "parse", "act", "tool", "returned"
  query,        \* _initial_query: the question asked, 0 when cleaned up
  turn,         \* current_turn
  attempt,      \* of the turn's format retries
  posts,        \* HTTP attempts of the call under way
  reply,        \* the reply being handled
  history,      \* _master_history: role, turn and query of each message
  toolHistory,  \* _tool_history: turn and query of each call
  final         \* final_answer

dialogue == <<history, toolHistory>>
execVars == <<step, query, turn, attempt, posts, reply, dialogue, final>>

Message(role) == [role |-> role, turn |-> turn, query |-> query]

ExecInit ==
  /\ step = "idle" /\ query = 0 /\ turn = 0 /\ attempt = 0 /\ posts = 0
  /\ reply = Reply("prose") /\ final = Unexpected
  /\ history = << >> /\ toolHistory = << >>

KeptTools == history' = << >> /\ UNCHANGED toolHistory   \* mutant
Emptied == history' = << >> /\ toolHistory' = << >>

InitAgentState(q) ==
  /\ step = "idle"
  /\ step' = "ready" /\ query' = q /\ turn' = 0 /\ Emptied
  /\ UNCHANGED <<attempt, posts, reply, final>>

CleanupAgentState == step' = "idle" /\ query' = 0 /\ turn' = 0 /\ Emptied

NextTurn(t) == turn' = t /\ attempt' = 1 /\ posts' = 0 /\ step' = "post"

StartLoop ==
  /\ step = "ready"
  /\ history' = <<Message("system"), Message("user")>>
  /\ final' = Unexpected /\ NextTurn(1)
  /\ UNCHANGED <<query, reply, toolHistory>>

LastPost(tries) == posts + 1 >= tries

\* A post that brings a reply.
PostAnswered(r) ==
  /\ step = "post"
  /\ posts' = 0 /\ reply' = r /\ step' = "parse"
  /\ UNCHANGED <<query, turn, attempt, dialogue, final>>

\* A post that fails: the last one becomes a reply without an action.
PostFailed ==
  /\ step = "post"
  /\ IF LastPost(ChatTries)
       THEN posts' = 0 /\ reply' = Reply("apiError") /\ step' = "parse"
       ELSE posts' = posts + 1 /\ UNCHANGED <<reply, step>>
  /\ UNCHANGED <<query, turn, attempt, dialogue, final>>

ReminderKept == history' = Append(history, Message("user"))   \* mutant
ReminderSent == UNCHANGED history    \* it is appended to a copy, messages_to_send

AttemptNotCounted == UNCHANGED attempt        \* mutant
AttemptCounted == attempt' = attempt + 1

\* The reply holds no action: ask again with a reminder, or give the run up.
ParseFails ==
  /\ step = "parse" /\ reply.kind \in Unparsable
  /\ IF attempt < FormatTries
       THEN AttemptCounted /\ step' = "post" /\ ReminderSent
       ELSE /\ step' = "returned" /\ UNCHANGED attempt
            /\ history' = Append(history, Message("assistant"))
  /\ UNCHANGED <<query, turn, posts, reply, toolHistory, final>>

ParseSucceeds ==
  /\ step = "parse" /\ reply.kind \notin Unparsable
  /\ history' = Append(history, Message("assistant"))
  /\ step' = "act"
  /\ UNCHANGED <<query, turn, attempt, posts, reply, toolHistory, final>>

Answer ==
  /\ step = "act" /\ reply.kind = "answer"
  /\ final' = reply.final /\ step' = "returned"
  /\ UNCHANGED <<query, turn, attempt, posts, reply, dialogue>>

\* An exception of the loop's own code ends the run with its text.
Fails ==
  /\ step = "act" /\ reply.kind \in Malformed
  /\ final' = Raised /\ step' = "returned"
  /\ UNCHANGED <<query, turn, attempt, posts, reply, dialogue>>

\* The observation closes the turn; after the last turn the run is over.
Observe ==
  /\ history' = Append(history, Message("tool"))
  /\ IF turn = MaxTurns
       THEN step' = "returned" /\ posts' = 0 /\ UNCHANGED <<turn, attempt>>
       ELSE NextTurn(turn + 1)
  /\ UNCHANGED <<query, reply, final>>

ToolLogged == toolHistory' = Append(toolHistory, [turn |-> turn, query |-> query])

Refuse ==
  /\ step = "act" /\ reply.kind \in {"noTargets", "unknown"}
  /\ Observe /\ UNCHANGED toolHistory

CallTool ==
  /\ step = "act" /\ reply.kind \in {"observe", "caption"}
  /\ step' = "tool"
  /\ UNCHANGED <<query, turn, attempt, posts, reply, dialogue, final>>

\* The tool returns or raises, or its last post failed: one entry in each case.
ToolEnds == step = "tool" /\ ToolLogged /\ Observe

ToolPostFails ==
  /\ step = "tool" /\ reply.kind = "observe" /\ ~LastPost(ToolTries)
  /\ posts' = posts + 1
  /\ UNCHANGED <<step, query, turn, attempt, reply, dialogue, final>>

RunLoop ==
  \/ StartLoop \/ (\E r \in MasterReplies : PostAnswered(r)) \/ PostFailed
  \/ ParseFails \/ ParseSucceeds \/ Answer \/ Fails \/ Refuse
  \/ CallTool \/ ToolEnds \/ ToolPostFails
=============================================================================
