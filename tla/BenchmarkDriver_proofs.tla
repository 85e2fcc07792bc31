----------------------- MODULE BenchmarkDriver_proofs -----------------------
(***************************************************************************)
(* For every number of questions, turns and retries, and every task: the   *)
(* dialogue of a run alternates, and the logs saved for a question are its *)
(* own, each tool entry backed by an observation in the dialogue, and its  *)
(* answers count for what the master said.                                 *)
(***************************************************************************)
EXTENDS BenchmarkDriver, TLAPS

Entry == [turn : Nat, query : Nat]
Msg == [role : {"system", "user", "assistant", "tool"}, turn : Nat, query : Nat]
LogType == [master : Seq(Msg), tools : Seq(Entry)]

\* A logged call belongs to the question at hand, calls are logged in turn order,
\* and the dialogue has reached the observation of each.
ToolsObserved ==
  \A i \in 1..Len(toolHistory) :
    /\ toolHistory[i].query = query
    /\ i > 1 => toolHistory[i - 1].turn < toolHistory[i].turn
    /\ 2 * toolHistory[i].turn + 2 <= Len(history) /\ toolHistory[i].turn > 0

Typed ==
  /\ turn \in Nat /\ query \in Nat /\ current \in Nat
  /\ history \in Seq(Msg) /\ toolHistory \in Seq(Entry)
  /\ logs \in [Questions -> LogType]
  /\ step \in {"post", "parse", "act", "tool"} => turn > 0
  /\ step = "ready" => toolHistory = << >>

\* The executor works for the question the driver is at.
InStep ==
  /\ driver \in {"run", "judge"} => query = current
  /\ driver = "judge" => step = "returned"

\* What a driver step leaves alone or resets, in every conjunct but the logs.
Dialogue == Typed /\ InStep /\ DialogueAlternates /\ ToolsObserved
DriverInv == Dialogue /\ LogsAreOwn

-----------------------------------------------------------------------------
\* What append() does to length and entries.
LEMMA Appended ==
  ASSUME NEW S, NEW q \in Seq(S), NEW e \in S
  PROVE  /\ Append(q, e) \in Seq(S)
         /\ Len(q) \in Nat /\ Len(Append(q, e)) = Len(q) + 1
         /\ \A i \in 1..Len(q) : Append(q, e)[i] = q[i]
         /\ Append(q, e)[Len(q) + 1] = e
         /\ DOMAIN Append(q, e) = 1..(Len(q) + 1) /\ DOMAIN q = 1..Len(q)
  OBVIOUS

\* Every logged call has a turn.
LEMMA CallTurns ==
  ASSUME NEW q \in Seq(Entry), NEW i \in 1..Len(q)
  PROVE  q[i].turn \in Nat
PROOF
  <1>1. q[i] \in Entry
    OBVIOUS
  <1> QED
    BY <1>1 DEF Entry

\* The places of a turn's two messages.
LEMMA Places ==
  ASSUME NEW t \in Nat, t > 0
  PROVE  /\ RoleAt(2 * t + 1) = "assistant" /\ (2 * t + 1 - 1) \div 2 = t
         /\ RoleAt(2 * t + 2) = "tool" /\ (2 * t + 2 - 1) \div 2 = t
PROOF
  <1>1. (2 * t + 1) % 2 = 1 /\ (2 * t + 2) % 2 = 0
    OBVIOUS
  <1>2. 2 * t + 1 > 2 /\ 2 * t + 2 > 2
    OBVIOUS
  <1>3. (2 * t + 1 - 1) \div 2 = t /\ (2 * t + 2 - 1) \div 2 = t
    OBVIOUS
  <1> QED
    BY <1>1, <1>2, <1>3 DEF RoleAt

-----------------------------------------------------------------------------
LEMMA InitDriver == Init => DriverInv
PROOF
  <1> SUFFICES ASSUME Init PROVE DriverInv
    OBVIOUS
  <1>1. /\ step = "idle" /\ query = 0 /\ turn = 0 /\ history = << >> /\ toolHistory = << >>
        /\ current = 1 /\ logs = [q \in Questions |-> NoLog]
        /\ driver \in {"done", "prepare"}
    BY DEF Init, ExecInit
  <1>2. NoLog \in LogType
    BY DEF NoLog, LogType
  <1>3. Typed
    BY <1>1, <1>2 DEF Typed
  <1>4. DialogueAlternates /\ ToolsObserved /\ InStep
    BY <1>1 DEF DialogueAlternates, ToolsObserved, InStep
  <1>5. LogsAreOwn
    BY <1>1 DEF LogsAreOwn, NoLog
  <1> QED
    BY <1>3, <1>4, <1>5 DEF DriverInv, Dialogue

\* A step that only moves the loop on: no message, no call, the same turn.
LEMMA SilentStep ==
  ASSUME Dialogue, UNCHANGED <<history, toolHistory, turn, query, current, logs, driver>>,
         driver = "run",
         \/ step' \in {"post", "parse"} /\ step \in {"post", "parse"}
         \/ step' \in {"act", "tool"} /\ step \in {"act", "tool"}
         \/ step' = "returned"
  PROVE  Dialogue'
PROOF
  <1>1. Typed'
    BY DEF Dialogue, Typed
  <1>2. InStep'
    BY DEF Dialogue, InStep
  <1>3. DialogueAlternates'
    BY DEF Dialogue, DialogueAlternates, RoleAt
  <1>4. ToolsObserved'
    BY DEF Dialogue, ToolsObserved
  <1> QED
    BY <1>1, <1>2, <1>3, <1>4 DEF Dialogue

\* The assistant's message goes where the turn expects it.
LEMMA AssistantStep ==
  ASSUME Dialogue, step = "parse", driver = "run",
         history' = Append(history, Message("assistant")),
         UNCHANGED <<toolHistory, turn, query, current, logs, driver>>,
         step' \in {"act", "returned"}
  PROVE  Dialogue'
PROOF
  <1> USE DEF Dialogue
  <1>1. /\ history \in Seq(Msg) /\ turn \in Nat /\ turn > 0 /\ query \in Nat
        /\ Len(history) = 2 * turn
    BY DEF Typed, DialogueAlternates
  <1>2. Message("assistant") \in Msg
    BY <1>1 DEF Message, Msg
  <1>3. /\ history' \in Seq(Msg) /\ Len(history') = 2 * turn + 1
        /\ \A i \in 1..Len(history) : history'[i] = history[i]
        /\ history'[2 * turn + 1] = Message("assistant")
        /\ DOMAIN history' = 1..(2 * turn + 1) /\ DOMAIN history = 1..(2 * turn)
    BY <1>1, <1>2, Appended
  <1>4. Typed'
    BY <1>1, <1>3 DEF Typed
  <1>5. InStep'
    BY DEF InStep
  <1>6. DialogueAlternates'
    <2>1. ASSUME NEW i \in DOMAIN history'
          PROVE  /\ history'[i].role = RoleAt(i) /\ history'[i].query = query
                 /\ i > 2 => history'[i].turn = (i - 1) \div 2
      <3>1. CASE i \in 1..(2 * turn)
        BY <3>1, <1>1, <1>3 DEF DialogueAlternates
      <3>2. CASE i = 2 * turn + 1
        BY <3>2, <1>1, <1>3, Places DEF Message
      <3> QED
        BY <3>1, <3>2, <1>1, <1>3
    <2>2. \A i : RoleAt(i)' = RoleAt(i)
      BY DEF RoleAt
    <2> QED
      BY <2>1, <2>2, <1>3 DEF DialogueAlternates
  <1>7. ToolsObserved'
    <2>1. \A i \in 1..Len(toolHistory) : toolHistory[i].turn \in Nat
      BY CallTurns DEF Typed
    <2> QED
      BY <2>1, <1>1, <1>3 DEF ToolsObserved
  <1> QED
    BY <1>4, <1>5, <1>6, <1>7

\* The observation closes the turn; a call is logged with it or not at all.
LEMMA ObservationStep ==
  ASSUME Dialogue, step \in {"act", "tool"}, driver = "run", Observe,
         ToolLogged \/ UNCHANGED toolHistory,
         UNCHANGED <<current, logs, driver>>
  PROVE  Dialogue'
PROOF
  <1> USE DEF Dialogue
  <1>1. /\ history \in Seq(Msg) /\ turn \in Nat /\ turn > 0 /\ query \in Nat
        /\ Len(history) = 2 * turn + 1 /\ toolHistory \in Seq(Entry)
    BY DEF Typed, DialogueAlternates
  <1>2. Message("tool") \in Msg
    BY <1>1 DEF Message, Msg
  <1>3. /\ history' = Append(history, Message("tool")) /\ query' = query
        /\ \/ step' = "returned" /\ turn' = turn
           \/ step' = "post" /\ turn' = turn + 1
    BY DEF Observe, NextTurn
  <1>4. /\ history' \in Seq(Msg) /\ Len(history') = 2 * turn + 2
        /\ \A i \in 1..Len(history) : history'[i] = history[i]
        /\ history'[2 * turn + 2] = Message("tool")
        /\ DOMAIN history' = 1..(2 * turn + 2) /\ DOMAIN history = 1..(2 * turn + 1)
    <2>1. Len(history) + 1 = 2 * turn + 2
      BY <1>1
    <2> QED
      BY <1>1, <1>2, <1>3, <2>1, Appended
  <1>5. toolHistory' \in Seq(Entry)
    <2>1. [turn |-> turn, query |-> query] \in Entry
      BY <1>1 DEF Entry
    <2> QED
      BY <1>1, <2>1 DEF ToolLogged
  <1>6. Typed'
    BY <1>1, <1>3, <1>4, <1>5 DEF Typed
  <1>7. InStep'
    BY <1>3 DEF InStep
  <1>8. DialogueAlternates'
    <2>1. ASSUME NEW i \in DOMAIN history'
          PROVE  /\ history'[i].role = RoleAt(i) /\ history'[i].query = query
                 /\ i > 2 => history'[i].turn = (i - 1) \div 2
      <3>1. CASE i \in 1..(2 * turn + 1)
        BY <3>1, <1>1, <1>4 DEF DialogueAlternates
      <3>2. CASE i = 2 * turn + 2
        BY <3>2, <1>1, <1>4, Places DEF Message
      <3>3. i \in 1..(2 * turn + 2) /\ turn \in Nat
        BY <1>1, <1>4
      <3>4. i \in 1..(2 * turn + 1) \/ i = 2 * turn + 2
        BY <3>3
      <3> QED
        BY <3>1, <3>2, <3>4
    <2>2. \A i : RoleAt(i)' = RoleAt(i)
      BY DEF RoleAt
    <2>3. step' \in {"post", "parse"} => Len(history') = 2 * turn'
      BY <1>1, <1>3, <1>4
    <2> QED
      BY <2>1, <2>2, <2>3, <1>3 DEF DialogueAlternates
  <1>9. ToolsObserved'
    <2>0. \A i \in 1..Len(toolHistory) : toolHistory[i].turn \in Nat
      BY <1>1, CallTurns
    <2>1. CASE UNCHANGED toolHistory
      BY <2>0, <2>1, <1>1, <1>3, <1>4 DEF ToolsObserved
    <2>2. CASE ToolLogged
      <3> DEFINE e == [turn |-> turn, query |-> query]
      <3>1. e \in Entry
        BY <1>1 DEF Entry
      <3>2. /\ Len(toolHistory) \in Nat /\ Len(toolHistory') = Len(toolHistory) + 1
            /\ \A i \in 1..Len(toolHistory) : toolHistory'[i] = toolHistory[i]
            /\ toolHistory'[Len(toolHistory) + 1] = e
        BY <2>2, <3>1, <1>1, Appended DEF ToolLogged
      <3>3. ASSUME NEW i \in 1..Len(toolHistory')
            PROVE  /\ toolHistory'[i].query = query'
                   /\ i > 1 => toolHistory'[i - 1].turn < toolHistory'[i].turn
                   /\ 2 * toolHistory'[i].turn + 2 <= Len(history')
                   /\ toolHistory'[i].turn > 0
        <4>1. CASE i \in 1..Len(toolHistory)
          <5>1. toolHistory'[i] = toolHistory[i]
                /\ (i > 1 => toolHistory'[i - 1] = toolHistory[i - 1])
            BY <4>1, <3>2
          <5>2. toolHistory[i].turn \in Nat
            BY <2>0, <4>1
          <5> QED
            <6>1. /\ toolHistory[i].query = query
                  /\ i > 1 => toolHistory[i - 1].turn < toolHistory[i].turn
                  /\ 2 * toolHistory[i].turn + 2 <= 2 * turn + 1
                  /\ toolHistory[i].turn > 0
              BY <4>1, <1>1 DEF ToolsObserved
            <6>2. Len(history') = 2 * turn + 2 /\ query' = query /\ turn \in Nat
              BY <1>1, <1>3, <1>4
            <6>3. 2 * toolHistory[i].turn + 2 <= 2 * turn + 2
              BY <5>2, <6>1, <6>2
            <6> QED
              BY <5>1, <6>1, <6>2, <6>3
        <4>2. CASE i = Len(toolHistory) + 1
          <5>1. toolHistory'[i] = e
            BY <4>2, <3>2
          <5>2. i > 1 => toolHistory'[i - 1].turn < turn
            <6> SUFFICES ASSUME i > 1 PROVE toolHistory'[i - 1].turn < turn
              OBVIOUS
            <6>1. i - 1 \in 1..Len(toolHistory) /\ toolHistory'[i - 1] = toolHistory[i - 1]
              BY <4>2, <3>2
            <6>2. toolHistory[i - 1].turn \in Nat
              BY <2>0, <6>1
            <6>3. 2 * toolHistory[i - 1].turn + 2 <= 2 * turn + 1
              BY <6>1, <1>1 DEF ToolsObserved
            <6> QED
              BY <6>1, <6>2, <6>3, <1>1
          <5> QED
            BY <5>1, <5>2, <1>1, <1>3, <1>4
        <4> QED
          BY <4>1, <4>2, <3>2
      <3> QED
        BY <3>3 DEF ToolsObserved
    <2> QED
      BY <2>1, <2>2
  <1> QED
    BY <1>6, <1>7, <1>8, <1>9

\* The loop starts from the prompt.
LEMMA StartStep ==
  ASSUME Dialogue, driver = "run", StartLoop,
         UNCHANGED <<current, logs, driver>>
  PROVE  Dialogue'
PROOF
  <1> USE DEF Dialogue
  <1>1. /\ turn \in Nat /\ query \in Nat /\ query' = query /\ toolHistory' = << >>
        /\ history' = <<Message("system"), Message("user")>>
        /\ turn' = 1 /\ step' = "post"
    BY DEF StartLoop, NextTurn, Typed
  <1>2. Message("system") \in Msg /\ Message("user") \in Msg
    BY <1>1 DEF Message, Msg
  <1>3. /\ history' \in Seq(Msg) /\ Len(history') = 2 /\ DOMAIN history' = 1..2
        /\ history'[1] = Message("system") /\ history'[2] = Message("user")
    BY <1>1, <1>2
  <1>4. Typed'
    BY <1>1, <1>3 DEF Typed
  <1>5. InStep'
    BY <1>1 DEF InStep
  <1>6. DialogueAlternates'
    <2>1. ASSUME NEW i \in DOMAIN history'
          PROVE  /\ history'[i].role = RoleAt(i) /\ history'[i].query = query'
                 /\ ~(i > 2)
      <3>1. i = 1 \/ i = 2
        BY <1>3
      <3> QED
        BY <3>1, <1>1, <1>3 DEF Message, RoleAt
    <2>2. \A i : RoleAt(i)' = RoleAt(i)
      BY DEF RoleAt
    <2> QED
      BY <2>1, <2>2, <1>1, <1>3 DEF DialogueAlternates
  <1>7. ToolsObserved'
    BY <1>1 DEF ToolsObserved
  <1> QED
    BY <1>4, <1>5, <1>6, <1>7

\* Both resets of the executor leave no dialogue behind.
LEMMA ResetStep ==
  ASSUME Dialogue, history' = << >>, toolHistory' = << >>, query' \in Nat, turn' = 0,
         step' \in {"idle", "ready"}, current' \in Nat, InStep',
         logs' \in [Questions -> LogType]
  PROVE  Dialogue'
PROOF
  <1>1. Typed'
    BY DEF Typed, Dialogue
  <1>2. DialogueAlternates'
    BY DEF DialogueAlternates
  <1>3. ToolsObserved'
    BY DEF ToolsObserved
  <1> QED
    BY <1>1, <1>2, <1>3 DEF Dialogue

-----------------------------------------------------------------------------
\* Every step of the loop.
LEMMA RunInv == ASSUME DriverInv, Run PROVE DriverInv'
PROOF
  <1>1. Dialogue /\ driver = "run" /\ UNCHANGED <<driver, current, logs>>
    BY DEF Run, driverVars, DriverInv
  <1>2. ASSUME StartLoop PROVE Dialogue'
    <2>1. UNCHANGED <<current, logs, driver>>
      BY <1>1
    <2> QED
      BY <1>1, <1>2, <2>1, StartStep
  <1>3. ASSUME \/ \E r \in MasterReplies : PostAnswered(r)
               \/ PostFailed \/ Answer \/ Fails \/ CallTool \/ ToolPostFails
               \/ ParseFails /\ step' = "post"
        PROVE  Dialogue'
    <2>1. UNCHANGED <<history, toolHistory, turn, query>>
      BY <1>3 DEF PostAnswered, PostFailed, Answer, Fails, CallTool, ToolPostFails,
                  ParseFails, ReminderSent, dialogue
    <2>2. \/ step' \in {"post", "parse"} /\ step \in {"post", "parse"}
          \/ step' \in {"act", "tool"} /\ step \in {"act", "tool"}
          \/ step' = "returned"
      <3>1. CASE \E r \in MasterReplies : PostAnswered(r)
        BY <3>1 DEF PostAnswered
      <3>2. CASE PostFailed
        BY <3>2 DEF PostFailed
      <3>3. CASE Answer \/ Fails
        BY <3>3 DEF Answer, Fails
      <3>4. CASE CallTool \/ ToolPostFails
        BY <3>4 DEF CallTool, ToolPostFails
      <3>5. CASE ParseFails /\ step' = "post"
        BY <3>5 DEF ParseFails
      <3> QED
        BY <1>3, <3>1, <3>2, <3>3, <3>4, <3>5
    <2> QED
      BY <1>1, <2>1, <2>2, SilentStep
  <1>4. ASSUME ParseSucceeds \/ (ParseFails /\ step' = "returned")
        PROVE  Dialogue'
    <2>1. /\ step = "parse" /\ step' \in {"act", "returned"}
          /\ UNCHANGED <<toolHistory, turn, query>>
      BY <1>4 DEF ParseSucceeds, ParseFails
    <2>2. history' = Append(history, Message("assistant"))
      BY <1>4 DEF ParseSucceeds, ParseFails
    <2> QED
      BY <1>1, <2>1, <2>2, AssistantStep
  <1>5. ASSUME Refuse \/ ToolEnds
        PROVE  Dialogue'
    <2>1. step \in {"act", "tool"} /\ Observe /\ (ToolLogged \/ UNCHANGED toolHistory)
      BY <1>5 DEF Refuse, ToolEnds
    <2> QED
      BY <1>1, <2>1, ObservationStep
  <1>6. ParseFails => step' = "post" \/ step' = "returned"
    BY DEF ParseFails
  <1>7. Dialogue'
    <2>1. \/ StartLoop \/ (\E r \in MasterReplies : PostAnswered(r)) \/ PostFailed
          \/ ParseFails \/ ParseSucceeds \/ Answer \/ Fails \/ Refuse
          \/ CallTool \/ ToolEnds \/ ToolPostFails
      BY DEF Run, RunLoop
    <2> QED
      BY <2>1, <1>2, <1>3, <1>4, <1>5, <1>6
  <1>8. LogsAreOwn'
    BY <1>1 DEF LogsAreOwn, DriverInv
  <1> QED
    BY <1>7, <1>8 DEF DriverInv

\* The logs written are those of the run that is over: its dialogue and its calls.
LEMMA WrittenIsOwn ==
  ASSUME DriverInv, SaveLogs, query = current
  PROVE  logs' \in [Questions -> LogType] /\ LogsAreOwn'
PROOF
  <1> USE DEF DriverInv, Dialogue
  <1>1. Written \in LogType /\ Written.master = history /\ Written.tools = toolHistory
    BY DEF Written, LogType, Typed
  <1>2. logs' \in [Questions -> LogType]
        /\ \A q \in Questions : logs'[q] = IF q = current THEN Written ELSE logs[q]
    BY <1>1 DEF SaveLogs, Typed
  <1>3. ASSUME NEW q \in Questions,
               q = current
        PROVE  /\ \A i \in DOMAIN history : history[i].query = q
               /\ \A i \in DOMAIN toolHistory :
                    /\ toolHistory[i].query = q
                    /\ i > 1 => toolHistory[i - 1].turn < toolHistory[i].turn
                    /\ LET at == 2 * toolHistory[i].turn + 2 IN
                         at \in DOMAIN history /\ history[at].role = "tool"
    <2>1. \A i \in DOMAIN history : history[i].query = q
      BY <1>3 DEF DialogueAlternates
    <2>2. ASSUME NEW i \in DOMAIN toolHistory
          PROVE  /\ toolHistory[i].query = q
                 /\ i > 1 => toolHistory[i - 1].turn < toolHistory[i].turn
                 /\ 2 * toolHistory[i].turn + 2 \in DOMAIN history
                 /\ history[2 * toolHistory[i].turn + 2].role = "tool"
      <3> DEFINE t == toolHistory[i].turn
      <3>1. i \in 1..Len(toolHistory) /\ DOMAIN history = 1..Len(history)
            /\ Len(history) \in Nat
        BY DEF Typed
      <3>2. t \in Nat
        BY <3>1, CallTurns DEF Typed
      <3>3. t > 0 /\ 2 * t + 2 <= Len(history)
        BY <3>1 DEF ToolsObserved
      <3>4. 2 * t + 2 \in DOMAIN history
        BY <3>1, <3>2, <3>3
      <3>5. history[2 * t + 2].role = "tool"
        BY <3>2, <3>3, <3>4, Places DEF DialogueAlternates
      <3> QED
        BY <1>3, <3>1, <3>4, <3>5 DEF ToolsObserved
    <2> QED
      BY <2>1, <2>2
  <1>4. LogsAreOwn'
    <2> SUFFICES ASSUME NEW q \in Questions
                 PROVE  /\ \A i \in DOMAIN logs'[q].master : logs'[q].master[i].query = q
                        /\ \A i \in DOMAIN logs'[q].tools :
                             /\ logs'[q].tools[i].query = q
                             /\ i > 1 => logs'[q].tools[i - 1].turn < logs'[q].tools[i].turn
                             /\ LET at == 2 * logs'[q].tools[i].turn + 2 IN
                                  /\ at \in DOMAIN logs'[q].master
                                  /\ logs'[q].master[at].role = "tool"
      BY DEF LogsAreOwn
    <2>1. CASE q = current
      BY <2>1, <1>1, <1>2, <1>3
    <2>2. CASE q # current
      BY <2>2, <1>2 DEF LogsAreOwn
    <2> QED
      BY <2>1, <2>2
  <1> QED
    BY <1>2, <1>4

\* A question that is over: the executor is emptied, the driver moves on.
LEMMA FinishStep ==
  ASSUME DriverInv, NEW r, Finish(r), logs' \in [Questions -> LogType], LogsAreOwn'
  PROVE  DriverInv'
PROOF
  <1>1. /\ history' = << >> /\ toolHistory' = << >> /\ query' = 0 /\ turn' = 0
        /\ step' = "idle" /\ current' = current + 1 /\ driver' \in {"done", "prepare"}
    BY DEF Finish, CleanupAgentState, Emptied, Advance
  <1>2. current' \in Nat
    BY <1>1 DEF DriverInv, Dialogue, Typed
  <1>3. InStep'
    BY <1>1 DEF InStep
  <1>4. Dialogue'
    BY <1>1, <1>2, <1>3, ResetStep DEF DriverInv
  <1> QED
    BY <1>4 DEF DriverInv

LEMMA NextInv == ASSUME DriverInv, [Next]_vars PROVE DriverInv'
PROOF
  <1> USE DEF DriverInv
  <1>1. CASE Skip
    <2>1. /\ UNCHANGED <<step, query, turn, history, toolHistory, logs>>
          /\ current' = current + 1 /\ driver' \in {"done", "prepare"}
      BY <1>1 DEF Skip, Advance, execVars, dialogue
    <2>2. Typed'
      BY <2>1 DEF Dialogue, Typed
    <2>3. InStep'
      BY <2>1 DEF InStep
    <2>4. DialogueAlternates' /\ ToolsObserved'
      BY <2>1 DEF Dialogue, DialogueAlternates, ToolsObserved, RoleAt
    <2>5. LogsAreOwn'
      BY <2>1 DEF LogsAreOwn
    <2> QED
      BY <2>2, <2>3, <2>4, <2>5 DEF Dialogue
  <1>2. CASE Prepare
    <2>1. /\ history' = << >> /\ toolHistory' = << >> /\ query' = current /\ turn' = 0
          /\ step' = "ready" /\ driver' = "run" /\ UNCHANGED <<current, logs>>
      BY <1>2 DEF Prepare, InitAgentState, Emptied, driverVars
    <2>2. InStep'
      BY <2>1 DEF InStep
    <2>3. Dialogue'
      BY <2>1, <2>2, ResetStep DEF Dialogue, Typed
    <2>4. LogsAreOwn'
      BY <2>1 DEF LogsAreOwn
    <2> QED
      BY <2>3, <2>4
  <1>3. CASE Run
    BY <1>3, RunInv
  <1>4. CASE Score
    <2>1. query = current /\ SaveLogs
      BY <1>4 DEF Score, Returned, Dialogue, InStep
    <2> QED
      BY <1>4, <2>1, WrittenIsOwn, FinishStep DEF Score
  <1>5. CASE Lose \/ JudgeFiltered
    <2>1. UNCHANGED logs
      BY <1>5 DEF Lose, JudgeFiltered
    <2>2. LogsAreOwn' /\ logs' \in [Questions -> LogType]
      BY <2>1 DEF LogsAreOwn, Dialogue, Typed
    <2> QED
      BY <1>5, <2>2, FinishStep DEF Lose, JudgeFiltered
  <1>6. CASE Judge
    <2>1. /\ UNCHANGED <<step, query, turn, history, toolHistory, logs, current>>
          /\ driver = "run" /\ step = "returned" /\ driver' = "judge"
      BY <1>6 DEF Judge, Returned, execVars, dialogue
    <2>2. Typed' /\ InStep'
      BY <2>1 DEF Dialogue, Typed, InStep
    <2>3. DialogueAlternates' /\ ToolsObserved' /\ LogsAreOwn'
      BY <2>1 DEF Dialogue, DialogueAlternates, ToolsObserved, RoleAt, LogsAreOwn
    <2> QED
      BY <2>2, <2>3 DEF Dialogue
  <1>7. CASE Judged \/ (JudgeFails /\ ~(tries + 1 < JudgeTries))
    <2>1. query = current /\ SaveLogs
      BY <1>7 DEF Judged, JudgeFails, Dialogue, InStep
    <2> QED
      BY <1>7, <2>1, WrittenIsOwn, FinishStep DEF Judged, JudgeFails
  <1>8. CASE (JudgeFails /\ (tries + 1 < JudgeTries)) \/ Done \/ UNCHANGED vars
    <2>1. UNCHANGED <<step, query, turn, history, toolHistory, logs, current, driver>>
      BY <1>8 DEF JudgeFails, Done, vars, execVars, driverVars, dialogue
    <2>2. Typed' /\ InStep'
      BY <2>1 DEF Dialogue, Typed, InStep
    <2>3. DialogueAlternates' /\ ToolsObserved' /\ LogsAreOwn'
      BY <2>1 DEF Dialogue, DialogueAlternates, ToolsObserved, RoleAt, LogsAreOwn
    <2> QED
      BY <2>2, <2>3 DEF Dialogue
  <1> QED
    BY <1>1, <1>2, <1>3, <1>4, <1>5, <1>6, <1>7, <1>8 DEF Next

\* The invariant behind the two theorems: the place of every message, the
\* observation of every logged call, and the question the executor works for.
THEOREM DriverInvariant == Spec => []DriverInv
PROOF
  <1>1. DriverInv /\ [Next]_vars => DriverInv'
    BY NextInv
  <1> QED
    BY InitDriver, <1>1, PTL DEF Spec

\* The dialogue alternates, whatever fails and however often the master is asked.
THEOREM Alternates == Spec => []DialogueAlternates
PROOF
  <1>1. DriverInv => DialogueAlternates
    BY DEF DriverInv, Dialogue
  <1> QED
    BY <1>1, DriverInvariant, PTL

\* The logs of a question are its own although one executor answers them all.
THEOREM LogsKeptApart == Spec => []LogsAreOwn
PROOF
  <1>1. DriverInv => LogsAreOwn
    BY DEF DriverInv
  <1> QED
    BY <1>1, DriverInvariant, PTL

-----------------------------------------------------------------------------
\* What the driver remembers of each question: nothing of those to come, a graded
\* answer of those behind; a run that returned has a dialogue to log.
Remembered ==
  /\ truth \in [Questions -> Letters] /\ finals \in [Questions -> Answers]
  /\ driver \in {"prepare", "run"} => current <= NumQuestions
  /\ driver = "judge" => current <= NumQuestions /\ task = "open"
  /\ step \in {"post", "parse", "act", "tool", "returned"} => history # << >>
  /\ task # "open" => \A q \in Questions : q >= current => finals[q] = Raised
AnswersInv == DriverInv /\ TypeOK /\ Remembered
                /\ CorrectWasAnswered /\ PromptedAnswerLogged

\* What the executor's texts and the master's answers are.
LEMMA AnswerShapes ==
  /\ \A f \in Answers : f.shape \in Shapes => f \in Given
  /\ Raised \in Answers /\ Raised.shape = "raised" /\ Unexpected \in Answers
  /\ \A r \in Replies : r.final \in Answers
  /\ MasterReplies \subseteq Replies /\ Reply("apiError") \in Replies
  /\ Reply("prose") \in Replies
PROOF
  <1>1. Default \in Answers /\ Given \subseteq Answers /\ Null \in Answers
        /\ Raised \in Answers /\ Unexpected \in Answers /\ Raised.shape = "raised"
    BY DEF Answers, Raised
  <1>2. \A f \in Answers : f.shape \in Shapes => f \in Given
    BY DEF Answers, Null, Default, Unexpected, Raised, Shapes
  <1>3. \A k : Reply(k).final = Default
    BY DEF Reply
  <1>4. \A r \in Replies : r.final \in Answers
    BY <1>1, <1>3 DEF Replies, MasterReplies
  <1>5. MasterReplies \subseteq Replies /\ Reply("apiError") \in Replies
        /\ Reply("prose") \in Replies
    BY DEF Replies, MasterReplies
  <1> QED
    BY <1>1, <1>2, <1>4, <1>5

\* Every task with a key reads no letter in an answer the master did not give.
LEMMA ReadsGiven ==
  ASSUME task \in {"choice", "interval"}, NEW f \in Answers, NEW letter \in Read(f),
         letter \in Letters
  PROVE  f \in Given
PROOF
  <1>1. letter # None
    BY ExecutorAssumption
  <1>2. f.shape \in Shapes
    BY <1>1 DEF Read, ReadChoice, ReadInterval, Shapes
  <1> QED
    BY <1>2, AnswerShapes

LEMMA InitAnswers == Init => AnswersInv
PROOF
  <1> SUFFICES ASSUME Init PROVE AnswersInv
    OBVIOUS
  <1>1. DriverInv
    BY InitDriver
  <1>2. NumQuestions \in Nat /\ MaxTurns \in Nat /\ FormatTries \in Nat /\ ChatTries \in Nat
        /\ ToolTries \in Nat /\ JudgeTries \in Nat
    BY DriverAssumption, ExecutorAssumption
  <1>3. TypeOK
    BY <1>2, AnswerShapes DEF Init, ExecInit, TypeOK
  <1>4. Remembered
    BY <1>2, AnswerShapes DEF Init, ExecInit, Remembered, Questions
  <1>5. CorrectWasAnswered /\ PromptedAnswerLogged
    BY <1>2 DEF Init, CorrectWasAnswered, PromptedAnswerLogged, Raised
  <1> QED
    BY <1>1, <1>3, <1>4, <1>5 DEF AnswersInv

\* What a step of the loop keeps of the executor's types, and that it has a dialogue.
LEMMA RunAnswers ==
  ASSUME AnswersInv, Run
  PROVE  AnswersInv'
PROOF
  <1>0. DriverInv'
    BY RunInv DEF AnswersInv
  <1>1. driver = "run" /\ UNCHANGED <<driver, task, current, truth, tries, results, finals, logs>>
    BY DEF Run, driverVars
  <1>2. /\ MaxTurns \in Nat /\ FormatTries \in Nat /\ ChatTries \in Nat /\ ToolTries \in Nat
        /\ MaxTurns > 0 /\ FormatTries > 0
    BY ExecutorAssumption
  <1>3. /\ turn \in 0..MaxTurns /\ attempt \in 0..FormatTries
        /\ posts \in 0..(ChatTries + ToolTries) /\ reply \in Replies /\ final \in Answers
        /\ query \in {0} \cup Questions
        /\ turn \in Nat /\ attempt \in Nat /\ posts \in Nat
    BY DEF AnswersInv, TypeOK
  <1>4. /\ history \in Seq(Msg) /\ history' \in Seq(Msg)
    BY <1>0 DEF AnswersInv, DriverInv, Dialogue, Typed
  <1> DEFINE Kept == /\ turn' \in 0..MaxTurns /\ attempt' \in 0..FormatTries
                     /\ posts' \in 0..(ChatTries + ToolTries) /\ reply' \in Replies
                     /\ final' \in Answers /\ query' = query /\ history' # << >>
                     /\ step' \in {"post", "parse", "act", "tool", "returned"}
  <1>5. step \in {"post", "parse", "act", "tool", "returned"} => history # << >>
    BY DEF AnswersInv, Remembered
  <1>6. \A m : Append(history, m) # << >>
    BY <1>4
  <1>a. ASSUME StartLoop PROVE Kept
    BY <1>a, <1>2, <1>3, AnswerShapes DEF StartLoop, NextTurn
  <1>b. ASSUME NEW r \in MasterReplies, PostAnswered(r) PROVE Kept
    BY <1>b, <1>2, <1>3, <1>5, AnswerShapes DEF PostAnswered, dialogue
  <1>c. ASSUME PostFailed PROVE Kept
    BY <1>c, <1>2, <1>3, <1>5, AnswerShapes DEF PostFailed, LastPost, dialogue
  <1>d. ASSUME ParseFails PROVE Kept
    BY <1>d, <1>2, <1>3, <1>5, <1>6 DEF ParseFails, AttemptCounted, ReminderSent
  <1>e. ASSUME ParseSucceeds PROVE Kept
    BY <1>e, <1>2, <1>3, <1>5, <1>6 DEF ParseSucceeds
  <1>f. ASSUME Answer PROVE Kept
    BY <1>f, <1>2, <1>3, <1>5, AnswerShapes DEF Answer, dialogue
  <1>g. ASSUME Fails PROVE Kept
    BY <1>g, <1>2, <1>3, <1>5, AnswerShapes DEF Fails, dialogue
  <1>h. ASSUME Observe PROVE Kept
    BY <1>h, <1>2, <1>3, <1>6 DEF Observe, NextTurn
  <1>i. ASSUME Refuse \/ ToolEnds PROVE Kept
    BY <1>h, <1>i DEF Refuse, ToolEnds
  <1>j. ASSUME CallTool PROVE Kept
    BY <1>j, <1>2, <1>3, <1>5 DEF CallTool, dialogue
  <1>k. ASSUME ToolPostFails PROVE Kept
    BY <1>k, <1>2, <1>3, <1>5 DEF ToolPostFails, LastPost, dialogue
  <1>7. Kept
    <2>1. \/ StartLoop \/ (\E r \in MasterReplies : PostAnswered(r)) \/ PostFailed
          \/ ParseFails \/ ParseSucceeds \/ Answer \/ Fails \/ Refuse
          \/ CallTool \/ ToolEnds \/ ToolPostFails
      BY DEF Run, RunLoop
    <2> HIDE DEF Kept
    <2> QED
      BY <2>1, <1>a, <1>b, <1>c, <1>d, <1>e, <1>f, <1>g, <1>i, <1>j, <1>k
  <1>8. TypeOK'
    BY <1>1, <1>7 DEF AnswersInv, TypeOK
  <1>9. Remembered'
    BY <1>1, <1>7 DEF AnswersInv, Remembered
  <1>10. CorrectWasAnswered' /\ PromptedAnswerLogged'
    BY <1>1 DEF AnswersInv, CorrectWasAnswered, PromptedAnswerLogged
  <1> QED
    BY <1>0, <1>8, <1>9, <1>10 DEF AnswersInv

\* The question at hand is over: the driver's own variables advance.
LEMMA AdvanceTyped ==
  ASSUME TypeOK, Remembered, driver \in {"prepare", "run", "judge"}, Advance,
         \/ step' = "idle" /\ query' = 0 /\ turn' = 0
         \/ UNCHANGED <<step, query, turn>>,
         UNCHANGED <<attempt, posts, reply, final, task>>,
         results' \in [Questions -> {"none", "skipped", "lost", "wrong", "correct", "unscored"}]
  PROVE  /\ TypeOK'
         /\ current \in Questions /\ current' = current + 1
         /\ driver' \in {"prepare", "run"} => current' <= NumQuestions
         /\ driver' # "judge"
PROOF
  <1>1. NumQuestions \in Nat /\ JudgeTries \in Nat /\ MaxTurns \in Nat
    BY DriverAssumption, ExecutorAssumption
  <1>2. current \in 1..(NumQuestions + 1) /\ current <= NumQuestions
    BY DEF TypeOK, Remembered
  <1>3. current \in Questions /\ current' \in 1..(NumQuestions + 1) /\ current' = current + 1
    BY <1>1, <1>2 DEF Advance, Questions
  <1>4. driver' = IF current = NumQuestions THEN "done" ELSE "prepare"
    BY DEF Advance
  <1>5. tries' \in 0..JudgeTries /\ turn' \in 0..MaxTurns
    BY <1>1 DEF Advance, TypeOK
  <1>6. TypeOK'
    BY <1>3, <1>4, <1>5 DEF TypeOK
  <1> QED
    BY <1>1, <1>2, <1>3, <1>4, <1>6

-----------------------------------------------------------------------------
\* A question that is over keeps the promises, given what was written for it.
LEMMA OverStep ==
  ASSUME AnswersInv, DriverInv', TypeOK', current \in Questions, current' = current + 1,
         driver' \in {"prepare", "run"} => current' <= NumQuestions, driver' # "judge",
         UNCHANGED <<task, truth>>, step' = "idle" \/ UNCHANGED <<step, history>>,
         NEW r, \A q \in Questions : results'[q] = IF q = current THEN r ELSE results[q],
         finals' \in [Questions -> Answers],
         \A q \in Questions : q # current => finals'[q] = finals[q],
         task \in {"choice", "interval"} /\ r = "correct" => finals'[current] \in Given,
         \A q \in Questions : q # current => logs'[q] = logs[q],
         task \in {"choice", "uav"} /\ finals'[current].shape = "text" => logs'[current] # NoLog
  PROVE  AnswersInv'
PROOF
  <1>1. /\ truth \in [Questions -> Letters]
        /\ current \in Nat /\ NumQuestions \in Nat
        /\ step \in {"post", "parse", "act", "tool", "returned"} => history # << >>
    BY DriverAssumption DEF AnswersInv, Remembered, TypeOK, Questions
  <1>4. \A q \in Questions : q \in Nat
    BY DEF Questions
  <1>5. task # "open" => \A q \in Questions : q >= current' => finals'[q] = Raised
    <2> SUFFICES ASSUME task # "open", NEW q \in Questions, q >= current'
                 PROVE  finals'[q] = Raised
      OBVIOUS
    <2>1. q # current /\ q >= current
      BY <1>1, <1>4
    <2> QED
      BY <2>1 DEF AnswersInv, Remembered
  <1>6. Remembered'
    BY <1>1, <1>5 DEF Remembered
  <1>7. CorrectWasAnswered'
    <2> SUFFICES ASSUME task \in {"choice", "interval"}, NEW q \in Questions,
                        results'[q] = "correct"
                 PROVE  finals'[q] \in Given
      BY <1>1 DEF CorrectWasAnswered
    <2>1. CASE q = current
      BY <2>1, <1>1
    <2>2. CASE q # current
      BY <2>2 DEF AnswersInv, CorrectWasAnswered
    <2> QED
      BY <2>1, <2>2
  <1>8. PromptedAnswerLogged'
    <2> SUFFICES ASSUME task \in {"choice", "uav"}, NEW q \in Questions,
                        q < current', finals'[q].shape = "text"
                 PROVE  logs'[q] # NoLog
      BY DEF PromptedAnswerLogged
    <2>1. CASE q = current
      BY <2>1
    <2>2. CASE q # current
      <3>1. q < current
        <4>1. q \in Nat /\ current \in Nat /\ q < current + 1
          BY <1>1, <1>4
        <4> QED
          BY <2>2, <4>1
      <3> QED
        BY <2>2, <3>1 DEF AnswersInv, PromptedAnswerLogged
    <2> QED
      BY <2>1, <2>2
  <1> QED
    BY <1>6, <1>7, <1>8 DEF AnswersInv

\* What is written of a run that returned is not empty.
LEMMA WrittenNotEmpty ==
  ASSUME AnswersInv, step = "returned", SaveLogs
  PROVE  /\ \A q \in Questions : q # current => logs'[q] = logs[q]
         /\ current \in Questions => logs'[current] # NoLog
PROOF
  <1>1. logs \in [Questions -> LogType] /\ history # << >>
    BY DEF AnswersInv, DriverInv, Dialogue, Typed, Remembered
  <1>2. Written # NoLog
    BY <1>1 DEF Written, NoLog
  <1> QED
    BY <1>1, <1>2 DEF SaveLogs

LEMMA NextAnswers == ASSUME AnswersInv, [Next]_vars PROVE AnswersInv'
PROOF
  <1>0. DriverInv'
    BY NextInv DEF AnswersInv
  <1>1. NumQuestions \in Nat /\ JudgeTries \in Nat /\ JudgeTries > 0
    BY DriverAssumption
  <1>2. TypeOK /\ Remembered
    BY DEF AnswersInv
  <1>3. /\ final \in Answers /\ finals \in [Questions -> Answers]
        /\ truth \in [Questions -> Letters] /\ current \in Nat /\ current \in 1..(NumQuestions + 1)
    BY <1>1, <1>2 DEF TypeOK, Remembered
  <1>4. ASSUME NEW r \in {"skipped", "lost", "wrong", "correct", "unscored"},
               results' = [results EXCEPT ![current] = r]
        PROVE  /\ results' \in [Questions -> {"none", "skipped", "lost", "wrong", "correct",
                                               "unscored"}]
               /\ \A q \in Questions : results'[q] = IF q = current THEN r ELSE results[q]
    BY <1>2, <1>4 DEF TypeOK
  <1>5. finals' = [finals EXCEPT ![current] = final] \/ UNCHANGED finals
        => /\ finals' \in [Questions -> Answers]
           /\ \A q \in Questions : q # current => finals'[q] = finals[q]
    BY <1>3
  <1>a. CASE Skip
    <2>1. /\ driver = "prepare" /\ Advance /\ UNCHANGED <<attempt, posts, reply, final, task>>
          /\ UNCHANGED <<step, query, turn, history>>
          /\ results' = [results EXCEPT ![current] = "skipped"]
          /\ UNCHANGED <<truth, finals, logs>>
      BY <1>a DEF Skip, execVars, dialogue
    <2>2. /\ TypeOK' /\ current \in Questions /\ current' = current + 1
          /\ driver' \in {"prepare", "run"} => current' <= NumQuestions
          /\ driver' # "judge"
      BY <1>2, <1>4, <2>1, AdvanceTyped
    <2>3. task # "open" => finals[current] = Raised
      BY <1>2, <1>3, <2>2 DEF Remembered
    <2>4. Raised.shape # "text"
      BY DEF Raised
    <2> QED
      BY <1>0, <1>4, <1>5, <2>1, <2>2, <2>3, <2>4, OverStep
  <1>b. CASE Prepare
    <2>1. /\ driver = "prepare" /\ driver' = "run" /\ step' = "ready" /\ query' = current
          /\ turn' = 0 /\ UNCHANGED <<attempt, posts, reply, final, driverVars>>
      BY <1>b DEF Prepare, InitAgentState
    <2>2. current \in Questions
      BY <1>1, <1>2, <1>3, <2>1 DEF Remembered, Questions
    <2>3. 0 \in 0..MaxTurns
      BY ExecutorAssumption
    <2>4. TypeOK'
      BY <1>2, <2>1, <2>2, <2>3 DEF TypeOK, driverVars
    <2>5. Remembered'
      BY <1>2, <2>1 DEF Remembered, driverVars
    <2>6. CorrectWasAnswered' /\ PromptedAnswerLogged'
      BY <2>1 DEF AnswersInv, CorrectWasAnswered, PromptedAnswerLogged, driverVars
    <2> QED
      BY <1>0, <2>4, <2>5, <2>6 DEF AnswersInv
  <1>c. CASE Run
    BY <1>c, RunAnswers
  <1>d. CASE Score
    <2>1. PICK letter \in Read(final) : Finish(Grade(letter))
      BY <1>d DEF Score
    <2>2. /\ driver = "run" /\ step = "returned" /\ SaveLogs
          /\ finals' = [finals EXCEPT ![current] = final]
      BY <1>d DEF Score, Returned, Remember
    <2>3. Grade(letter) \in {"correct", "wrong"}
      BY DEF Grade
    <2>4. /\ Advance /\ UNCHANGED <<attempt, posts, reply, final, task, truth>>
          /\ step' = "idle" /\ query' = 0 /\ turn' = 0
          /\ results' = [results EXCEPT ![current] = Grade(letter)]
      BY <2>1 DEF Finish, CleanupAgentState
    <2>5. /\ TypeOK' /\ current \in Questions /\ current' = current + 1
          /\ driver' \in {"prepare", "run"} => current' <= NumQuestions
          /\ driver' # "judge"
      BY <1>2, <1>4, <2>2, <2>3, <2>4, AdvanceTyped
    <2>6. task \in {"choice", "interval"} /\ Grade(letter) = "correct" => final \in Given
      <3> SUFFICES ASSUME task \in {"choice", "interval"}, Grade(letter) = "correct"
                   PROVE  final \in Given
        OBVIOUS
      <3>1. letter \in Letters
        BY <1>3, <2>5 DEF Grade
      <3> QED
        BY <3>1, <1>3, ReadsGiven
    <2>7. /\ \A q \in Questions : q # current => logs'[q] = logs[q]
          /\ logs'[current] # NoLog
      BY <2>2, <2>5, WrittenNotEmpty
    <2>8. finals'[current] = final
      BY <1>3, <2>2, <2>5
    <2> QED
      BY <1>0, <1>4, <1>5, <2>2, <2>3, <2>4, <2>5, <2>6, <2>7, <2>8, OverStep
  <1>e. CASE Lose
    <2>1. /\ driver = "run" /\ step = "returned" /\ MayRaise(final) /\ Finish("lost")
          /\ finals' = [finals EXCEPT ![current] = final] /\ UNCHANGED logs
      BY <1>e DEF Lose, Returned, Remember
    <2>2. /\ Advance /\ UNCHANGED <<attempt, posts, reply, final, task, truth>>
          /\ step' = "idle" /\ query' = 0 /\ turn' = 0
          /\ results' = [results EXCEPT ![current] = "lost"]
      BY <2>1 DEF Finish, CleanupAgentState
    <2>3. /\ TypeOK' /\ current \in Questions /\ current' = current + 1
          /\ driver' \in {"prepare", "run"} => current' <= NumQuestions
          /\ driver' # "judge"
      BY <1>2, <1>4, <2>1, <2>2, AdvanceTyped
    <2>4. finals'[current] = final
      BY <1>3, <2>1, <2>3
    <2>5. task \in {"choice", "uav"} => final.shape # "text"
      BY <2>1 DEF MayRaise
    <2> QED
      BY <1>0, <1>4, <1>5, <2>1, <2>2, <2>3, <2>4, <2>5, OverStep
  <1>f. CASE Judge
    <2>1. /\ driver = "run" /\ task = "open" /\ driver' = "judge"
          /\ finals' = [finals EXCEPT ![current] = final]
          /\ UNCHANGED <<execVars, task, current, truth, tries, results, logs>>
      BY <1>f DEF Judge, Returned, Remember
    <2>2. TypeOK'
      BY <1>2, <2>1 DEF TypeOK, execVars
    <2>3. finals' \in [Questions -> Answers]
      BY <1>3, <2>1
    <2>4. Remembered'
      BY <1>2, <2>1, <2>3 DEF Remembered, execVars, dialogue
    <2>5. CorrectWasAnswered' /\ PromptedAnswerLogged'
      BY <2>1 DEF CorrectWasAnswered, PromptedAnswerLogged
    <2> QED
      BY <1>0, <2>2, <2>4, <2>5 DEF AnswersInv
  <1>g. CASE JudgeFails /\ tries + 1 < JudgeTries
    <2>1. /\ tries' = tries + 1
          /\ UNCHANGED <<execVars, task, driver, current, truth, results, finals, logs>>
      BY <1>g DEF JudgeFails
    <2>2. TypeOK'
      <3>1. tries' \in 0..JudgeTries
        BY <1>1, <1>2, <1>g, <2>1 DEF TypeOK
      <3> QED
        BY <1>2, <2>1, <3>1 DEF TypeOK, execVars
    <2>3. Remembered'
      BY <1>2, <2>1 DEF Remembered, execVars, dialogue
    <2>4. CorrectWasAnswered' /\ PromptedAnswerLogged'
      BY <2>1 DEF AnswersInv, CorrectWasAnswered, PromptedAnswerLogged
    <2> QED
      BY <1>0, <2>2, <2>3, <2>4 DEF AnswersInv
  <1>h. CASE Judged \/ (JudgeFails /\ ~(tries + 1 < JudgeTries)) \/ JudgeFiltered
    <2>1. PICK r \in {"correct", "wrong", "unscored", "lost"} : Finish(r)
      BY <1>h DEF Judged, JudgeFails, JudgeFiltered
    <2>2. driver = "judge" /\ UNCHANGED finals /\ (SaveLogs \/ UNCHANGED logs)
      BY <1>h DEF Judged, JudgeFails, JudgeFiltered
    <2>3. /\ Advance /\ UNCHANGED <<attempt, posts, reply, final, task, truth>>
          /\ step' = "idle" /\ query' = 0 /\ turn' = 0
          /\ results' = [results EXCEPT ![current] = r]
      BY <2>1 DEF Finish, CleanupAgentState
    <2>4. /\ TypeOK' /\ current \in Questions /\ current' = current + 1
          /\ driver' \in {"prepare", "run"} => current' <= NumQuestions
          /\ driver' # "judge"
      BY <1>2, <1>4, <2>2, <2>3, AdvanceTyped
    <2>5. task = "open" /\ step = "returned"
      BY <1>2, <2>2 DEF Remembered, AnswersInv, DriverInv, Dialogue, InStep
    <2>6. \A q \in Questions : q # current => logs'[q] = logs[q]
      BY <2>2, <2>5, WrittenNotEmpty
    <2> QED
      BY <1>0, <1>4, <1>5, <2>2, <2>3, <2>4, <2>5, <2>6, OverStep
  <1>i. CASE Done \/ UNCHANGED vars
    <2>1. UNCHANGED vars
      BY <1>i DEF Done
    <2>2. TypeOK' /\ Remembered'
      BY <1>2, <2>1 DEF TypeOK, Remembered, vars, execVars, driverVars, dialogue
    <2>3. CorrectWasAnswered' /\ PromptedAnswerLogged'
      BY <2>1 DEF AnswersInv, CorrectWasAnswered, PromptedAnswerLogged, vars, driverVars
    <2> QED
      BY <1>0, <2>2, <2>3 DEF AnswersInv
  <1> QED
    BY <1>a, <1>b, <1>c, <1>d, <1>e, <1>f, <1>g, <1>h, <1>i DEF Next

\* What the master answered reaches the score and the summary, and nothing else does.
THEOREM AnswersAlwaysCount == Spec => []AnswersCount
PROOF
  <1>1. AnswersInv /\ [Next]_vars => AnswersInv'
    BY NextAnswers
  <1>2. AnswersInv => AnswersCount
    BY DEF AnswersInv, AnswersCount
  <1> QED
    BY InitAnswers, <1>1, <1>2, PTL DEF Spec
=============================================================================
