--------------------------- MODULE BenchmarkDriver ---------------------------
(***************************************************************************)
(* A benchmark driver, run_tasks/run_<task>_agent.py: one executor answers *)
(* the questions one after the other; each answer is parsed as its task    *)
(* asks, scored and logged, and an exception loses the question only.      *)
(***************************************************************************)
EXTENDS AgentExecutor

CONSTANTS
  NumQuestions,
  Tasks,       \* of "choice" (CC, NC, PI, PEA), "uav" (MOC, MSR), "interval" (FSA), "open" (CCQA)
  JudgeTries   \* max_scoring_retries of CCQA: 3

Questions == 1..NumQuestions

ASSUME DriverAssumption ==
  /\ NumQuestions \in Nat /\ Tasks \subseteq {"choice", "uav", "interval", "open"}
  /\ JudgeTries \in Nat \ {0}

VARIABLES
  task,      \* the task whose driver runs
  driver,    \* "prepare", "run", "judge", "done"
  current,   \* the question at hand
  truth,     \* the right answer of each question
  tries,     \* scoring attempts
  results,   \* per question "none", "skipped", "lost", "wrong", "correct", "unscored"
  finals,    \* ghost: the final answer of each question the loop returned for
  logs       \* what save_logs wrote of each question

driverVars == <<task, current, truth, tries, results, finals, logs>>
vars == <<execVars, driver, driverVars>>

NoLog == [master |-> << >>, tools |-> << >>]

Init ==
  /\ ExecInit /\ task \in Tasks
  /\ driver = IF NumQuestions = 0 THEN "done" ELSE "prepare"
  /\ current = 1 /\ tries = 0
  /\ truth \in [Questions -> Letters]
  /\ results = [q \in Questions |-> "none"]
  /\ finals = [q \in Questions |-> Raised]
  /\ logs = [q \in Questions |-> NoLog]

Advance ==
  /\ current' = current + 1 /\ tries' = 0
  /\ driver' = IF current = NumQuestions THEN "done" ELSE "prepare"

\* A video whose metadata cannot be read skips the question.
Skip ==
  /\ driver = "prepare"
  /\ results' = [results EXCEPT ![current] = "skipped"] /\ Advance
  /\ UNCHANGED <<execVars, task, truth, finals, logs>>

Prepare ==
  /\ driver = "prepare" /\ InitAgentState(current) /\ driver' = "run"
  /\ UNCHANGED driverVars

Run == driver = "run" /\ RunLoop /\ UNCHANGED <<driver, driverVars>>

\* What the task's parser may read in an answer; None for nothing.
Anything == Letters \cup {None}
\* The fallback takes the first character that is an option letter, and the
\* executor's own texts hold some: "No answer provided", "... ended ...", "... object ...".
OwnLetters == [default |-> {"A"}, unexpected |-> {"D"}, raised |-> {"B", "D"}]
ReadUav(f) ==
  IF f.shape \in {"text", "list"} THEN {f.letter}
  ELSE IF f.shape = "sentence" THEN Anything
  ELSE IF f.shape \in DOMAIN OwnLetters THEN OwnLetters[f.shape] ELSE {None}
ReadChoice(f) ==
  IF f.shape \in {"text", "list", "object"} THEN {f.letter}
  ELSE IF f.shape = "sentence" THEN Anything ELSE {None}
ReadInterval(f) ==
  IF f.shape = "text" THEN {f.letter}
  ELSE IF f.shape = "sentence" THEN Anything ELSE {None}
Read(f) ==
  IF task = "choice" THEN ReadChoice(f)
  ELSE IF task = "uav" THEN ReadUav(f) ELSE ReadInterval(f)

\* The answers on which the task's parser may raise: an object whose content is
\* not iterable; for FSA, whatever is not a string (its object always raises).
MayRaise(f) ==
  \/ task = "choice" /\ f.shape = "object"
  \/ task = "interval" /\ f.shape \in {"list", "object", "null"}
  \/ task = "open" /\ f.shape \in {"list", "object"}
MustRaise(f) == MayRaise(f) /\ (f.shape = "object" => task = "interval")

Grade(letter) == IF letter = truth[current] THEN "correct" ELSE "wrong"

Written == [master |-> history, tools |-> toolHistory]
SaveLogs == logs' = [logs EXCEPT ![current] = Written]

Finish(result) ==
  /\ results' = [results EXCEPT ![current] = result]
  /\ CleanupAgentState /\ Advance
  /\ UNCHANGED <<attempt, posts, reply, final, task, truth>>

Returned == driver = "run" /\ step = "returned"
Remember == finals' = [finals EXCEPT ![current] = final]

Score ==
  /\ Returned /\ task # "open" /\ ~MustRaise(final)
  /\ \E letter \in Read(final) : Finish(Grade(letter))
  /\ Remember /\ SaveLogs

\* The parser raises: the question is neither scored nor logged.
Lose ==
  /\ Returned /\ MayRaise(final)
  /\ Finish("lost") /\ Remember /\ UNCHANGED logs

\* CCQA sends the answer to a scoring model.
Judge ==
  /\ Returned /\ task = "open" /\ ~MustRaise(final) /\ driver' = "judge"
  /\ Remember /\ UNCHANGED <<execVars, task, current, truth, tries, results, logs>>

Judged ==
  /\ driver = "judge" /\ \E r \in {"correct", "wrong"} : Finish(r)
  /\ SaveLogs /\ UNCHANGED finals

JudgeFails ==
  /\ driver = "judge"
  /\ IF tries + 1 < JudgeTries
       THEN /\ tries' = tries + 1
            /\ UNCHANGED <<execVars, task, driver, current, truth, results, finals, logs>>
       ELSE Finish("unscored") /\ SaveLogs /\ UNCHANGED finals

\* A content filter refuses the answer: the rephrasing method does not exist.
JudgeFiltered ==
  /\ driver = "judge" /\ Finish("lost") /\ UNCHANGED <<finals, logs>>

Done == driver = "done" /\ UNCHANGED vars

Next ==
  \/ Skip \/ Prepare \/ Run \/ Score \/ Lose
  \/ Judge \/ Judged \/ JudgeFails \/ JudgeFiltered \/ Done

Spec == Init /\ [][Next]_vars
FairSpec == Spec /\ WF_vars(Next)
-----------------------------------------------------------------------------
TypeOK ==
  /\ task \in Tasks
  /\ step \in {"idle", "ready", "post", "parse", "act", "tool", "returned"}
  /\ query \in {0} \cup Questions /\ turn \in 0..MaxTurns /\ attempt \in 0..FormatTries
  /\ posts \in 0..(ChatTries + ToolTries) /\ reply \in Replies /\ final \in Answers
  /\ driver \in {"prepare", "run", "judge", "done"} /\ current \in 1..(NumQuestions + 1)
  /\ tries \in 0..JudgeTries
  /\ results \in [Questions -> {"none", "skipped", "lost", "wrong", "correct", "unscored"}]

\* Whatever replies, failures and retries a run meets, its dialogue is the prompt
\* and then, for each turn in order, one assistant message and its observation;
\* only the turn under way, or the one the run ended on, lacks the observation.
RoleAt(i) == IF i = 1 THEN "system" ELSE IF i = 2 THEN "user"
             ELSE IF i % 2 = 1 THEN "assistant" ELSE "tool"
DialogueAlternates ==
  /\ \A i \in DOMAIN history :
       /\ history[i].role = RoleAt(i) /\ history[i].query = query
       /\ i > 2 => history[i].turn = (i - 1) \div 2
  /\ step \in {"post", "parse"} => Len(history) = 2 * turn
  /\ step \in {"act", "tool"} => Len(history) = 2 * turn + 1

\* Both logs saved for a question are of that question's run alone, and each tool
\* entry stands for one executed call, in turn order, whose observation the dialogue
\* holds at that turn.
LogsAreOwn ==
  \A q \in Questions :
    LET log == logs[q] IN
      /\ \A i \in DOMAIN log.master : log.master[i].query = q
      /\ \A i \in DOMAIN log.tools :
           /\ log.tools[i].query = q
           /\ i > 1 => log.tools[i - 1].turn < log.tools[i].turn
           /\ LET at == 2 * log.tools[i].turn + 2 IN
                at \in DOMAIN log.master /\ log.master[at].role = "tool"

\* A question is scored correct only if the master gave an answer to it: no text of
\* the executor's own, for a run that ended without one, earns the point.  The drivers
\* of MOC and MSR break this: their parser finds a letter in those texts (ReadUav); in
\* CCQA a model judges.
CorrectWasAnswered ==
  task \in {"choice", "interval"} => \A q \in Questions : results[q] = "correct" => finals[q] \in Given

\* An answer in the shape the prompt asks for reaches the summary: once its question
\* is over its logs are written.  FSA breaks this, its parser raises on the list its
\* prompt asks for, and CCQA, where a filtered answer raises (JudgeFiltered).
PromptedAnswerLogged ==
  task \in {"choice", "uav"} =>
    \A q \in Questions : q < current /\ finals[q].shape = "text" => logs[q] # NoLog

\* What the master answered counts, and nothing else does.
AnswersCount == TypeOK /\ CorrectWasAnswered /\ PromptedAnswerLogged

\* The driver comes to its summary, and by then every question has a result.
SummaryReached == <>(driver = "done" /\ \A q \in Questions : results[q] # "none")
=============================================================================
