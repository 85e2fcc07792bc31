---------------------------- MODULE SortTimeline ----------------------------
(***************************************************************************)
(* How a chronological-order task is made from the phases a model wrote:   *)
(* data_synthesis/generate_full_dataset_sort.py.  Phases without events    *)
(* are dropped, the others get durations, are shuffled, laid end to end on *)
(* one timeline, and the answer lists the displayed positions in order.    *)
(***************************************************************************)
EXTENDS Naturals, Sequences

CONSTANTS
  Ids,        \* phase_id values the model writes
  Durations,  \* of a phase
  MaxPhases   \* bound on the phases the model writes

ASSUME PhaseAssumption == Durations \subseteq Nat \ {0} /\ MaxPhases \in Nat

VARIABLES
  step,      \* "timing", "shuffle", "stitch", "done", "retry"
  phases,    \* data["phases"]: the id, and whether it has events
  taken,     \* phases timed so far
  kept,      \* phases_with_time
  order,     \* indices, shuffled
  cursor,    \* current_global_time
  segments,  \* segments_dict, by displayed position: index in kept, start, end
  display,   \* real_step_to_display_pos
  answer     \* the displayed positions, in chronological order

vars == <<step, phases, taken, kept, order, cursor, segments, display, answer>>

Written == [id : Ids, events : BOOLEAN]
Timed == [id : Ids, duration : Durations]

Init ==
  /\ phases \in UNION {[1..n -> Written] : n \in 0..MaxPhases}
  /\ step = "timing" /\ taken = 0 /\ kept = << >> /\ order = << >>
  /\ cursor = 0 /\ segments = << >> /\ display = << >> /\ answer = << >>

\* A phase without events is dropped; the others keep the id they were given.
TimePhase ==
  /\ step = "timing" /\ taken < Len(phases)
  /\ taken' = taken + 1
  /\ \/ ~phases[taken + 1].events /\ UNCHANGED kept
     \/ /\ phases[taken + 1].events
        /\ \E d \in Durations :
             kept' = Append(kept, [id |-> phases[taken + 1].id, duration |-> d])
  /\ UNCHANGED <<step, phases, order, cursor, segments, display, answer>>

Timing ==
  /\ step = "timing" /\ taken = Len(phases)
  /\ step' = IF kept = << >> THEN "retry" ELSE "shuffle"
  /\ UNCHANGED <<phases, taken, kept, order, cursor, segments, display, answer>>

Steps == 1..Len(kept)
Orders ==
  {o \in [Steps -> Steps] :
     /\ \A i, j \in Steps : o[i] = o[j] => i = j
     /\ \A i \in Steps : \E j \in Steps : o[j] = i}

Shuffled == Orders

Shuffle ==
  /\ step = "shuffle"
  /\ order' \in Shuffled
  /\ display' = [i \in Steps |-> 0]
  /\ step' = "stitch"
  /\ UNCHANGED <<phases, taken, kept, cursor, segments, answer>>

\* The phase of a step: the first one with that id, else the one at that index.
WithId(real) == {i \in Steps : kept[i].id = real}
OffByOne(real) == IF real = 1 THEN 1 ELSE real - 1 \* mutant: ids taken as indices
PhaseOf(real) ==
  IF WithId(real) = {} THEN real
  ELSE CHOOSE i \in WithId(real) : \A j \in WithId(real) : i <= j

Position == Len(segments) + 1
CursorKept(phase) == cursor' = cursor              \* mutant
CursorMoved(phase) == cursor' = cursor + kept[phase].duration

Stitch ==
  /\ step = "stitch" /\ Position \in Steps
  /\ LET real == order[Position]
         phase == PhaseOf(real) IN
       /\ segments' = Append(segments,
            [phase |-> phase, start |-> cursor, end |-> cursor + kept[phase].duration])
       /\ display' = [display EXCEPT ![real] = Position]
       /\ CursorMoved(phase)
  /\ UNCHANGED <<step, phases, taken, kept, order, answer>>

Answer ==
  /\ step = "stitch" /\ Position \notin Steps
  /\ answer' = [i \in Steps |-> display[i]]
  /\ step' = "done"
  /\ UNCHANGED <<phases, taken, kept, order, cursor, segments, display>>

Stopped == step \in {"done", "retry"} /\ UNCHANGED vars

Next == TimePhase \/ Timing \/ Shuffle \/ Stitch \/ Answer \/ Stopped

Spec == Init /\ [][Next]_vars
-----------------------------------------------------------------------------
Segment == [phase : Steps, start : Nat, end : Nat]

TypeOK ==
  /\ step \in {"timing", "shuffle", "stitch", "done", "retry"}
  /\ phases \in Seq(Written) /\ taken \in 0..Len(phases)
  /\ kept \in Seq(Timed) /\ cursor \in Nat
  /\ segments \in Seq(Segment) /\ Len(segments) <= Len(kept)
  /\ step \in {"timing", "shuffle", "retry"} => segments = << >>
  /\ step \in {"stitch", "done"} => order \in Orders /\ display \in [Steps -> Nat]
  /\ step = "done" => answer \in [Steps -> Nat] /\ Len(segments) = Len(kept)

\* The segments fill the video from 0 to the cursor without gap or overlap, each as
\* long as its phase, whatever ids the model wrote.
Contiguous ==
  /\ segments = << >> => cursor = 0
  /\ segments # << >> => segments[1].start = 0 /\ segments[Len(segments)].end = cursor
  /\ \A k \in 1..Len(segments) :
       /\ segments[k].end = segments[k].start + kept[segments[k].phase].duration
       /\ k > 1 => segments[k].start = segments[k - 1].end

\* The ids the prompt asks for: 1 to n, in order, on the phases that were kept.
Numbered == \A i \in Steps : kept[i].id = i

\* Playing the segments in the order of the answer shows the phases in the order
\* they were written, if they are numbered as the prompt asks.
AnswerRestores ==
  step = "done" /\ Numbered =>
    \A i \in Steps : answer[i] \in Steps /\ segments[answer[i]].phase = i
=============================================================================
