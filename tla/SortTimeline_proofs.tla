------------------------- MODULE SortTimeline_proofs -------------------------
(***************************************************************************)
(* For any number of phases, any ids and any durations: the stitched       *)
(* timeline has no gap and no overlap, and the answer restores the order   *)
(* of the phases when they are numbered as the prompt asks.                *)
(***************************************************************************)
EXTENDS SortTimeline, WellFoundedInduction, TLAPS

\* What the stitching has done so far: each position shows the phase of its
\* step, and the position of a placed step is on record.
Stitched ==
  step \in {"stitch", "done"} =>
    \A k \in 1..Len(segments) :
      segments[k].phase = PhaseOf(order[k]) /\ display[order[k]] = k

Answered == step = "done" => answer = [i \in Steps |-> display[i]]

TimelineInv == TypeOK /\ Contiguous /\ Stitched /\ Answered

-----------------------------------------------------------------------------
\* The steps with a given id, if any, have a first one.
LEMMA FirstExists ==
  ASSUME NEW S \in SUBSET Nat, S # {}
  PROVE  \E i \in S : \A j \in S : i <= j
PROOF
  <1>1. PICK i \in S : \A j \in S : ~(<<j, i>> \in OpToRel(<, Nat))
    BY NatLessThanWellFounded, WFMin
  <1>2. \A j \in S : ~(j < i)
    BY <1>1 DEF OpToRel
  <1> QED
    BY <1>2

\* The lookup finds a kept phase for every step, whatever the ids.
LEMMA PhaseOfType ==
  ASSUME kept \in Seq(Timed), NEW real \in Steps
  PROVE  PhaseOf(real) \in Steps
PROOF
  <1>1. CASE WithId(real) = {}
    BY <1>1 DEF PhaseOf
  <1>2. CASE WithId(real) # {}
    <2>1. WithId(real) \in SUBSET Nat /\ WithId(real) \subseteq Steps
      BY DEF WithId, Steps
    <2>2. \E i \in WithId(real) : \A j \in WithId(real) : i <= j
      BY <1>2, <2>1, FirstExists
    <2> QED
      BY <1>2, <2>1, <2>2 DEF PhaseOf
  <1> QED
    BY <1>1, <1>2

\* Phases numbered 1 to n are found under their own index.
LEMMA PhaseOfNumbered ==
  ASSUME Numbered, NEW real \in Steps
  PROVE  PhaseOf(real) = real
PROOF
  <1>1. WithId(real) = {real}
    BY DEF WithId, Numbered
  <1>2. real <= real
    BY DEF Steps
  <1> QED
    BY <1>1, <1>2 DEF PhaseOf

\* What append() does to length and entries.
LEMMA Appended ==
  ASSUME NEW S, NEW q \in Seq(S), NEW e \in S
  PROVE  /\ Append(q, e) \in Seq(S) /\ Append(q, e) # << >>
         /\ Len(q) \in Nat /\ Len(Append(q, e)) = Len(q) + 1
         /\ \A i \in 1..Len(q) : Append(q, e)[i] = q[i]
         /\ Append(q, e)[Len(q) + 1] = e
  OBVIOUS

-----------------------------------------------------------------------------
LEMMA InitTimeline == Init => TimelineInv
PROOF
  <1> SUFFICES ASSUME Init PROVE TimelineInv
    OBVIOUS
  <1>1. phases \in Seq(Written)
    BY DEF Init
  <1>2. TypeOK
    BY <1>1 DEF Init, TypeOK, Timed, Segment
  <1>3. Contiguous
    BY DEF Init, Contiguous
  <1> QED
    BY <1>2, <1>3 DEF Init, TimelineInv, Stitched, Answered

LEMMA TimePhaseInv == ASSUME TimelineInv, TimePhase PROVE TimelineInv'
PROOF
  <1> USE DEF TimelineInv
  <1>0. /\ step = "timing" /\ step' = "timing" /\ segments = << >> /\ segments' = << >>
        /\ cursor' = cursor /\ phases' = phases /\ taken' = taken + 1
        /\ order' = order /\ display' = display /\ answer' = answer
    BY DEF TimePhase, TypeOK
  <1>1. kept' \in Seq(Timed)
    <2>1. CASE ~phases[taken + 1].events /\ UNCHANGED kept
      BY <2>1 DEF TypeOK
    <2>2. ASSUME NEW d \in Durations,
                 kept' = Append(kept, [id |-> phases[taken + 1].id, duration |-> d])
          PROVE  kept' \in Seq(Timed)
      <3>1. phases[taken + 1] \in Written
        BY DEF TimePhase, TypeOK
      <3>2. [id |-> phases[taken + 1].id, duration |-> d] \in Timed
        BY <3>1 DEF Written, Timed
      <3> QED
        BY <2>2, <3>2 DEF TypeOK
    <2> QED
      BY <2>1, <2>2 DEF TimePhase
  <1>2. TypeOK'
    <2>1. taken' \in 0..Len(phases')
      BY <1>0 DEF TimePhase, TypeOK
    <2>2. Len(kept') \in Nat /\ Len(segments') = 0 /\ segments' \in Seq(Segment')
      BY <1>0, <1>1
    <2> QED
      BY <1>0, <1>1, <2>1, <2>2 DEF TypeOK
  <1>3. Contiguous'
    BY <1>0, <1>2 DEF Contiguous, TypeOK
  <1> QED
    BY <1>0, <1>2, <1>3 DEF Stitched, Answered

\* Timing and the shuffle lay no segment.
LEMMA TimingInv == ASSUME TimelineInv, Timing PROVE TimelineInv'
PROOF
  <1> USE DEF TimelineInv
  <1>0. /\ step = "timing" /\ step' \in {"retry", "shuffle"} /\ segments = << >>
        /\ UNCHANGED <<phases, taken, kept, order, cursor, segments, display, answer>>
    BY DEF Timing, TypeOK
  <1>1. TypeOK'
    BY <1>0 DEF TypeOK, Segment, Steps
  <1>2. Contiguous'
    BY <1>0 DEF Contiguous
  <1> QED
    BY <1>0, <1>1, <1>2 DEF Stitched, Answered

LEMMA ShuffleInv == ASSUME TimelineInv, Shuffle PROVE TimelineInv'
PROOF
  <1> USE DEF TimelineInv
  <1>0. /\ step = "shuffle" /\ step' = "stitch" /\ segments = << >>
        /\ UNCHANGED <<phases, taken, kept, cursor, segments, answer>>
    BY DEF Shuffle, TypeOK
  <1>1. TypeOK'
    <2>1. order' \in Orders /\ Orders' = Orders /\ Steps' = Steps
      BY <1>0 DEF Shuffle, Shuffled, Orders, Steps
    <2>2. display' \in [Steps' -> Nat]
      BY <2>1 DEF Shuffle
    <2> QED
      BY <1>0, <2>1, <2>2 DEF TypeOK, Segment
  <1>2. Contiguous'
    BY <1>0 DEF Contiguous
  <1>3. Len(segments') = 0
    BY <1>0
  <1> QED
    BY <1>0, <1>1, <1>2, <1>3 DEF Stitched, Answered

\* Laying one segment: it starts where the last one ended, and its step has not
\* been placed before, so the positions on record stay.
LEMMA StitchInv == ASSUME TimelineInv, Stitch PROVE TimelineInv'
PROOF
  <1> USE DEF TimelineInv
  <1> DEFINE real == order[Position]
             phase == PhaseOf(real)
             seg == [phase |-> phase, start |-> cursor,
                     end |-> cursor + kept[phase].duration]
  <1>0. /\ step = "stitch" /\ step' = "stitch"
        /\ UNCHANGED <<phases, taken, kept, order, answer>>
        /\ segments' = Append(segments, seg)
        /\ display' = [display EXCEPT ![real] = Position]
        /\ cursor' = cursor + kept[phase].duration
        /\ Position \in Steps
    BY DEF Stitch, CursorMoved
  <1>1. /\ kept \in Seq(Timed) /\ segments \in Seq(Segment) /\ cursor \in Nat
        /\ order \in Orders /\ display \in [Steps -> Nat] /\ Len(segments) \in Nat
        /\ Len(kept) \in Nat
    BY <1>0 DEF TypeOK
  <1>2. real \in Steps
    BY <1>0, <1>1 DEF Orders
  <1>3. phase \in Steps
    BY <1>1, <1>2, PhaseOfType
  <1>4. kept[phase].duration \in Nat
    <2>1. kept[phase] \in Timed
      BY <1>1, <1>3 DEF Steps
    <2> QED
      BY <2>1, PhaseAssumption DEF Timed
  <1>5. seg \in Segment
    BY <1>1, <1>3, <1>4 DEF Segment
  <1>6. /\ segments' \in Seq(Segment) /\ segments' # << >>
        /\ Len(segments') = Len(segments) + 1
        /\ \A i \in 1..Len(segments) : segments'[i] = segments[i]
        /\ segments'[Len(segments) + 1] = seg
    BY <1>0, <1>1, <1>5, Appended
  <1>7. Steps' = Steps /\ Orders' = Orders /\ Segment' = Segment
    BY <1>0 DEF Steps, Orders, Segment
  <1>8. TypeOK'
    <2>1. cursor' \in Nat
      BY <1>0, <1>1, <1>4
    <2>2. display' \in [Steps -> Nat]
      BY <1>0, <1>1, <1>2 DEF Position
    <2>3. Len(segments') <= Len(kept')
      BY <1>0, <1>1, <1>6 DEF Position, Steps
    <2> QED
      BY <1>0, <1>1, <1>6, <1>7, <2>1, <2>2, <2>3 DEF TypeOK
  <1>9. Contiguous'
    <2>1. segments'[1].start = 0
      <3>1. CASE segments = << >>
        BY <3>1, <1>6 DEF Contiguous
      <3>2. CASE segments # << >>
        <4>1. Len(segments) >= 1
          BY <3>2, <1>1
        <4> QED
          BY <3>2, <4>1, <1>1, <1>6 DEF Contiguous
      <3> QED
        BY <3>1, <3>2
    <2>2. segments'[Len(segments')].end = cursor'
      BY <1>0, <1>6
    <2>3. ASSUME NEW k \in 1..Len(segments')
          PROVE  /\ segments'[k].end =
                      segments'[k].start + kept'[segments'[k].phase].duration
                 /\ k > 1 => segments'[k].start = segments'[k - 1].end
      <3>1. CASE k \in 1..Len(segments)
        <4>1. segments'[k] = segments[k] /\ (k > 1 => segments'[k - 1] = segments[k - 1])
          BY <3>1, <1>1, <1>6
        <4> QED
          BY <3>1, <4>1, <1>0 DEF Contiguous
      <3>2. CASE k = Len(segments) + 1
        <4>1. segments'[k] = seg
          BY <3>2, <1>6
        <4>2. segments'[k].end = segments'[k].start + kept'[segments'[k].phase].duration
          BY <4>1, <1>0
        <4>3. k > 1 => segments'[k].start = segments'[k - 1].end
          <5> SUFFICES ASSUME k > 1 PROVE segments'[k].start = segments'[k - 1].end
            OBVIOUS
          <5>1. Len(segments) >= 1 /\ k - 1 = Len(segments) /\ segments # << >>
            BY <3>2, <1>1
          <5>2. segments'[k - 1] = segments[Len(segments)]
            BY <5>1, <1>1, <1>6
          <5> QED
            BY <4>1, <5>1, <5>2 DEF Contiguous
        <4> QED
          BY <4>2, <4>3
      <3> QED
        BY <3>1, <3>2, <1>1, <1>6
    <2> QED
      BY <1>6, <2>1, <2>2, <2>3 DEF Contiguous
  <1>10. Stitched'
    <2> SUFFICES ASSUME NEW k \in 1..Len(segments')
                 PROVE  segments'[k].phase = PhaseOf(order[k]) /\ display'[order[k]] = k
      <3>1. \A r : PhaseOf(r)' = PhaseOf(r)
        BY <1>0 DEF PhaseOf, WithId, Steps
      <3> QED
        BY <1>0, <3>1 DEF Stitched
    <2>1. CASE k \in 1..Len(segments)
      <3>1. k \in Steps /\ Position \in Steps /\ k # Position
        BY <2>1, <1>0, <1>1 DEF Steps, Position
      <3>2. order[k] \in Steps /\ order[k] # real
        BY <3>1, <1>1 DEF Orders
      <3>3. display'[order[k]] = display[order[k]]
        BY <3>2, <1>0, <1>1
      <3> QED
        BY <2>1, <3>3, <1>0, <1>6 DEF Stitched
    <2>2. CASE k = Position
      <3>1. segments'[k] = seg
        BY <2>2, <1>6 DEF Position
      <3>2. display'[real] = Position
        BY <1>0, <1>1, <1>2
      <3> QED
        BY <2>2, <3>1, <3>2
    <2> QED
      BY <2>1, <2>2, <1>1, <1>6 DEF Position
  <1> QED
    BY <1>0, <1>8, <1>9, <1>10 DEF Answered

LEMMA AnswerInv == ASSUME TimelineInv, Answer PROVE TimelineInv'
PROOF
  <1> USE DEF TimelineInv
  <1>0. /\ step = "stitch" /\ step' = "done" /\ Position \notin Steps
        /\ UNCHANGED <<phases, taken, kept, order, cursor, segments, display>>
        /\ answer' = [i \in Steps |-> display[i]]
    BY DEF Answer
  <1>1. Steps' = Steps /\ Orders' = Orders /\ Segment' = Segment
    BY <1>0 DEF Steps, Orders, Segment
  <1>2. Len(segments) = Len(kept)
    BY <1>0 DEF TypeOK, Position, Steps
  <1>3. answer' \in [Steps -> Nat]
    BY <1>0 DEF TypeOK
  <1>4. TypeOK'
    BY <1>0, <1>1, <1>2, <1>3 DEF TypeOK
  <1>5. Contiguous'
    BY <1>0 DEF Contiguous
  <1>6. Stitched'
    <2>1. \A r : PhaseOf(r)' = PhaseOf(r)
      BY <1>0 DEF PhaseOf, WithId, Steps
    <2> QED
      BY <1>0, <2>1 DEF Stitched
  <1>7. Answered'
    BY <1>0, <1>1 DEF Answered
  <1> QED
    BY <1>4, <1>5, <1>6, <1>7

\* A step that changes nothing.
LEMMA StutterInv == ASSUME TimelineInv, UNCHANGED vars PROVE TimelineInv'
PROOF
  <1>1. /\ step' = step /\ phases' = phases /\ taken' = taken /\ kept' = kept
        /\ order' = order /\ cursor' = cursor /\ segments' = segments
        /\ display' = display /\ answer' = answer
    BY DEF vars
  <1>2. Steps' = Steps /\ Orders' = Orders /\ Segment' = Segment
    BY <1>1 DEF Steps, Orders, Segment
  <1>3. \A r : PhaseOf(r)' = PhaseOf(r)
    BY <1>1 DEF PhaseOf, WithId, Steps
  <1>4. TypeOK'
    BY <1>1, <1>2 DEF TimelineInv, TypeOK
  <1>5. Contiguous'
    BY <1>1 DEF TimelineInv, Contiguous
  <1>6. Stitched'
    BY <1>1, <1>3 DEF TimelineInv, Stitched
  <1>7. Answered'
    BY <1>1, <1>2 DEF TimelineInv, Answered
  <1> QED
    BY <1>4, <1>5, <1>6, <1>7 DEF TimelineInv

\* The invariant behind the theorems: types, the contiguous timeline, and what each
\* laid position records about its step.
THEOREM TimelineInvariant == Spec => []TimelineInv
PROOF
  <1>1. Init => TimelineInv
    BY InitTimeline
  <1>2. TimelineInv /\ [Next]_vars => TimelineInv'
    <2> SUFFICES ASSUME TimelineInv, [Next]_vars PROVE TimelineInv'
      OBVIOUS
    <2> QED
      BY TimePhaseInv, TimingInv, ShuffleInv, StitchInv, AnswerInv, StutterInv
      DEF Next, Stopped
  <1> QED
    BY <1>1, <1>2, PTL DEF Spec

\* The lookup never leaves the kept phases and every value keeps its type.
THEOREM TypesHold == Spec => []TypeOK
PROOF
  <1>1. TimelineInv => TypeOK
    BY DEF TimelineInv
  <1> QED
    BY <1>1, TimelineInvariant, PTL

\* The segments fill the video without gap or overlap, whatever ids were written.
THEOREM TimelineContiguous == Spec => []Contiguous
PROOF
  <1>1. TimelineInv => Contiguous
    BY DEF TimelineInv
  <1> QED
    BY <1>1, TimelineInvariant, PTL

\* The answer restores the order of phases numbered as the prompt asks: every step
\* was placed, its position is on record, and that position shows its phase.
THEOREM AnswerIsRight == Spec => []AnswerRestores
PROOF
  <1>1. TimelineInv => AnswerRestores
    <2> SUFFICES ASSUME TimelineInv, step = "done", Numbered, NEW i \in Steps
                 PROVE  answer[i] \in Steps /\ segments[answer[i]].phase = i
      BY DEF AnswerRestores
    <2>1. order \in Orders /\ Len(segments) = Len(kept)
      BY DEF TimelineInv, TypeOK
    <2>2. PICK k \in Steps : order[k] = i
      BY <2>1 DEF Orders
    <2>3. segments[k].phase = PhaseOf(i) /\ display[i] = k
      BY <2>1, <2>2 DEF TimelineInv, Stitched, Steps
    <2>4. answer[i] = k
      BY <2>3 DEF TimelineInv, Answered
    <2> QED
      BY <2>3, <2>4, PhaseOfNumbered
  <1> QED
    BY <1>1, TimelineInvariant, PTL
=============================================================================
