------------------------ MODULE PartialService_proofs ------------------------
(***************************************************************************)
(* Partial rollout, for any number of servers, samples and loops, any      *)
(* lengths, pauses and failures: an interrupted response is stitched       *)
(* together as if it had been generated at once, one request never sees    *)
(* two versions of the weights, though samples are submitted while they    *)
(* change, and the workers implement the service the rollouter relies on.  *)
(***************************************************************************)
EXTENDS PartialService, FiniteSetTheorems, TLAPS

\* Where a request is, given the sample and the answer it is for.
RequestOf(l) ==
  /\ loop[l] # "idle" => sample[l[1]] \in {"busy", "failed"}
  /\ loop[l] \in {"sent", "open"} =>
       answer[l].isCancel /\ answer[l].begun /\ given[l] = Len(answer[l].response)

\* What the engine has generated so far continues the answer, and only its last token
\* may end it.
OutputOf(l) ==
  loop[l] = "open" =>
    /\ \A i \in DOMAIN output[l] :
         /\ output[l][i].pos = given[l] + i
         /\ output[l][i].last => i = Len(output[l]) /\ l \in generated
    /\ l \in generated => output[l] # << >> /\ output[l][Len(output[l])].last

\* A response is in order; cancelled, it has not reached its end, otherwise it has.
Ended(r) == r # << >> /\ (r[Len(r)].last \/ Len(r) = ResponseLength)
AnswerOf(l) ==
  LET r == answer[l].response IN
  /\ \A i \in DOMAIN r : r[i].pos = i /\ (r[i].last => i = Len(r) /\ ~answer[l].isCancel)
  /\ IF answer[l].isCancel THEN Len(r) < ResponseLength ELSE Ended(r)

\* The versions of a response are those of the calls that were made for it; a request
\* under way was labelled with this version of the weights or with the one before.
SpanOf(l) ==
  sample[l[1]] # "failed" =>
    /\ answer[l].start <= reported /\ answer[l].end <= reported
    /\ loop[l] \in {"sent", "open"} => version <= answer[l].end + 1
    /\ ~answer[l].begun => answer[l].response = << >>
    /\ \A i \in DOMAIN answer[l].response :
         answer[l].start <= answer[l].response[i].ver
         /\ answer[l].response[i].ver <= answer[l].end + 1

\* While the weights change, a sample may have been submitted, but no server has served
\* it, and its calls have come back with nothing.
Unserved(l) ==
  phase = "transfer" /\ sample[l[1]] = "busy" =>
    /\ loop[l] # "open"
    /\ loop[l] = "sent" => answer[l].end = version
    /\ loop[l] = "ended" => Len(answer[l].response) = given[l]

\* When all loops of a sample have answered, a complete one has only ended answers.
CompleteOf(l) == sample[l[1]] = "complete" => ~answer[l].isCancel

OneVersionOf(l) ==
  loop[l] = "open" /\ sample[l[1]] = "busy" =>
    \A i \in DOMAIN output[l] : output[l][i].ver = version

LoopInv(l) ==
  /\ RequestOf(l) /\ OutputOf(l) /\ AnswerOf(l) /\ SpanOf(l) /\ CompleteOf(l)
  /\ OneVersionOf(l) /\ Unserved(l)

\* The servers are paused from the end of cancel() to resume(), and the rollouter is one
\* version behind them until update_param_version.
Syncing ==
  /\ phase \in {"drain", "transfer", "update"} => \A v \in Servers : paused[v]
  /\ version = IF phase = "update" THEN reported + 1 ELSE reported

IInv == TypeOK /\ Syncing /\ \A l \in Loops : LoopInv(l)

\* The requests that may still leave their keys behind on account of the last pause;
\* in the next pause, any loop may again.
MayLeak ==
  {l \in Loops : IF phase \in {"cancel", "drain"} THEN loop[l] \in {"sent", "open"}
                 ELSE l \in cancelled}
OpenAt(v) == {l \in Loops : loop[l] = "open" /\ server[l] = v}

KeysOf(v) ==
  /\ Cardinality(OpenAt(v)) <= entries[v]
  /\ entries[v] + Cardinality(MayLeak)
       <= Cardinality(OpenAt(v)) + pauses * Cardinality(Loops) + failures

Inv == IInv /\ \A v \in Servers : KeysOf(v)

-----------------------------------------------------------------------------
(* Sequences and loops                                                     *)

LEMMA MinOfTwo ==
  ASSUME NEW a \in Nat, NEW b \in Nat
  PROVE  Min({a, b}) = IF a <= b THEN a ELSE b
PROOF
  <1>1. \E x \in {a, b} : \A y \in {a, b} : x <= y
    OBVIOUS
  <1>2. Min({a, b}) \in {a, b} /\ Min({a, b}) <= a /\ Min({a, b}) <= b
    BY <1>1 DEF Min
  <1> QED
    BY <1>2

\* A sequence cut at a length.
LEMMA Cut ==
  ASSUME NEW S, NEW q \in Seq(S), NEW n \in Nat
  PROVE  LET r == SubSeq(q, 1, Min({Len(q), n})) IN
         /\ r \in Seq(S) /\ Len(r) = IF Len(q) <= n THEN Len(q) ELSE n
         /\ \A i \in 1..Len(r) : r[i] = q[i]
PROOF
  <1>1. Len(q) \in Nat
    OBVIOUS
  <1> DEFINE m == IF Len(q) <= n THEN Len(q) ELSE n
  <1>2. Min({Len(q), n}) = m
    BY <1>1, MinOfTwo
  <1>3. m \in Nat /\ m <= Len(q)
    BY <1>1
  <1> HIDE DEF m
  <1>4. SubSeq(q, 1, m) \in Seq(S) /\ Len(SubSeq(q, 1, m)) = m
        /\ \A i \in 1..m : SubSeq(q, 1, m)[i] = q[i]
    BY <1>1, <1>3
  <1> QED
    BY <1>2, <1>4 DEF m

LEMMA LoopParts ==
  ASSUME NEW l \in Loops
  PROVE  l[1] \in Samples /\ \A s \in Samples : l \in GroupOf(s) <=> l[1] = s
  BY DEF Loops, GroupOf

AnswerType ==
  [response : Seq(Token), isCancel : BOOLEAN, begun : BOOLEAN, start : Nat, end : Nat]

\* What joining tokens to an answer does.
LEMMA JoinedAnswer ==
  ASSUME TypeOK, NEW l \in Loops, NEW tokens \in Seq(Token), NEW c \in BOOLEAN
  PROVE  LET old == answer[l].response
             joined == Joined(l, tokens, c)
             new == joined.response
             sum == Len(old) + Len(tokens)
         IN  /\ joined \in AnswerType
             /\ joined.start = answer[l].start /\ joined.end = answer[l].end
             /\ joined.begun = answer[l].begun
             /\ joined.isCancel = (c /\ sum < ResponseLength)
             /\ Len(new) = IF sum <= ResponseLength THEN sum ELSE ResponseLength
             /\ Len(old) <= Len(new)
             /\ \A i \in 1..Len(new) :
                  new[i] = IF i <= Len(old) THEN old[i] ELSE tokens[i - Len(old)]
PROOF
  <1> DEFINE old == answer[l].response
             whole == old \o tokens
             cut == SubSeq(whole, 1, Min({Len(whole), ResponseLength}))
  <1>1. answer[l] \in AnswerType /\ Len(old) <= ResponseLength /\ ResponseLength \in Nat
    BY ServiceAssumption DEF TypeOK, AnswerType
  <1>2. old \in Seq(Token)
    BY <1>1 DEF AnswerType
  <1>3. whole \in Seq(Token) /\ Len(whole) = Len(old) + Len(tokens)
        /\ \A i \in 1..Len(whole) : whole[i] = IF i <= Len(old) THEN old[i]
                                                ELSE tokens[i - Len(old)]
    BY <1>2
  <1>4. Len(old) \in Nat /\ Len(tokens) \in Nat
    BY <1>2
  <1> HIDE DEF whole
  <1>5. /\ cut \in Seq(Token)
        /\ Len(cut) = IF Len(whole) <= ResponseLength THEN Len(whole) ELSE ResponseLength
        /\ \A i \in 1..Len(cut) : cut[i] = whole[i]
    <2>1. ResponseLength \in Nat /\ whole \in Seq(Token)
      BY <1>1, <1>3
    <2> QED
      BY <2>1, Cut, Zenon
  <1> HIDE DEF cut
  <1>6. Joined(l, tokens, c) = [answer[l] EXCEPT !.response = cut,
                                                 !.isCancel = c /\ Len(whole) < ResponseLength]
    BY DEF Joined, cut, whole
  <1>7. /\ Joined(l, tokens, c).response = cut
        /\ Joined(l, tokens, c).isCancel = (c /\ Len(whole) < ResponseLength)
        /\ Joined(l, tokens, c).start = answer[l].start
        /\ Joined(l, tokens, c).end = answer[l].end
        /\ Joined(l, tokens, c).begun = answer[l].begun
        /\ Joined(l, tokens, c) \in AnswerType
    BY <1>1, <1>5, <1>6 DEF AnswerType
  <1>8. Len(cut) = IF Len(old) + Len(tokens) <= ResponseLength THEN Len(old) + Len(tokens)
                   ELSE ResponseLength
    BY <1>3, <1>5
  <1>9. Len(old) <= Len(cut)
    BY <1>1, <1>4, <1>8
  <1>10. \A i \in 1..Len(cut) : cut[i] = IF i <= Len(old) THEN old[i] ELSE tokens[i - Len(old)]
    <2>1. SUFFICES ASSUME NEW i \in 1..Len(cut)
                   PROVE  cut[i] = IF i <= Len(old) THEN old[i] ELSE tokens[i - Len(old)]
      OBVIOUS
    <2>2. i \in 1..Len(whole)
      BY <1>1, <1>3, <1>4, <1>5
    <2> QED
      BY <1>3, <1>5, <2>2
  <1> QED
    BY <1>3, <1>7, <1>8, <1>9, <1>10

\* A step of one loop leaves the others as they are.
LEMMA OneLoop ==
  ASSUME IInv, NEW l \in Loops, TypeOK', LoopInv(l)', UNCHANGED <<sample, version, reported, phase, paused>>,
         \A k \in Loops \ {l} : /\ loop'[k] = loop[k] /\ given'[k] = given[k]
                                /\ output'[k] = output[k] /\ answer'[k] = answer[k]
                                /\ (k \in generated' <=> k \in generated)
  PROVE  IInv'
PROOF
  <1>1. ASSUME NEW k \in Loops, k # l PROVE LoopInv(k)'
    <2>1. LoopInv(k)
      BY DEF IInv
    <2>2. /\ loop'[k] = loop[k] /\ given'[k] = given[k] /\ output'[k] = output[k]
          /\ answer'[k] = answer[k] /\ (k \in generated' <=> k \in generated)
          /\ sample' = sample /\ version' = version /\ reported' = reported /\ phase' = phase
      BY <1>1
    <2>3. /\ RequestOf(k)' /\ AnswerOf(k)' /\ SpanOf(k)' /\ CompleteOf(k)' /\ OneVersionOf(k)'
          /\ Unserved(k)'
      BY <2>1, <2>2 DEF LoopInv, RequestOf, AnswerOf, Ended, SpanOf, CompleteOf, OneVersionOf,
                        Unserved
    <2>4. OutputOf(k)'
      BY <2>1, <2>2 DEF LoopInv, OutputOf
    <2> QED
      BY <2>3, <2>4 DEF LoopInv
  <1>2. Syncing'
    BY DEF IInv, Syncing
  <1> QED
    BY <1>1, <1>2 DEF IInv

-----------------------------------------------------------------------------
LEMMA InitService == Init => IInv
PROOF
  <1> SUFFICES ASSUME Init PROVE IInv
    OBVIOUS
  <1>1. NewAnswer \in AnswerType /\ NewAnswer.response = << >> /\ NewAnswer.isCancel
        /\ NewAnswer.start = 0 /\ NewAnswer.end = 0
    BY DEF NewAnswer, AnswerType
  <1>2. (CHOOSE v \in Servers : TRUE) \in Servers
    BY ServiceAssumption
  <1>3. TypeOK
    BY <1>1, <1>2, ServiceAssumption DEF Init, TypeOK, AnswerType
  <1>4. ASSUME NEW l \in Loops PROVE LoopInv(l)
    <2>1. loop[l] = "idle" /\ answer[l] = NewAnswer /\ sample[l[1]] = "ready"
      BY LoopParts DEF Init
    <2>2. RequestOf(l) /\ OutputOf(l) /\ CompleteOf(l) /\ OneVersionOf(l) /\ Unserved(l)
      BY <2>1 DEF RequestOf, OutputOf, CompleteOf, OneVersionOf, Unserved
    <2>3. AnswerOf(l)
      BY <1>1, <2>1, ServiceAssumption DEF AnswerOf
    <2>4. SpanOf(l)
      BY <1>1, <2>1 DEF SpanOf, Init
    <2> QED
      BY <2>2, <2>3, <2>4 DEF LoopInv
  <1>5. Syncing
    BY DEF Init, Syncing
  <1> QED
    BY <1>3, <1>4, <1>5 DEF IInv

-----------------------------------------------------------------------------
(* The worker's steps                                                      *)

\* A sample that is ready has no request under way: submitting it starts new ones.
LEMMA SubmitKeeps ==
  ASSUME IInv, NEW s \in Samples, Submit(s)
  PROVE  IInv'
PROOF
  <1> DEFINE again == {l \in GroupOf(s) : RunsAgain(l)}
  <1>1. /\ sample[s] = "ready" /\ sample' = [sample EXCEPT ![s] = "busy"]
        /\ loop' = [l \in Loops |-> IF l \in again THEN "sent" ELSE loop[l]]
        /\ given' = [l \in Loops |-> IF l \in again THEN ResumedTokens(l) ELSE given[l]]
        /\ answer' = [l \in Loops |-> IF l \in again THEN Span(l) ELSE answer[l]]
        /\ UNCHANGED <<server, output, generated, cancelled, entries, paused, phase, version, reported,
                       pauses, failures>>
    BY DEF Submit, pauseVars
  <1>2. TypeOK
    BY DEF IInv
  <1>3. ASSUME NEW l \in Loops
        PROVE  /\ l \in again <=> l[1] = s /\ answer[l].isCancel
               /\ Span(l) \in AnswerType /\ Span(l).response = answer[l].response
               /\ Span(l).isCancel = answer[l].isCancel /\ Span(l).end = reported
               /\ Span(l).begun
               /\ Span(l).start = IF FirstRun(l) THEN reported ELSE answer[l].start
               /\ ResumedTokens(l) = Len(answer[l].response) /\ ResumedTokens(l) \in Nat
    <2>1. l \in again <=> l[1] = s /\ answer[l].isCancel
      BY LoopParts DEF RunsAgain
    <2>2. answer[l] \in AnswerType /\ reported \in Nat
      BY <1>2 DEF TypeOK, AnswerType
    <2>3. /\ Span(l) \in AnswerType /\ Span(l).response = answer[l].response
          /\ Span(l).isCancel = answer[l].isCancel /\ Span(l).end = reported
          /\ Span(l).begun
          /\ Span(l).start = IF FirstRun(l) THEN reported ELSE answer[l].start
      BY <2>2 DEF Span, AnswerType
    <2>4. ResumedTokens(l) = Len(answer[l].response) /\ ResumedTokens(l) \in Nat
      BY <2>2 DEF ResumedTokens, AnswerType
    <2> QED
      BY <2>1, <2>3, <2>4
  <1>4. ASSUME NEW l \in Loops, l[1] = s PROVE loop[l] = "idle"
    BY <1>1, <1>4 DEF IInv, LoopInv, RequestOf
  <1> HIDE DEF again
  <1>5. TypeOK'
    <2>1. \A l \in Loops : answer'[l] \in AnswerType /\ answer'[l].response = answer[l].response
      BY <1>1, <1>2, <1>3 DEF TypeOK, AnswerType
    <2>2. answer' \in [Loops -> AnswerType]
      BY <1>1, <2>1
    <2>3. given' \in [Loops -> Nat]
      BY <1>1, <1>2, <1>3 DEF TypeOK
    <2>4. /\ sample' \in [Samples -> {"ready", "busy", "complete", "failed"}]
          /\ loop' \in [Loops -> {"idle", "sent", "open", "raised", "ended"}]
      BY <1>1, <1>2 DEF TypeOK
    <2>5. \A l \in Loops : /\ Len(answer'[l].response) <= ResponseLength
                           /\ loop'[l] # "open" => output'[l] = << >>
                                                   /\ l \notin generated' \cup cancelled'
      BY <1>1, <1>2, <1>3, <1>4, <2>1 DEF TypeOK
    <2> QED
      BY <1>1, <1>2, <2>2, <2>3, <2>4, <2>5 DEF TypeOK, AnswerType
  <1>6. ASSUME NEW l \in Loops PROVE LoopInv(l)'
    <2> LoopInv(l) /\ l[1] \in Samples
      BY LoopParts DEF IInv
    <2>1. CASE l[1] # s
      <3>1. /\ loop'[l] = loop[l] /\ answer'[l] = answer[l] /\ given'[l] = given[l]
            /\ sample'[l[1]] = sample[l[1]] /\ output' = output /\ generated' = generated
            /\ version' = version /\ reported' = reported /\ phase' = phase
        BY <1>1, <1>2, <1>3, <2>1 DEF TypeOK
      <3> QED
        BY <3>1 DEF LoopInv, RequestOf, OutputOf, AnswerOf, Ended, SpanOf, CompleteOf, OneVersionOf,
                    Unserved
    <2>2. CASE l[1] = s
      <3>1. loop[l] = "idle" /\ sample[s] = "ready" /\ sample'[l[1]] = "busy" /\ version' = version
        BY <1>1, <1>2, <1>4, <2>2 DEF TypeOK
      <3>2. /\ loop'[l] \in {"idle", "sent"} /\ (loop'[l] = "sent" => answer[l].isCancel)
            /\ loop'[l] = "sent" => given'[l] = Len(answer[l].response)
        BY <1>1, <1>3, <2>2, <3>1
      <3>3. /\ answer'[l].response = answer[l].response /\ answer'[l].isCancel = answer[l].isCancel
            /\ loop'[l] = "sent" => answer'[l].end = reported /\ answer'[l].begun
        BY <1>1, <1>3, <2>2, <3>1
      <3>4. RequestOf(l)' /\ OutputOf(l)' /\ CompleteOf(l)' /\ OneVersionOf(l)'
        BY <3>1, <3>2, <3>3 DEF RequestOf, OutputOf, CompleteOf, OneVersionOf
      <3>7. /\ version = IF phase = "update" THEN reported + 1 ELSE reported
            /\ reported \in Nat /\ phase' = phase /\ reported' = reported
        BY <1>1, <1>2 DEF IInv, Syncing, TypeOK
      <3>8. Unserved(l)'
        BY <3>1, <3>2, <3>3, <3>7 DEF Unserved
      <3>5. AnswerOf(l)'
        BY <3>3 DEF LoopInv, AnswerOf, Ended
      <3>6. SpanOf(l)'
        <4> DEFINE r == answer[l].response
        <4>1. answer[l] \in AnswerType /\ r \in Seq(Token)
          BY <1>2 DEF TypeOK, AnswerType
        <4>2. /\ answer[l].start <= reported /\ answer[l].end <= reported
              /\ ~answer[l].begun => r = << >>
              /\ \A i \in DOMAIN r : answer[l].start <= r[i].ver /\ r[i].ver <= answer[l].end + 1
          BY <2>2, <3>1 DEF LoopInv, SpanOf
        <4>3. \A i \in DOMAIN r : r[i].ver \in Nat
          <5>1. \A i \in DOMAIN r : r[i] \in Token
            BY <4>1
          <5> QED
            BY <5>1 DEF Token
        <4>4. FirstRun(l) => r = << >>
          BY <4>2 DEF FirstRun
        <4>5. \/ answer'[l] = answer[l]
              \/ /\ answer'[l].end = reported /\ answer'[l].begun
                 /\ answer'[l].start = IF FirstRun(l) THEN reported ELSE answer[l].start
          BY <1>1, <1>3
        <4>6. /\ answer'[l].start <= reported /\ answer'[l].end <= reported
              /\ ~answer'[l].begun => r = << >>
              /\ \A i \in DOMAIN r : answer'[l].start <= r[i].ver /\ r[i].ver <= answer'[l].end + 1
          BY <3>7, <4>1, <4>2, <4>3, <4>4, <4>5 DEF AnswerType
        <4>7. loop'[l] = "sent" => version <= answer'[l].end + 1
          BY <3>3, <3>7
        <4> QED
          BY <3>1, <3>2, <3>3, <3>7, <4>6, <4>7 DEF SpanOf
      <3> QED
        BY <3>4, <3>5, <3>6, <3>8 DEF LoopInv
    <2> QED
      BY <2>1, <2>2
  <1>7. Syncing'
    BY <1>1 DEF IInv, Syncing
  <1> QED
    BY <1>5, <1>6, <1>7 DEF IInv

\* The sample is handed back, complete if no loop of its group is cancelled, or fails.
LEMMA ReturnKeeps ==
  ASSUME IInv, NEW s \in Samples, Collect(s) \/ Raise(s)
  PROVE  IInv'
PROOF
  <1>1. TypeOK
    BY DEF IInv
  <1>2. CASE Collect(s)
    <2>1. TypeOK'
      <3>1. /\ sample' \in [Samples -> {"ready", "busy", "complete", "failed"}]
            /\ loop' \in [Loops -> {"idle", "sent", "open", "raised", "ended"}]
        BY <1>1, <1>2 DEF Collect, TypeOK
      <3>2. /\ UNCHANGED <<answer, server, given, output, generated, cancelled, entries, paused,
                          phase, version, reported, pauses, failures>>
        BY <1>2 DEF Collect, pauseVars
      <3>3. \A l \in Loops : loop'[l] # "open" => loop[l] # "open"
        BY <1>1, <1>2, LoopParts DEF Collect, TypeOK
      <3> QED
        BY <1>1, <3>1, <3>2, <3>3 DEF TypeOK
    <2>2. ASSUME NEW l \in Loops PROVE LoopInv(l)'
      <3> LoopInv(l) /\ l[1] \in Samples
        BY LoopParts DEF IInv
      <3>1. /\ answer' = answer /\ given' = given /\ output' = output /\ generated' = generated
            /\ version' = version /\ reported' = reported /\ phase' = phase
        BY <1>2 DEF Collect, pauseVars
      <3>2. CASE l[1] = s
        <4>1. /\ loop'[l] = "idle" /\ sample[l[1]] = "busy"
              /\ sample'[l[1]] \in {"ready", "complete"}
              /\ sample'[l[1]] = "complete" => ~answer[l].isCancel
          BY <1>1, <1>2, <3>2, LoopParts DEF Collect, TypeOK, GroupCancelled
        <4>2. RequestOf(l)' /\ OutputOf(l)' /\ CompleteOf(l)' /\ OneVersionOf(l)' /\ Unserved(l)'
          BY <3>1, <4>1 DEF RequestOf, OutputOf, CompleteOf, OneVersionOf, Unserved
        <4>3. AnswerOf(l)'
          BY <3>1 DEF LoopInv, AnswerOf, Ended
        <4>4. SpanOf(l)'
          BY <3>1, <4>1 DEF LoopInv, SpanOf
        <4> QED
          BY <4>2, <4>3, <4>4 DEF LoopInv
      <3>3. CASE l[1] # s
        <4>1. loop'[l] = loop[l] /\ sample'[l[1]] = sample[l[1]]
          BY <1>1, <1>2, <3>3 DEF Collect, TypeOK
        <4> QED
          BY <3>1, <4>1 DEF LoopInv, RequestOf, OutputOf, AnswerOf, Ended, SpanOf, CompleteOf,
                            OneVersionOf, Unserved
      <3> QED
        BY <3>2, <3>3
    <2>3. Syncing'
      BY <1>2 DEF Collect, pauseVars, IInv, Syncing
    <2> QED
      BY <2>1, <2>2, <2>3 DEF IInv
  <1>3. CASE Raise(s)
    <2>1. TypeOK'
      BY <1>1, <1>3 DEF Raise, TypeOK, requestVars, pauseVars
    <2>2. ASSUME NEW l \in Loops PROVE LoopInv(l)'
      <3> LoopInv(l) /\ l[1] \in Samples
        BY LoopParts DEF IInv
      <3>1. /\ answer' = answer /\ given' = given /\ output' = output /\ generated' = generated
            /\ version' = version /\ reported' = reported /\ phase' = phase /\ loop' = loop
        BY <1>3 DEF Raise, requestVars, pauseVars
      <3>2. sample'[l[1]] = IF l[1] = s THEN "failed" ELSE sample[l[1]]
        BY <1>1, <1>3 DEF Raise, TypeOK
      <3> QED
        BY <3>1, <3>2 DEF LoopInv, RequestOf, OutputOf, AnswerOf, Ended, SpanOf, CompleteOf,
                          OneVersionOf, Unserved
    <2>3. Syncing'
      BY <1>3 DEF Raise, pauseVars, IInv, Syncing
    <2> QED
      BY <2>1, <2>2, <2>3 DEF IInv
  <1> QED
    BY <1>2, <1>3

-----------------------------------------------------------------------------
(* The servers' steps                                                      *)

\* Tokens that continue an answer, and end it exactly if it is not cancelled.
Continue(l, tokens, c) ==
  /\ \A i \in DOMAIN tokens : /\ tokens[i].pos = Len(answer[l].response) + i
                              /\ tokens[i].last => i = Len(tokens) /\ ~c
                              /\ sample[l[1]] = "busy" => tokens[i].ver = version
  /\ ~c => tokens # << >> /\ tokens[Len(tokens)].last

LEMMA AnswerContinued ==
  ASSUME IInv, NEW l \in Loops, loop[l] \in {"sent", "open"},
         NEW tokens \in Seq(Token), NEW c \in BOOLEAN, Continue(l, tokens, c)
  PROVE  LET joined == Joined(l, tokens, c)
             r == joined.response
         IN  /\ \A i \in DOMAIN r : r[i].pos = i /\ (r[i].last => i = Len(r) /\ ~joined.isCancel)
             /\ IF joined.isCancel THEN Len(r) < ResponseLength ELSE Ended(r)
             /\ sample[l[1]] = "busy" => \A i \in DOMAIN r : /\ answer[l].start <= r[i].ver
                                                          /\ r[i].ver <= answer[l].end + 1
PROOF
  <1> DEFINE old == answer[l].response
             joined == Joined(l, tokens, c)
             r == joined.response
             sum == Len(old) + Len(tokens)
  <1>1. /\ joined \in AnswerType /\ joined.isCancel = (c /\ sum < ResponseLength)
        /\ Len(r) = IF sum <= ResponseLength THEN sum ELSE ResponseLength
        /\ Len(old) <= Len(r)
        /\ \A i \in 1..Len(r) : r[i] = IF i <= Len(old) THEN old[i] ELSE tokens[i - Len(old)]
    BY JoinedAnswer DEF IInv
  <1>2. old \in Seq(Token) /\ r \in Seq(Token) /\ answer[l] \in AnswerType
    BY <1>1 DEF IInv, TypeOK, AnswerType
  <1>3. ResponseLength \in Nat \ {0} /\ version \in Nat
    BY ServiceAssumption DEF IInv, TypeOK
  <1>4. Len(old) \in Nat /\ Len(tokens) \in Nat /\ Len(r) \in Nat
        /\ DOMAIN r = 1..Len(r) /\ DOMAIN old = 1..Len(old) /\ DOMAIN tokens = 1..Len(tokens)
    BY <1>2
  <1>5. /\ answer[l].isCancel /\ Len(old) < ResponseLength
        /\ \A i \in 1..Len(old) : old[i].pos = i /\ ~old[i].last
    BY <1>4 DEF IInv, LoopInv, RequestOf, AnswerOf
  <1>6. sample[l[1]] = "busy" =>
          /\ version <= answer[l].end + 1 /\ answer[l].start <= reported
          /\ \A i \in 1..Len(old) : answer[l].start <= old[i].ver
                                     /\ old[i].ver <= answer[l].end + 1
    BY <1>4 DEF IInv, LoopInv, SpanOf
  <1>11. reported <= version /\ reported \in Nat /\ answer[l].start \in Nat /\ answer[l].end \in Nat
    BY <1>2 DEF IInv, TypeOK, Syncing, AnswerType
  <1> HIDE DEF joined, old
  <1>7. ASSUME NEW i \in 1..Len(r), i > Len(old)
        PROVE  i - Len(old) \in 1..Len(tokens) /\ r[i] = tokens[i - Len(old)]
    BY <1>1, <1>3, <1>4, <1>7
  <1>8. ASSUME NEW i \in 1..Len(r)
        PROVE  r[i].pos = i /\ (r[i].last => i = Len(r) /\ ~joined.isCancel)
    <2>1. CASE i <= Len(old)
      BY <1>1, <1>4, <1>5, <2>1
    <2>2. CASE i > Len(old)
      <3>1. i - Len(old) \in 1..Len(tokens) /\ r[i] = tokens[i - Len(old)]
        BY <1>7, <2>2
      <3>2. /\ r[i].pos = Len(old) + (i - Len(old))
            /\ r[i].last => i - Len(old) = Len(tokens) /\ ~c
        BY <1>4, <3>1 DEF Continue, old
      <3>3. r[i].last => ~joined.isCancel
        BY <1>1, <3>2
      <3>4. r[i].last => i = Len(r)
        BY <1>1, <1>3, <1>4, <3>2
      <3> QED
        BY <1>4, <3>2, <3>3, <3>4
    <2> QED
      BY <1>4, <2>1, <2>2
  <1>9. IF joined.isCancel THEN Len(r) < ResponseLength ELSE Ended(r)
    <2>1. CASE joined.isCancel
      <3>1. sum < ResponseLength
        BY <1>1, <2>1
      <3> QED
        BY <1>1, <1>3, <1>4, <2>1, <3>1
    <2>2. CASE ~joined.isCancel /\ sum < ResponseLength
      <3>1. ~c
        BY <1>1, <2>2
      <3>2. tokens # << >> /\ tokens[Len(tokens)].last
        BY <3>1 DEF Continue
      <3>3. Len(tokens) > 0 /\ Len(r) = sum
        BY <1>1, <1>3, <1>4, <2>2, <3>2
      <3>4. Len(r) \in 1..Len(r) /\ Len(r) > Len(old) /\ Len(r) - Len(old) = Len(tokens)
        BY <1>4, <3>3
      <3>5. r[Len(r)] = tokens[Len(tokens)]
        BY <1>7, <3>4
      <3> QED
        BY <1>2, <2>2, <3>2, <3>4, <3>5 DEF Ended
    <2>3. CASE ~joined.isCancel /\ sum >= ResponseLength
      <3>1. Len(r) = ResponseLength /\ Len(r) > 0
        BY <1>1, <1>3, <1>4, <2>3
      <3> QED
        BY <2>3, <3>1 DEF Ended
    <2> QED
      BY <1>1, <1>3, <1>4, <2>1, <2>2, <2>3
  <1>10. ASSUME sample[l[1]] = "busy", NEW i \in 1..Len(r)
         PROVE  answer[l].start <= r[i].ver /\ r[i].ver <= answer[l].end + 1
    <2>1. CASE i <= Len(old)
      BY <1>1, <1>4, <1>6, <1>10, <2>1
    <2>2. CASE i > Len(old)
      <3>1. i - Len(old) \in 1..Len(tokens) /\ r[i] = tokens[i - Len(old)]
        BY <1>7, <2>2
      <3>2. r[i].ver = version
        BY <1>4, <1>10, <3>1 DEF Continue
      <3> QED
        BY <1>3, <1>6, <1>10, <1>11, <3>2
    <2> QED
      BY <1>4, <2>1, <2>2
  <1> QED
    BY <1>4, <1>8, <1>9, <1>10 DEF joined

\* The request ends with such tokens.
LEMMA EndsKeeps ==
  ASSUME IInv, NEW l \in Loops, loop[l] \in {"sent", "open"},
         NEW tokens \in Seq(Token), NEW c \in BOOLEAN, Continue(l, tokens, c),
         Ends(l, tokens, c), UNCHANGED <<sample, given, version, reported, phase>>,
         phase = "transfer" /\ sample[l[1]] = "busy" => tokens = << >>
  PROVE  LoopInv(l)' /\ answer' \in [Loops -> AnswerType]
         /\ Len(answer'[l].response) <= ResponseLength
PROOF
  <1>1. /\ answer \in [Loops -> AnswerType] /\ loop \in [Loops -> {"idle", "sent", "open", "raised", "ended"}]
        /\ version \in Nat /\ ResponseLength \in Nat
    BY ServiceAssumption DEF IInv, TypeOK, AnswerType
  <1>2. loop'[l] = "ended" /\ answer'[l] = Joined(l, tokens, c)
        /\ answer' = [answer EXCEPT ![l] = Joined(l, tokens, c)]
    BY <1>1 DEF Ends
  <1>3. /\ answer'[l] \in AnswerType
        /\ answer'[l].start = answer[l].start /\ answer'[l].end = answer[l].end
        /\ answer'[l].begun = answer[l].begun
        /\ Len(answer'[l].response) <= ResponseLength
    <2>1. answer[l].response \in Seq(Token)
      BY <1>1 DEF AnswerType
    <2> QED
      BY <1>1, <1>2, <2>1, JoinedAnswer DEF IInv
  <1>4. sample[l[1]] \in {"busy", "failed"}
    BY DEF IInv, LoopInv, RequestOf
  <1>5. /\ AnswerOf(l)'
        /\ sample[l[1]] = "busy" =>
             \A i \in DOMAIN answer'[l].response :
               /\ answer'[l].start <= answer'[l].response[i].ver
               /\ answer'[l].response[i].ver <= answer'[l].end + 1
    BY <1>2, <1>3, AnswerContinued DEF AnswerOf, Ended
  <1>6. RequestOf(l)' /\ OutputOf(l)' /\ CompleteOf(l)' /\ OneVersionOf(l)'
    BY <1>2, <1>4 DEF RequestOf, OutputOf, CompleteOf, OneVersionOf
  <1>7. SpanOf(l)'
    <2>1. answer[l].begun
      BY DEF IInv, LoopInv, RequestOf
    <2> QED
      BY <1>2, <1>3, <1>4, <1>5, <2>1 DEF SpanOf, IInv, LoopInv
  <1>8. Unserved(l)'
    <2> SUFFICES ASSUME phase = "transfer", sample[l[1]] = "busy"
                 PROVE  Len(answer'[l].response) = given[l]
      BY <1>2 DEF Unserved
    <2>1. answer[l].response \in Seq(Token) /\ tokens = << >>
      BY <1>1 DEF AnswerType
    <2>2. /\ Len(answer'[l].response) = IF Len(answer[l].response) + 0 <= ResponseLength
                                        THEN Len(answer[l].response) + 0 ELSE ResponseLength
          /\ Len(answer[l].response) <= ResponseLength
      <3>1. TypeOK /\ Len(tokens) = 0 /\ answer'[l] = Joined(l, tokens, c)
        BY <1>2, <2>1 DEF IInv
      <3>2. Len(Joined(l, tokens, c).response) =
              IF Len(answer[l].response) + Len(tokens) <= ResponseLength
              THEN Len(answer[l].response) + Len(tokens) ELSE ResponseLength
        BY <3>1, JoinedAnswer
      <3> QED
        BY <3>1, <3>2 DEF TypeOK
    <2>3. given[l] = Len(answer[l].response) /\ Len(answer[l].response) \in Nat
      BY <2>1 DEF IInv, LoopInv, RequestOf
    <2> QED
      BY <1>1, <2>2, <2>3
  <1> QED
    BY <1>1, <1>2, <1>3, <1>5, <1>6, <1>7, <1>8 DEF LoopInv

\* A request that bounces off a paused server continues the answer with nothing.
LEMMA BounceKeeps ==
  ASSUME IInv, NEW l \in Loops, NEW v \in Servers, Bounce(l, v)
  PROVE  IInv'
PROOF
  <1>1. /\ loop[l] = "sent" /\ Ends(l, << >>, TRUE)
        /\ UNCHANGED <<sample, server, given, output, generated, cancelled, entries, paused,
                       phase, version, reported, pauses, failures>>
    BY DEF Bounce, pauseVars
  <1>2. << >> \in Seq(Token) /\ Continue(l, << >>, TRUE)
    BY DEF Continue
  <1>3. /\ LoopInv(l)' /\ answer' \in [Loops -> AnswerType]
        /\ Len(answer'[l].response) <= ResponseLength
    BY <1>1, <1>2, EndsKeeps
  <1>4. /\ loop' = [loop EXCEPT ![l] = "ended"]
        /\ answer' = [answer EXCEPT ![l] = Joined(l, << >>, TRUE)]
    BY <1>1 DEF Ends
  <1>5. TypeOK
    BY DEF IInv
  <1>6. TypeOK'
    BY <1>1, <1>3, <1>4, <1>5 DEF TypeOK, AnswerType
  <1>7. \A k \in Loops \ {l} : loop'[k] = loop[k] /\ answer'[k] = answer[k]
    BY <1>4, <1>5 DEF TypeOK
  <1> QED
    BY <1>1, <1>3, <1>6, <1>7, OneLoop

LEMMA OpenKeeps ==
  ASSUME IInv, NEW l \in Loops, NEW v \in Servers, Open(l, v)
  PROVE  IInv'
PROOF
  <1>1. /\ loop[l] = "sent" /\ loop' = [loop EXCEPT ![l] = "open"]
        /\ server' = [server EXCEPT ![l] = v] /\ entries' = [entries EXCEPT ![v] = @ + 1]
        /\ ~paused[v]
        /\ UNCHANGED <<sample, answer, given, output, generated, cancelled, paused, phase,
                       version, reported, pauses, failures>>
    BY DEF Open, callVars, pauseVars
  <1>2. TypeOK
    BY DEF IInv
  <1>3. TypeOK'
    BY <1>1, <1>2 DEF TypeOK
  <1>4. loop'[l] = "open" /\ output[l] = << >> /\ l \notin generated
    BY <1>1, <1>2 DEF TypeOK
  <1>5. LoopInv(l)'
    <2>1. RequestOf(l)' /\ AnswerOf(l)' /\ SpanOf(l)' /\ CompleteOf(l)'
      BY <1>1, <1>4 DEF IInv, LoopInv, RequestOf, AnswerOf, Ended, SpanOf, CompleteOf
    <2>2. OutputOf(l)' /\ OneVersionOf(l)'
      BY <1>1, <1>4 DEF OutputOf, OneVersionOf
    <2>3. Unserved(l)'
      BY <1>1 DEF IInv, Syncing, Unserved
    <2> QED
      BY <2>1, <2>2, <2>3 DEF LoopInv
  <1>6. \A k \in Loops \ {l} : loop'[k] = loop[k]
    BY <1>1, <1>2 DEF TypeOK
  <1> QED
    BY <1>1, <1>3, <1>5, <1>6, OneLoop

\* Another token: the next position, of the current weights.
LEMMA YieldKeeps ==
  ASSUME IInv, NEW l \in Loops, Yield(l)
  PROVE  IInv'
PROOF
  <1> DEFINE position == given[l] + Len(output[l]) + 1
             token(last) == [pos |-> position, ver |-> version, last |-> last]
  <1>1. TypeOK
    BY DEF IInv
  <1>2. PICK last \in BOOLEAN :
          /\ output' = [output EXCEPT ![l] = Append(output[l], token(last))]
          /\ generated' = IF last THEN generated \cup {l} ELSE generated
    BY DEF Yield
  <1>3. /\ loop[l] = "open" /\ l \notin generated
        /\ UNCHANGED <<sample, answer, loop, server, given, cancelled, entries, paused, phase,
                       version, reported, pauses, failures>>
    BY DEF Yield, Running, callVars, pauseVars
  <1>4. /\ output[l] \in Seq(Token) /\ given[l] \in Nat /\ version \in Nat
        /\ Len(output[l]) \in Nat /\ DOMAIN output[l] = 1..Len(output[l])
    <2>1. output[l] \in Seq(Token) /\ given[l] \in Nat /\ version \in Nat
      BY <1>1 DEF TypeOK
    <2> QED
      BY <2>1
  <1>5. token(last) \in Token /\ token(last).pos = position /\ token(last).ver = version
        /\ token(last).last = last
    BY <1>4 DEF Token
  <1> DEFINE t == token(last)
  <1> HIDE DEF token
  <1>6. /\ output'[l] = Append(output[l], t) /\ output'[l] \in Seq(Token)
        /\ Len(output'[l]) = Len(output[l]) + 1
        /\ DOMAIN output'[l] = 1..Len(output[l]) + 1
        /\ output'[l][Len(output[l]) + 1] = t
        /\ \A i \in 1..Len(output[l]) : output'[l][i] = output[l][i]
    <2>1. output'[l] = Append(output[l], t)
      BY <1>1, <1>2 DEF TypeOK
    <2>2. /\ Append(output[l], t) \in Seq(Token) /\ Len(Append(output[l], t)) = Len(output[l]) + 1
          /\ DOMAIN Append(output[l], t) = 1..Len(output[l]) + 1
          /\ Append(output[l], t)[Len(output[l]) + 1] = t
          /\ \A i \in 1..Len(output[l]) : Append(output[l], t)[i] = output[l][i]
      BY <1>4, <1>5
    <2> QED
      BY <2>1, <2>2
  <1>7. TypeOK'
    <2>1. output' \in [Loops -> Seq(Token)] /\ generated' \subseteq Loops
      BY <1>1, <1>2, <1>6 DEF TypeOK
    <2>2. \A k \in Loops : loop'[k] # "open" => output'[k] = << >>
                                               /\ k \notin generated' \cup cancelled'
      BY <1>1, <1>2, <1>3 DEF TypeOK
    <2> QED
      BY <1>1, <1>3, <2>1, <2>2 DEF TypeOK
  <1>8. LoopInv(l)'
    <2> LoopInv(l)
      BY DEF IInv
    <2>1. RequestOf(l)' /\ AnswerOf(l)' /\ SpanOf(l)' /\ CompleteOf(l)'
      BY <1>3 DEF LoopInv, RequestOf, AnswerOf, Ended, SpanOf, CompleteOf
    <2>2. \A i \in 1..Len(output[l]) : output[l][i].pos = given[l] + i /\ ~output[l][i].last
      BY <1>3, <1>4 DEF LoopInv, OutputOf
    <2>3. l \in generated' <=> last
      BY <1>2, <1>3
    <2>4. ASSUME NEW i \in 1..Len(output[l]) + 1
          PROVE  /\ output'[l][i].pos = given[l] + i
                 /\ output'[l][i].last => i = Len(output'[l]) /\ last
      <3>1. CASE i \in 1..Len(output[l])
        BY <1>6, <2>2, <3>1
      <3>2. CASE i = Len(output[l]) + 1
        <4>1. output'[l][i] = t /\ i = Len(output'[l]) /\ position = given[l] + i
          BY <1>4, <1>6, <3>2
        <4> QED
          BY <1>5, <4>1, Zenon
      <3> QED
        BY <1>4, <3>1, <3>2
    <2>5. last => output'[l] # << >> /\ output'[l][Len(output'[l])].last
      <3>1. output'[l][Len(output'[l])] = t
        BY <1>6
      <3>2. Len(output'[l]) # 0
        BY <1>4, <1>6
      <3>3. output'[l] # << >>
        BY <3>2
      <3> QED
        BY <1>5, <3>1, <3>3, Zenon
    <2>6. OutputOf(l)'
      BY <1>3, <1>6, <2>3, <2>4, <2>5 DEF OutputOf
    <2>7. OneVersionOf(l)'
      <3> SUFFICES ASSUME sample[l[1]] = "busy", NEW i \in 1..Len(output[l]) + 1
                   PROVE  output'[l][i].ver = version
        BY <1>3, <1>6 DEF OneVersionOf
      <3>1. CASE i \in 1..Len(output[l])
        BY <1>3, <1>4, <1>6, <3>1 DEF LoopInv, OneVersionOf
      <3>2. CASE i = Len(output[l]) + 1
        BY <1>5, <1>6, <3>2
      <3> QED
        BY <1>4, <3>1, <3>2
    <2>8. Unserved(l)'
      BY <1>3 DEF LoopInv, Unserved
    <2> QED
      BY <2>1, <2>6, <2>7, <2>8 DEF LoopInv
  <1>9. \A k \in Loops \ {l} : output'[k] = output[k] /\ (k \in generated' <=> k \in generated)
    BY <1>1, <1>2 DEF TypeOK
  <1> QED
    BY <1>3, <1>7, <1>8, <1>9, OneLoop

LEMMA FiniteLoops ==
  /\ IsFiniteSet(Loops) /\ Cardinality(Loops) \in Nat
  /\ \A S \in SUBSET Loops : /\ IsFiniteSet(S) /\ Cardinality(S) \in Nat
                             /\ Cardinality(S) <= Cardinality(Loops)
PROOF
  <1>1. IsFiniteSet(Loops)
    BY ServiceAssumption, FS_Product DEF Loops
  <1> QED
    BY <1>1, FS_Subset, FS_CardinalityType

\* The keys of an open request are among those counted.
LEMMA OpenCounted ==
  ASSUME Inv, NEW l \in Loops, loop[l] = "open"
  PROVE  entries[server[l]] >= 1
PROOF
  <1>1. server[l] \in Servers /\ l \in OpenAt(server[l]) /\ entries[server[l]] \in Nat
    BY DEF Inv, IInv, TypeOK, OpenAt
  <1>2. OpenAt(server[l]) \in SUBSET Loops
    BY DEF OpenAt
  <1>3. IsFiniteSet(OpenAt(server[l])) /\ Cardinality(OpenAt(server[l])) \in Nat
    BY <1>2, FiniteLoops
  <1>4. Cardinality(OpenAt(server[l])) # 0
    BY <1>1, <1>3, FS_EmptySet
  <1>5. Cardinality(OpenAt(server[l])) <= entries[server[l]]
    BY <1>1 DEF Inv, KeysOf
  <1> QED
    BY <1>1, <1>3, <1>4, <1>5

\* The wait is over: what the engine has generated continues the answer.
LEMMA WakeKeeps ==
  ASSUME Inv, NEW l \in Loops, Wake(l)
  PROVE  IInv'
PROOF
  <1>1. TypeOK /\ IInv
    BY DEF Inv, IInv
  <1>2. /\ loop[l] = "open" /\ Ends(l, output[l], l \notin generated)
        /\ entries' = [entries EXCEPT ![server[l]] = IF Pops(l) THEN @ - 1 ELSE @]
        /\ generated' = generated \ {l} /\ cancelled' = cancelled \ {l}
        /\ output' = [output EXCEPT ![l] = << >>]
        /\ UNCHANGED <<sample, server, given, paused, phase, version, reported, pauses, failures>>
    BY DEF Wake, Interrupted, pauseVars
  <1>3. output[l] \in Seq(Token) /\ (l \notin generated) \in BOOLEAN
    BY <1>1 DEF TypeOK
  <1>4. Continue(l, output[l], l \notin generated)
    BY <1>1, <1>2 DEF Continue, IInv, LoopInv, RequestOf, OutputOf, OneVersionOf
  <1>5. /\ LoopInv(l)' /\ answer' \in [Loops -> AnswerType]
        /\ Len(answer'[l].response) <= ResponseLength
    <2>1. ~(phase = "transfer" /\ sample[l[1]] = "busy")
      BY <1>1, <1>2 DEF IInv, LoopInv, Unserved
    <2> QED
      BY <1>1, <1>2, <1>3, <1>4, <2>1, EndsKeeps
  <1>6. /\ loop' = [loop EXCEPT ![l] = "ended"]
        /\ answer' = [answer EXCEPT ![l] = Joined(l, output[l], l \notin generated)]
    BY <1>2 DEF Ends
  <1>7. \A k \in Loops \ {l} : /\ loop'[k] = loop[k] /\ answer'[k] = answer[k]
                              /\ output'[k] = output[k]
                              /\ (k \in generated' <=> k \in generated)
                              /\ (k \in cancelled' <=> k \in cancelled)
    BY <1>1, <1>2, <1>6 DEF TypeOK
  <1>8. TypeOK'
    <2>1. entries' \in [Servers -> Nat]
      <3>1. entries[server[l]] \in Nat /\ entries[server[l]] >= 1 /\ server[l] \in Servers
        BY <1>1, <1>2, OpenCounted DEF TypeOK
      <3> QED
        BY <1>1, <1>2, <3>1 DEF TypeOK
    <2>2. output' \in [Loops -> Seq(Token)] /\ output'[l] = << >>
      BY <1>1, <1>2 DEF TypeOK
    <2>3. loop' \in [Loops -> {"idle", "sent", "open", "raised", "ended"}]
      BY <1>1, <1>6 DEF TypeOK
    <2>4. generated' \subseteq Loops /\ cancelled' \subseteq Loops
          /\ l \notin generated' \cup cancelled'
      BY <1>1, <1>2 DEF TypeOK
    <2>5. ASSUME NEW k \in Loops
          PROVE  /\ Len(answer'[k].response) <= ResponseLength
                 /\ loop'[k] # "open" => output'[k] = << >> /\ k \notin generated' \cup cancelled'
      <3>1. CASE k = l
        BY <1>5, <2>2, <2>4, <3>1
      <3>2. CASE k # l
        BY <1>1, <1>7, <3>2 DEF TypeOK
      <3> QED
        BY <3>1, <3>2
    <2> QED
      BY <1>1, <1>2, <1>5, <2>1, <2>2, <2>3, <2>4, <2>5 DEF TypeOK, AnswerType
  <1> QED
    BY <1>1, <1>2, <1>5, <1>7, <1>8, OneLoop

\* The generation raises: the loop is out, and so in time is its sample.
LEMMA FailKeeps ==
  ASSUME IInv, NEW l \in Loops, Fail(l)
  PROVE  IInv'
PROOF
  <1>1. TypeOK
    BY DEF IInv
  <1>2. /\ loop[l] = "open" /\ l \notin generated
        /\ failures' = failures + 1 /\ loop' = [loop EXCEPT ![l] = "raised"]
        /\ cancelled' = cancelled \ {l} /\ output' = [output EXCEPT ![l] = << >>]
        /\ UNCHANGED <<sample, answer, server, given, generated, entries, paused, phase, version, reported,
                       pauses>>
    BY DEF Fail, Running, callVars, pauseVars
  <1>3. TypeOK'
    BY <1>1, <1>2 DEF TypeOK
  <1>4. loop'[l] = "raised"
    BY <1>1, <1>2 DEF TypeOK
  <1>5. LoopInv(l)'
    <2>1. RequestOf(l)' /\ OutputOf(l)' /\ CompleteOf(l)' /\ OneVersionOf(l)' /\ Unserved(l)'
      BY <1>2, <1>4 DEF IInv, LoopInv, RequestOf, OutputOf, CompleteOf, OneVersionOf, Unserved
    <2>2. AnswerOf(l)' /\ SpanOf(l)'
      BY <1>2, <1>4 DEF IInv, LoopInv, AnswerOf, Ended, SpanOf
    <2> QED
      BY <2>1, <2>2 DEF LoopInv
  <1>6. \A k \in Loops \ {l} : loop'[k] = loop[k] /\ output'[k] = output[k]
    BY <1>1, <1>2 DEF TypeOK
  <1> QED
    BY <1>2, <1>3, <1>5, <1>6, OneLoop

-----------------------------------------------------------------------------
(* The pause's steps                                                       *)

\* The tasks have returned: no sample is busy when the transfer begins.
LEMMA DrainedKeeps ==
  ASSUME IInv, AllDrained
  PROVE  IInv'
PROOF
  <1>1. /\ phase = "drain" /\ phase' = "transfer" /\ \A s \in Samples : sample[s] # "busy"
        /\ UNCHANGED <<sample, answer, loop, server, given, output, generated, cancelled, entries,
                       paused, version, reported, pauses, failures>>
    BY DEF AllDrained, Drained, callVars, requestVars
  <1>2. TypeOK' /\ Syncing'
    BY <1>1 DEF IInv, TypeOK, Syncing
  <1>3. ASSUME NEW l \in Loops PROVE LoopInv(l)'
    <2> LoopInv(l) /\ l[1] \in Samples
      BY LoopParts DEF IInv
    <2>1. RequestOf(l)' /\ OutputOf(l)' /\ AnswerOf(l)' /\ CompleteOf(l)' /\ SpanOf(l)'
      BY <1>1 DEF LoopInv, RequestOf, OutputOf, AnswerOf, Ended, CompleteOf, SpanOf
    <2>2. OneVersionOf(l)' /\ Unserved(l)'
      BY <1>1 DEF LoopInv, OneVersionOf, Unserved
    <2> QED
      BY <2>1, <2>2 DEF LoopInv
  <1> QED
    BY <1>2, <1>3 DEF IInv

\* Weights change when no server serves a sample: what still runs is for nobody, and
\* what was submitted meanwhile was labelled with the version before.
LEMMA SyncKeeps ==
  ASSUME IInv, SyncWeights
  PROVE  IInv'
PROOF
  <1>1. TypeOK
    BY DEF IInv
  <1>2. /\ version' = version + 1 /\ phase = "transfer" /\ phase' = "update"
        /\ UNCHANGED <<sample, answer, loop, server, given, output, generated, cancelled, entries,
                       paused, reported, pauses, failures>>
    BY DEF SyncWeights, callVars, requestVars
  <1>3. TypeOK' /\ Syncing'
    BY <1>1, <1>2 DEF TypeOK, IInv, Syncing
  <1>4. ASSUME NEW l \in Loops PROVE LoopInv(l)'
    <2> LoopInv(l) /\ l[1] \in Samples
      BY LoopParts DEF IInv
    <2>1. RequestOf(l)' /\ OutputOf(l)' /\ AnswerOf(l)' /\ CompleteOf(l)' /\ Unserved(l)'
      BY <1>2 DEF LoopInv, RequestOf, OutputOf, AnswerOf, Ended, CompleteOf, Unserved
    <2>2. OneVersionOf(l)'
      BY <1>2 DEF LoopInv, Unserved, OneVersionOf
    <2>3. SpanOf(l)'
      <3>1. version \in Nat /\ answer[l] \in AnswerType
        BY <1>1 DEF TypeOK, AnswerType
      <3>2. sample[l[1]] # "failed" /\ loop[l] \in {"sent", "open"} => answer[l].end = version
        BY <1>2 DEF LoopInv, RequestOf, Unserved
      <3>3. answer[l].start \in Nat /\ answer[l].end \in Nat
        BY <3>1 DEF AnswerType
      <3>4. sample[l[1]] # "failed" /\ loop[l] \in {"sent", "open"} =>
              version + 1 <= answer[l].end + 1
        BY <3>1, <3>2
      <3> QED
        BY <1>2, <3>4 DEF LoopInv, SpanOf
    <2> QED
      BY <2>1, <2>2, <2>3 DEF LoopInv
  <1> QED
    BY <1>3, <1>4 DEF IInv

\* The rollouter catches up with the servers.
LEMMA UpdateKeeps ==
  ASSUME IInv, UpdateVersion
  PROVE  IInv'
PROOF
  <1>1. TypeOK
    BY DEF IInv
  <1>2. /\ phase = "update" /\ phase' = "resume" /\ reported' = version
        /\ UNCHANGED <<sample, answer, loop, server, given, output, generated, cancelled, entries,
                       paused, version, pauses, failures>>
    BY DEF UpdateVersion, callVars, requestVars
  <1>3. TypeOK' /\ Syncing' /\ reported' = reported + 1
    BY <1>1, <1>2 DEF TypeOK, IInv, Syncing
  <1>4. ASSUME NEW l \in Loops PROVE LoopInv(l)'
    <2> LoopInv(l)
      BY DEF IInv
    <2>1. RequestOf(l)' /\ OutputOf(l)' /\ AnswerOf(l)' /\ CompleteOf(l)' /\ Unserved(l)'
          /\ OneVersionOf(l)'
      BY <1>2 DEF LoopInv, RequestOf, OutputOf, AnswerOf, Ended, CompleteOf, Unserved, OneVersionOf
    <2>2. answer[l].start \in Nat /\ answer[l].end \in Nat /\ reported \in Nat
      BY <1>1 DEF TypeOK
    <2>3. SpanOf(l)'
      BY <1>2, <1>3, <2>2 DEF LoopInv, SpanOf
    <2> QED
      BY <2>1, <2>3 DEF LoopInv
  <1> QED
    BY <1>3, <1>4 DEF IInv

\* The rest of a pause touches neither answers nor what the engine has generated.
LEMMA PauseKeeps ==
  ASSUME IInv,
         \/ PauseBegin \/ AllCancelled \/ AllResumed
         \/ \E v \in Servers : Cancel(v) \/ Resume(v)
         \/ UNCHANGED vars
  PROVE  IInv'
PROOF
  <1>1. TypeOK
    BY DEF IInv
  <1>2. UNCHANGED <<sample, answer, loop, server, given, output, generated, entries, version,
                    reported, failures>>
    BY DEF PauseBegin, AllCancelled, AllResumed, Cancel, Resume, vars, callVars, requestVars,
           pauseVars
  <1>3. /\ paused' \in [Servers -> BOOLEAN] /\ pauses' \in Nat
        /\ phase' \in {"run", "cancel", "drain", "transfer", "update", "resume"}
        /\ phase' = "transfer" => phase = "transfer"
        /\ Syncing'
    <2>1. CASE \E v \in Servers : Cancel(v) \/ Resume(v)
      BY <1>1, <2>1 DEF Cancel, Resume, TypeOK, IInv, Syncing
    <2>2. CASE PauseBegin \/ AllCancelled \/ AllResumed \/ UNCHANGED vars
      BY <1>1, <2>2 DEF PauseBegin, AllCancelled, AllResumed, vars, pauseVars, TypeOK, IInv,
                        Syncing
    <2> QED
      BY <2>1, <2>2
  <1>4. /\ cancelled' \subseteq Loops
        /\ \A l \in Loops : l \in cancelled' => l \in cancelled \/ loop[l] = "open"
    <2>1. CASE \E v \in Servers : Cancel(v)
      <3>1. PICK v \in Servers : cancelled' = cancelled \cup CancelSets(v)
        BY <2>1 DEF Cancel
      <3> QED
        BY <1>1, <3>1 DEF CancelSets, TypeOK
    <2>2. CASE cancelled' = cancelled
      BY <1>1, <2>2 DEF TypeOK
    <2> QED
      BY <2>1, <2>2 DEF PauseBegin, AllCancelled, AllResumed, Resume, vars, requestVars
  <1>5. TypeOK'
    BY <1>1, <1>2, <1>3, <1>4 DEF TypeOK
  <1>6. ASSUME NEW l \in Loops PROVE LoopInv(l)'
    <2> LoopInv(l)
      BY DEF IInv
    <2> QED
      BY <1>2, <1>3 DEF LoopInv, RequestOf, OutputOf, AnswerOf, Ended, SpanOf, CompleteOf,
                        OneVersionOf, Unserved
  <1> QED
    BY <1>3, <1>5, <1>6 DEF IInv

-----------------------------------------------------------------------------
(* The keys of cancel_event and req_output                                 *)

LEMMA KeysTypes ==
  ASSUME Inv
  PROVE  /\ pauses \in Nat /\ failures \in Nat /\ Cardinality(Loops) \in Nat
         /\ pauses * Cardinality(Loops) \in Nat
         /\ \A v \in Servers : entries[v] \in Nat /\ OpenAt(v) \in SUBSET Loops
         /\ MayLeak \in SUBSET Loops
PROOF
  <1>1. pauses \in Nat /\ failures \in Nat /\ \A v \in Servers : entries[v] \in Nat
    BY DEF Inv, IInv, TypeOK
  <1>2. Cardinality(Loops) \in Nat
    BY FiniteLoops
  <1>3. pauses * Cardinality(Loops) \in Nat
    BY <1>1, <1>2
  <1> QED
    BY <1>1, <1>2, <1>3 DEF OpenAt, MayLeak

\* A step that opens and closes no request, and starts no pause, adds no key.
LEMMA NoKeys ==
  ASSUME Inv, UNCHANGED <<entries, pauses, failures>>,
         \A v \in Servers : OpenAt(v)' = OpenAt(v), MayLeak' \subseteq MayLeak
  PROVE  \A v \in Servers : KeysOf(v)'
PROOF
  <1> SUFFICES ASSUME NEW v \in Servers PROVE KeysOf(v)'
    OBVIOUS
  <1>1. MayLeak' \in SUBSET MayLeak /\ IsFiniteSet(MayLeak) /\ OpenAt(v) \in SUBSET Loops
    BY FiniteLoops, KeysTypes
  <1>2. Cardinality(MayLeak') <= Cardinality(MayLeak) /\ Cardinality(MayLeak') \in Nat
        /\ Cardinality(MayLeak) \in Nat /\ Cardinality(OpenAt(v)) \in Nat
    BY <1>1, FiniteLoops, FS_Subset, FS_CardinalityType
  <1>3. KeysOf(v) /\ entries[v] \in Nat /\ failures \in Nat
        /\ pauses * Cardinality(Loops) \in Nat
    BY KeysTypes DEF Inv
  <1> DEFINE n == pauses * Cardinality(Loops)
  <1>4. n' = n
    OBVIOUS
  <1> HIDE DEF n
  <1>5. entries[v] + Cardinality(MayLeak') <= Cardinality(OpenAt(v)) + n + failures
    BY <1>2, <1>3 DEF KeysOf, n
  <1>6. Cardinality(OpenAt(v)') <= entries'[v]
    BY <1>3 DEF KeysOf
  <1> QED
    BY <1>4, <1>5, <1>6 DEF KeysOf, n

\* A request that is over takes its keys along, or is one that might leak, or raised.
LEMMA OneRequestLess ==
  ASSUME Inv, NEW l \in Loops, loop[l] = "open", loop'[l] # "open",
         \A k \in Loops \ {l} : loop'[k] = loop[k],
         UNCHANGED <<server, pauses>>,
         \A u \in Servers \ {server[l]} : entries'[u] = entries[u],
         failures' \in Nat, entries'[server[l]] \in Nat,
         MayLeak' \subseteq MayLeak,
         \/ entries'[server[l]] = entries[server[l]] - 1 /\ failures' = failures
         \/ entries'[server[l]] = entries[server[l]] /\ failures' = failures + 1
         \/ /\ entries'[server[l]] = entries[server[l]] /\ failures' = failures
            /\ l \in MayLeak /\ l \notin MayLeak'
  PROVE  \A v \in Servers : KeysOf(v)'
PROOF
  <1> SUFFICES ASSUME NEW v \in Servers PROVE KeysOf(v)'
    OBVIOUS
  <1> DEFINE n == pauses * Cardinality(Loops)
             o == Cardinality(OpenAt(v))
             m == Cardinality(MayLeak)
  <1>1. /\ MayLeak \in SUBSET Loops /\ IsFiniteSet(MayLeak) /\ MayLeak' \in SUBSET Loops
        /\ OpenAt(v) \in SUBSET Loops /\ IsFiniteSet(OpenAt(v))
    BY FiniteLoops, KeysTypes
  <1>2. m' <= m /\ m' \in Nat /\ m \in Nat /\ o \in Nat
    BY <1>1, FiniteLoops, FS_Subset, FS_CardinalityType
  <1>3. l \in MayLeak /\ l \notin MayLeak' => m' <= m - 1
    <2> SUFFICES ASSUME l \in MayLeak, l \notin MayLeak' PROVE m' <= m - 1
      OBVIOUS
    <2>1. MayLeak' \in SUBSET (MayLeak \ {l})
      OBVIOUS
    <2>2. IsFiniteSet(MayLeak \ {l}) /\ Cardinality(MayLeak \ {l}) = m - 1
      BY <1>1, FS_RemoveElement
    <2> QED
      BY <2>1, <2>2, FS_Subset
  <1>4. /\ o <= entries[v] /\ entries[v] + m <= o + n + failures
        /\ entries[v] \in Nat /\ failures \in Nat /\ n \in Nat /\ n' = n
    BY KeysTypes DEF Inv, KeysOf
  <1>5. CASE v = server[l]
    <2>1. OpenAt(v)' = OpenAt(v) \ {l} /\ l \in OpenAt(v)
      BY <1>5 DEF OpenAt
    <2>2. o' = o - 1
      BY <1>1, <2>1, FS_RemoveElement
    <2>3. 1 <= o
      BY <1>1, <1>2, <2>1, FS_EmptySet
    <2> HIDE DEF n, o, m
    <2>4. o' <= entries'[v]
      BY <1>2, <1>4, <1>5, <2>2
    <2>5. entries'[v] + m' <= o' + n' + failures'
      BY <1>2, <1>3, <1>4, <1>5, <2>2, <2>3
    <2> QED
      BY <2>4, <2>5 DEF KeysOf, n, o, m
  <1>6. CASE v # server[l]
    <2>1. OpenAt(v)' = OpenAt(v)
      BY <1>6 DEF OpenAt
    <2>2. o' = o /\ entries'[v] = entries[v] /\ (failures' = failures \/ failures' = failures + 1)
      BY <1>6, <2>1
    <2> HIDE DEF n, o, m
    <2>3. o' <= entries'[v] /\ entries'[v] + m' <= o' + n' + failures'
      BY <1>2, <1>4, <2>2
    <2> QED
      BY <2>3 DEF KeysOf, n, o, m
  <1> QED
    BY <1>5, <1>6

\* The worker's steps, a bounce and a token.
LEMMA WorkerKeys ==
  ASSUME Inv,
         \/ \E s \in Samples : Submit(s) \/ Collect(s) \/ Raise(s)
         \/ \E l \in Loops : Yield(l) \/ \E v \in Servers : Bounce(l, v)
         \/ UNCHANGED vars
  PROVE  \A v \in Servers : KeysOf(v)'
PROOF
  <1>1. UNCHANGED <<entries, pauses, failures, server, phase, cancelled>>
    BY DEF Submit, Collect, Raise, Yield, Bounce, vars, callVars, requestVars, pauseVars
  <1>2. ASSUME NEW l \in Loops
        PROVE  /\ loop'[l] = "open" <=> loop[l] = "open"
               /\ phase \in {"cancel", "drain"} /\ loop'[l] = "sent" => loop[l] \in {"sent", "open"}
    <2>1. TypeOK /\ RequestOf(l)
      BY DEF Inv, IInv, LoopInv
    <2>2. CASE \E s \in Samples : Submit(s)
      <3>1. PICK s \in Samples : Submit(s)
        BY <2>2
      <3>2. l \in GroupOf(s) => loop[l] = "idle"
        BY <2>1, <3>1, LoopParts DEF Submit, RequestOf
      <3> QED
        BY <3>1, <3>2 DEF Submit
    <2>3. CASE \E s \in Samples : Collect(s)
      <3>1. PICK s \in Samples : Collect(s)
        BY <2>3
      <3>2. l[1] = s => loop[l] \in {"idle", "ended"}
        BY <3>1, LoopParts DEF Collect
      <3>3. loop'[l] = IF l[1] = s THEN "idle" ELSE loop[l]
        BY <3>1 DEF Collect
      <3> QED
        BY <3>2, <3>3
    <2>4. CASE \/ \E s \in Samples : Raise(s)
               \/ \E k \in Loops : Yield(k)
               \/ UNCHANGED vars
      BY <2>4 DEF Raise, Yield, vars, callVars, requestVars
    <2>5. CASE \E k \in Loops : \E v \in Servers : Bounce(k, v)
      BY <2>1, <2>5 DEF Bounce, Ends, TypeOK
    <2> QED
      BY <2>2, <2>3, <2>4, <2>5
  <1>3. \A v \in Servers : OpenAt(v)' = OpenAt(v)
    BY <1>1, <1>2 DEF OpenAt
  <1>4. MayLeak' \subseteq MayLeak
    BY <1>1, <1>2 DEF MayLeak
  <1> QED
    BY <1>1, <1>3, <1>4, NoKeys

LEMMA OpenKeys ==
  ASSUME Inv, NEW l \in Loops, NEW v \in Servers, Open(l, v)
  PROVE  \A u \in Servers : KeysOf(u)'
PROOF
  <1>1. /\ loop[l] = "sent" /\ loop' = [loop EXCEPT ![l] = "open"]
        /\ server' = [server EXCEPT ![l] = v] /\ entries' = [entries EXCEPT ![v] = @ + 1]
        /\ UNCHANGED <<cancelled, phase, pauses, failures>>
    BY DEF Open, callVars, pauseVars
  <1>2. TypeOK
    BY DEF Inv, IInv
  <1>3. MayLeak' = MayLeak
    BY <1>1, <1>2 DEF MayLeak, TypeOK
  <1> SUFFICES ASSUME NEW u \in Servers PROVE KeysOf(u)'
    OBVIOUS
  <1> DEFINE n == pauses * Cardinality(Loops)
             o == Cardinality(OpenAt(u))
             m == Cardinality(MayLeak)
  <1>4. /\ o <= entries[u] /\ entries[u] + m <= o + n + failures
        /\ entries[u] \in Nat /\ failures \in Nat /\ n \in Nat /\ n' = n /\ m' = m
        /\ o \in Nat /\ m \in Nat /\ OpenAt(u) \in SUBSET Loops /\ IsFiniteSet(OpenAt(u))
    BY <1>1, <1>3, KeysTypes, FiniteLoops DEF Inv, KeysOf
  <1>5. CASE u = v
    <2>1. OpenAt(u)' = OpenAt(u) \cup {l} /\ l \notin OpenAt(u)
      BY <1>1, <1>2, <1>5 DEF OpenAt, TypeOK
    <2>2. o' = o + 1
      BY <1>4, <2>1, FS_AddElement
    <2>3. entries'[u] = entries[u] + 1 /\ failures' = failures
      BY <1>1, <1>2, <1>5 DEF TypeOK
    <2> HIDE DEF n, o, m
    <2>4. o' <= entries'[u] /\ entries'[u] + m' <= o' + n' + failures'
      BY <1>4, <2>2, <2>3
    <2> QED
      BY <2>4 DEF KeysOf, n, o, m
  <1>6. CASE u # v
    <2>1. OpenAt(u)' = OpenAt(u)
      BY <1>1, <1>2, <1>6 DEF OpenAt, TypeOK
    <2>2. o' = o /\ entries'[u] = entries[u] /\ failures' = failures
      BY <1>1, <1>2, <1>6, <2>1 DEF TypeOK
    <2> HIDE DEF n, o, m
    <2>3. o' <= entries'[u] /\ entries'[u] + m' <= o' + n' + failures'
      BY <1>4, <2>2
    <2> QED
      BY <2>3 DEF KeysOf, n, o, m
  <1> QED
    BY <1>5, <1>6

LEMMA EndedKeys ==
  ASSUME Inv, NEW l \in Loops, Wake(l) \/ Fail(l)
  PROVE  \A v \in Servers : KeysOf(v)'
PROOF
  <1>1. TypeOK /\ OutputOf(l)
    BY DEF Inv, IInv, LoopInv
  <1>2. /\ loop[l] = "open" /\ server[l] \in Servers /\ entries[server[l]] \in Nat
        /\ entries[server[l]] >= 1 /\ failures \in Nat
    BY <1>1, OpenCounted DEF Wake, Fail, Running, TypeOK
  <1>3. /\ loop'[l] # "open" /\ loop'[l] # "sent"
        /\ \A k \in Loops \ {l} : loop'[k] = loop[k]
        /\ UNCHANGED <<server, pauses, phase>>
    BY <1>1 DEF Wake, Fail, Ends, TypeOK, pauseVars
  <1>4. MayLeak' \subseteq MayLeak /\ l \notin MayLeak'
    <2>1. cancelled' = cancelled \ {l}
      BY DEF Wake, Fail
    <2>2. \A k \in Loops : k \in MayLeak' => k # l /\ k \in MayLeak
      BY <1>3, <2>1 DEF MayLeak
    <2> QED
      BY <2>2 DEF MayLeak
  <1>5. CASE Wake(l)
    <2>1. /\ entries' = [entries EXCEPT ![server[l]] = IF Pops(l) THEN @ - 1 ELSE @]
          /\ failures' = failures /\ l \in generated \cup cancelled
      BY <1>5 DEF Wake
    <2>2. CASE Pops(l)
      <3>1. /\ entries'[server[l]] = entries[server[l]] - 1
            /\ \A u \in Servers \ {server[l]} : entries'[u] = entries[u]
        BY <1>1, <1>2, <2>1, <2>2 DEF TypeOK
      <3>2. entries'[server[l]] \in Nat
        BY <1>2, <3>1
      <3> QED
        BY <1>2, <1>3, <1>4, <2>1, <3>1, <3>2, OneRequestLess
    <2>3. CASE ~Pops(l)
      <3>1. entries' = entries
        BY <1>1, <2>1, <2>3 DEF TypeOK
      <3>2. l \in MayLeak
        BY <1>1, <1>2, <2>1, <2>3 DEF Pops, OutputOf, MayLeak
      <3> QED
        BY <1>2, <1>3, <1>4, <2>1, <3>1, <3>2, OneRequestLess
    <2> QED
      BY <2>2, <2>3
  <1>6. CASE Fail(l)
    <2>1. entries' = entries /\ failures' = failures + 1
      BY <1>6 DEF Fail
    <2>2. failures' \in Nat
      BY <1>2, <2>1
    <2> QED
      BY <1>2, <1>3, <1>4, <2>1, <2>2, OneRequestLess
  <1> QED
    BY <1>5, <1>6

LEMMA PauseKeys ==
  ASSUME Inv,
         \/ PauseBegin \/ AllCancelled \/ AllDrained \/ SyncWeights \/ UpdateVersion \/ AllResumed
         \/ \E v \in Servers : Cancel(v) \/ Resume(v)
  PROVE  \A v \in Servers : KeysOf(v)'
PROOF
  <1>1. UNCHANGED <<loop, server, entries, failures>>
    BY DEF PauseBegin, AllCancelled, AllDrained, SyncWeights, UpdateVersion, AllResumed, Cancel,
           Resume, requestVars
  <1>2. \A v \in Servers : OpenAt(v)' = OpenAt(v)
    BY <1>1 DEF OpenAt
  <1>3. CASE PauseBegin
    <2> SUFFICES ASSUME NEW v \in Servers PROVE KeysOf(v)'
      OBVIOUS
    <2> DEFINE N == Cardinality(Loops)
               n == pauses * N
               o == Cardinality(OpenAt(v))
               m == Cardinality(MayLeak)
    <2>1. pauses' = pauses + 1 /\ pauses \in Nat /\ N \in Nat
      BY <1>3, KeysTypes DEF PauseBegin
    <2>2. /\ o <= entries[v] /\ entries[v] + m <= o + n + failures
          /\ entries[v] \in Nat /\ failures \in Nat /\ n \in Nat /\ o \in Nat /\ m \in Nat
      BY KeysTypes, FiniteLoops DEF Inv, KeysOf
    <2>3. m' \in Nat /\ m' <= N
      <3>1. MayLeak' \in SUBSET Loops
        BY DEF MayLeak
      <3> QED
        BY <3>1, FiniteLoops
    <2>4. (pauses + 1) * N = pauses * N + N
      BY <2>1
    <2>5. (pauses * N)' = n + N /\ o' = o /\ entries' = entries /\ failures' = failures
      BY <1>1, <1>2, <2>1, <2>4
    <2> HIDE DEF n, o, m, N
    <2>6. o' <= entries'[v] /\ entries'[v] + m' <= o' + (n + N) + failures'
      BY <2>1, <2>2, <2>3, <2>5
    <2> QED
      BY <2>5, <2>6 DEF KeysOf, n, o, m, N
  <1>4. CASE \/ AllCancelled \/ SyncWeights \/ UpdateVersion \/ AllResumed
             \/ \E v \in Servers : Cancel(v) \/ Resume(v)
    <2>1. pauses' = pauses /\ (phase \in {"cancel", "drain"} <=> phase' \in {"cancel", "drain"})
          /\ (phase \notin {"cancel", "drain"} => cancelled' = cancelled)
      BY <1>4 DEF AllCancelled, SyncWeights, UpdateVersion, AllResumed, Cancel, Resume, requestVars
    <2>2. MayLeak' \subseteq MayLeak
      BY <1>1, <2>1 DEF MayLeak
    <2> QED
      BY <1>1, <1>2, <2>1, <2>2, NoKeys
  <1>5. CASE AllDrained
    <2>1. pauses' = pauses /\ phase = "drain" /\ phase' = "transfer" /\ cancelled' = cancelled
      BY <1>5 DEF AllDrained, requestVars
    <2>2. \A l \in Loops : l \in cancelled => loop[l] = "open"
      BY DEF Inv, IInv, TypeOK
    <2>3. MayLeak' \subseteq MayLeak
      BY <1>1, <2>1, <2>2 DEF MayLeak
    <2> QED
      BY <1>1, <1>2, <2>1, <2>3, NoKeys
  <1> QED
    BY <1>3, <1>4, <1>5

-----------------------------------------------------------------------------
(* The theorems                                                            *)

LEMMA InitKeys == Init => Inv
PROOF
  <1> SUFFICES ASSUME Init PROVE Inv
    OBVIOUS
  <1>1. IInv
    BY InitService
  <1>2. \A v \in Servers : entries[v] = 0 /\ OpenAt(v) = {}
    BY DEF Init, OpenAt
  <1>3. MayLeak = {} /\ pauses = 0 /\ failures = 0
    BY DEF Init, MayLeak
  <1>4. Cardinality({}) = 0 /\ 0 * Cardinality(Loops) = 0
    BY FS_EmptySet, FiniteLoops
  <1>5. \A v \in Servers : KeysOf(v)
    BY <1>2, <1>3, <1>4 DEF KeysOf
  <1> QED
    BY <1>1, <1>5 DEF Inv

LEMMA StepInv == Inv /\ [Next]_vars => Inv'
PROOF
  <1> SUFFICES ASSUME Inv, [Next]_vars PROVE Inv'
    OBVIOUS
  <1> IInv
    BY DEF Inv
  <1>1. CASE \E s \in Samples : Submit(s)
    BY <1>1, SubmitKeeps, WorkerKeys DEF Inv
  <1>2. CASE \E s \in Samples : Collect(s) \/ Raise(s)
    BY <1>2, ReturnKeeps, WorkerKeys DEF Inv
  <1>3. CASE \E l \in Loops : Yield(l)
    BY <1>3, YieldKeeps, WorkerKeys DEF Inv
  <1>4. CASE \E l \in Loops, v \in Servers : Bounce(l, v)
    BY <1>4, BounceKeeps, WorkerKeys DEF Inv
  <1>5. CASE \E l \in Loops, v \in Servers : Open(l, v)
    BY <1>5, OpenKeeps, OpenKeys DEF Inv
  <1>6. CASE \E l \in Loops : Wake(l) \/ Fail(l)
    BY <1>6, WakeKeeps, FailKeeps, EndedKeys DEF Inv
  <1>7. CASE AllDrained \/ SyncWeights \/ UpdateVersion
    BY <1>7, DrainedKeeps, SyncKeeps, UpdateKeeps, PauseKeys DEF Inv
  <1>8. CASE \/ PauseBegin \/ AllCancelled \/ AllResumed
             \/ \E v \in Servers : Cancel(v) \/ Resume(v)
    BY <1>8, PauseKeeps, PauseKeys DEF Inv
  <1>9. CASE UNCHANGED vars
    BY <1>9, PauseKeeps, WorkerKeys DEF Inv
  <1> QED
    BY <1>1, <1>2, <1>3, <1>4, <1>5, <1>6, <1>7, <1>8, <1>9 DEF Next

LEMMA Invariance == Spec => []Inv
  BY InitKeys, StepInv, PTL DEF Spec

\* However often a loop is interrupted, its response is what one generation would have
\* been: in order, ended once, and written by weights at most one version past those
\* reported with it, also when samples are submitted during a synchronization
\* (partial_single_turn_agent_loop.py 46-115, vllm_async_server.py 97-118).
THEOREM ResponsesWhole == Spec => []ResponseWhole
PROOF
  <1>1. Inv => ResponseWhole
    <2> SUFFICES ASSUME Inv PROVE ResponseWhole
      OBVIOUS
    <2> DEFINE r(l) == answer[l].response
    <2>1. TypeOK
      BY DEF Inv, IInv
    <2>2. ASSUME NEW l \in Loops
          PROVE  /\ AnswerOf(l) /\ SpanOf(l) /\ CompleteOf(l) /\ r(l) \in Seq(Token)
                 /\ answer[l].start \in Nat /\ answer[l].end \in Nat
      BY DEF Inv, IInv, LoopInv, TypeOK
    <2>3. Contiguous
      BY <2>2 DEF Contiguous, AnswerOf
    <2>4. EndsOnce
      BY <2>2 DEF EndsOnce, AnswerOf, Ended, CompleteOf
    <2>5. SpanCoversTokens
      <3> SUFFICES ASSUME NEW l \in Loops, sample[l[1]] \in {"ready", "complete"},
                          NEW i \in DOMAIN r(l)
                   PROVE  r(l)[i].ver \in answer[l].start..answer[l].end + 1
        BY DEF SpanCoversTokens
      <3>1. r(l)[i] \in Token
        BY <2>2
      <3>2. r(l)[i].ver \in Nat
        BY <3>1 DEF Token
      <3>3. answer[l].start <= r(l)[i].ver /\ r(l)[i].ver <= answer[l].end + 1
        BY <2>2 DEF SpanOf
      <3> QED
        BY <2>2, <3>2, <3>3
    <2> QED
      BY <2>1, <2>3, <2>4, <2>5 DEF ResponseWhole
  <1> QED
    BY <1>1, Invariance, PTL

\* No request a sample waits for is generated under two versions of the weights
\* (fully_async_rollouter.py 670-683, agent_loop.py 314-317).
THEOREM OneVersion == Spec => []OneVersionPerRequest
PROOF
  <1>1. Inv => OneVersionPerRequest
    BY DEF Inv, IInv, LoopInv, OneVersionOf, OneVersionPerRequest
  <1> QED
    BY <1>1, Invariance, PTL

\* Each pause leaves at most one key per loop behind in a server's tables, each
\* generation that raises one more (vllm_async_server.py 105-107).
THEOREM LeakBounded == Spec => []LeakPerPause
PROOF
  <1>1. Inv => LeakPerPause
    <2> SUFFICES ASSUME Inv, NEW v \in Servers
                 PROVE  /\ entries[v] >= Cardinality(OpenAt(v))
                        /\ entries[v] <= Cardinality(OpenAt(v)) + pauses * Cardinality(Loops)
                                         + failures
      BY DEF LeakPerPause, OpenAt
    <2>1. /\ entries[v] \in Nat /\ failures \in Nat /\ Cardinality(OpenAt(v)) \in Nat
          /\ pauses * Cardinality(Loops) \in Nat /\ Cardinality(MayLeak) \in Nat /\ KeysOf(v)
      BY KeysTypes, FiniteLoops DEF Inv
    <2> QED
      BY <2>1 DEF KeysOf
  <1> QED
    BY <1>1, Invariance, PTL

-----------------------------------------------------------------------------
(* The refinement of GenerationService                                     *)

VersionsOf(r) == [i \in DOMAIN r |-> r[i].ver]

LEMMA SubmitServes ==
  ASSUME Inv, NEW s \in Samples, Submit(s)
  PROVE  Service!Serve(s)
PROOF
  <1>1. /\ sample[s] = "ready" /\ sample' = [sample EXCEPT ![s] = "busy"] /\ version' = version
        /\ sample \in [Samples -> {"ready", "busy", "complete", "failed"}]
        /\ answer \in [Loops -> AnswerType]
    BY DEF Submit, pauseVars, Inv, IInv, TypeOK, AnswerType
  <1>2. ASSUME NEW l \in Loops
        PROVE  answer'[l].response = answer[l].response /\ answer'[l].isCancel = answer[l].isCancel
    <2>1. answer'[l] = answer[l] \/ answer'[l] = Span(l)
      BY DEF Submit
    <2>2. Span(l).response = answer[l].response /\ Span(l).isCancel = answer[l].isCancel
      BY <1>1 DEF Span, AnswerType
    <2> QED
      BY <2>1, <2>2
  <1>3. ServiceStatus[s] = "waiting" /\ ServiceStatus' = [ServiceStatus EXCEPT ![s] = "served"]
    BY <1>1 DEF ServiceStatus
  <1>4. \A l \in Loops : sample'[l[1]] = "failed" <=> sample[l[1]] = "failed"
    BY <1>1, LoopParts
  <1>5. KeptVersions' = KeptVersions
    BY <1>2, <1>4 DEF KeptVersions, Lost
  <1>6. Finished' = Finished
    BY <1>2, <1>4 DEF Finished, Lost
  <1>7. Written' = Written
    <2>1. s \notin Written
      BY <1>1 DEF Written
    <2>2. s \notin Written'
      <3>1. \A l \in GroupOf(s) : l \in Loops /\ loop[l] = "idle"
        BY <1>1, LoopParts DEF Inv, IInv, LoopInv, RequestOf, GroupOf, Loops
      <3>2. \A l \in GroupOf(s) : loop'[l] \in {"idle", "sent"}
        BY <3>1 DEF Submit
      <3> QED
        BY <3>2 DEF Written
    <2>3. ASSUME NEW t \in Samples, t # s
          PROVE  t \in Written' <=> t \in Written
      <3>1. sample'[t] = sample[t]
        BY <1>1, <2>3
      <3>2. ASSUME NEW l \in GroupOf(t)
            PROVE  loop'[l] = loop[l] /\ given'[l] = given[l] /\ answer'[l].response = answer[l].response
        <4>1. l \in Loops /\ l \notin GroupOf(s)
          BY <2>3 DEF Loops, GroupOf
        <4> QED
          BY <1>2, <4>1 DEF Submit
      <3> QED
        BY <3>1, <3>2 DEF Written
    <2> QED
      BY <2>1, <2>2, <2>3 DEF Written
  <1> QED
    BY <1>1, <1>3, <1>5, <1>6, <1>7 DEF Service!Serve

LEMMA CollectReturns ==
  ASSUME Inv, NEW s \in Samples, Collect(s)
  PROVE  Service!Return(s)
PROOF
  <1>1. /\ sample[s] = "busy" /\ version' = version /\ answer' = answer
        /\ sample' = [sample EXCEPT ![s] = IF GroupCancelled(s) THEN "ready" ELSE "complete"]
        /\ sample \in [Samples -> {"ready", "busy", "complete", "failed"}]
    BY DEF Collect, pauseVars, Inv, IInv, TypeOK
  <1>2. GroupCancelled(s) <=> ~(GroupOf(s) \subseteq Finished)
    BY <1>1, LoopParts DEF GroupCancelled, Finished, Lost, GroupOf, Loops
  <1>3. ServiceStatus[s] = "served"
    BY <1>1 DEF ServiceStatus
  <1>4. ServiceStatus' = [ServiceStatus EXCEPT ![s] = IF GroupOf(s) \subseteq Finished
                                                      THEN "complete" ELSE "waiting"]
    BY <1>1, <1>2 DEF ServiceStatus
  <1>5. \A l \in Loops : sample'[l[1]] = "failed" <=> sample[l[1]] = "failed"
    BY <1>1, LoopParts
  <1>6. KeptVersions' = KeptVersions /\ Finished' = Finished
    BY <1>1, <1>5 DEF KeptVersions, Finished, Lost
  <1>7. Written' = Written \ {s}
    <2>1. sample'[s] # "busy" /\ \A t \in Samples \ {s} : sample'[t] = sample[t]
      BY <1>1
    <2>2. \A t \in Samples \ {s} : \A l \in GroupOf(t) : loop'[l] = loop[l]
      BY DEF Collect, GroupOf, Loops
    <2>3. given' = given
      BY DEF Collect
    <2> QED
      BY <1>1, <2>1, <2>2, <2>3 DEF Written
  <1> QED
    BY <1>1, <1>3, <1>4, <1>6, <1>7 DEF Service!Return, Service!GroupOf, GroupOf

LEMMA RaiseAbandons ==
  ASSUME Inv, NEW s \in Samples, Raise(s)
  PROVE  Service!Abandon(s)
PROOF
  <1>1. /\ sample[s] = "busy" /\ version' = version /\ answer' = answer
        /\ sample' = [sample EXCEPT ![s] = "failed"]
        /\ sample \in [Samples -> {"ready", "busy", "complete", "failed"}]
    BY DEF Raise, pauseVars, Inv, IInv, TypeOK
  <1>2. ServiceStatus[s] = "served" /\ ServiceStatus' = [ServiceStatus EXCEPT ![s] = "failed"]
    BY <1>1 DEF ServiceStatus
  <1>3. \A l \in Loops : sample'[l[1]] = IF l[1] = s THEN "failed" ELSE sample[l[1]]
    BY <1>1, LoopParts
  <1>4. KeptVersions' = [l \in Loops |-> IF l[1] = s THEN << >> ELSE KeptVersions[l]]
    BY <1>1, <1>3 DEF KeptVersions, Lost
  <1>5. Finished' = Finished \ GroupOf(s)
    BY <1>1, <1>3, LoopParts DEF Finished, Lost
  <1>6. Written' = Written \ {s}
    <2>1. sample'[s] # "busy" /\ \A t \in Samples \ {s} : sample'[t] = sample[t]
      BY <1>1
    <2>2. loop' = loop /\ given' = given
      BY DEF Raise, requestVars
    <2> QED
      BY <1>1, <2>1, <2>2 DEF Written
  <1> QED
    BY <1>1, <1>2, <1>4, <1>5, <1>6 DEF Service!Abandon, Service!GroupOf, Service!Loops, GroupOf, Loops

\* A sequence followed by a run of one value.
LEMMA RunAppended ==
  ASSUME NEW q \in Seq(Nat), NEW v \in Nat, NEW n \in Nat
  PROVE  q \o [i \in 1..n |-> v] =
           [i \in 1..Len(q) + n |-> IF i <= Len(q) THEN q[i] ELSE v]
PROOF
  <1> DEFINE run == [i \in 1..n |-> v]
             both == q \o run
  <1>1. run \in Seq(Nat) /\ Len(run) = n /\ \A i \in 1..n : run[i] = v
    OBVIOUS
  <1> HIDE DEF run
  <1>2. /\ both \in Seq(Nat) /\ Len(both) = Len(q) + n
        /\ \A i \in 1..Len(q) + n : both[i] = IF i <= Len(q) THEN q[i] ELSE run[i - Len(q)]
    BY <1>1
  <1>3. \A i \in 1..Len(q) + n : ~(i <= Len(q)) => i - Len(q) \in 1..n
    OBVIOUS
  <1>4. \A i \in 1..Len(q) + n : both[i] = IF i <= Len(q) THEN q[i] ELSE v
    BY <1>1, <1>2, <1>3
  <1> HIDE DEF both
  <1>5. both = [i \in 1..Len(q) + n |-> both[i]]
    BY <1>2
  <1>6. both = [i \in 1..Len(q) + n |-> IF i <= Len(q) THEN q[i] ELSE v]
    BY <1>4, <1>5
  <1> QED
    BY <1>6 DEF both, run

\* A request's answer extends the response of a sample that is served, by tokens of the
\* version of this call, and means nothing to one that is lost.
LEMMA AnswerExtends ==
  ASSUME Inv, NEW l \in Loops, loop[l] \in {"sent", "open"},
         NEW tokens \in Seq(Token), NEW c \in BOOLEAN, Ends(l, tokens, c),
         UNCHANGED <<sample, given, version>>,
         sample[l[1]] = "busy" => \A i \in DOMAIN tokens : tokens[i].ver = version
  PROVE  Service!Extend(l) \/ UNCHANGED Service!serviceVars
PROOF
  <1> DEFINE old == answer[l].response
             new == Joined(l, tokens, c).response
             n == Len(new) - Len(old)
  <1>1. /\ TypeOK /\ answer \in [Loops -> AnswerType] /\ ResponseLength \in Nat
        /\ sample \in [Samples -> {"ready", "busy", "complete", "failed"}]
    BY ServiceAssumption DEF Inv, IInv, TypeOK, AnswerType
  <1>2. answer' = [answer EXCEPT ![l] = Joined(l, tokens, c)]
    BY DEF Ends
  <1>3. /\ Joined(l, tokens, c) \in AnswerType /\ Len(old) <= Len(new)
        /\ Len(new) = IF Len(old) + Len(tokens) <= ResponseLength THEN Len(old) + Len(tokens)
                      ELSE ResponseLength
        /\ \A i \in 1..Len(new) : new[i] = IF i <= Len(old) THEN old[i] ELSE tokens[i - Len(old)]
    BY <1>1, JoinedAnswer
  <1>4. old \in Seq(Token) /\ new \in Seq(Token) /\ Joined(l, tokens, c).isCancel \in BOOLEAN
    BY <1>1, <1>3 DEF AnswerType
  <1>5. /\ Len(old) \in Nat /\ Len(new) \in Nat /\ Len(tokens) \in Nat
        /\ DOMAIN old = 1..Len(old) /\ DOMAIN new = 1..Len(new) /\ DOMAIN tokens = 1..Len(tokens)
    BY <1>4
  <1>6. /\ sample[l[1]] \in {"busy", "failed"} /\ answer[l].isCancel /\ l[1] \in Samples
    BY LoopParts DEF Inv, IInv, LoopInv, RequestOf
  <1>7. answer'[l] = Joined(l, tokens, c) /\ \A k \in Loops \ {l} : answer'[k] = answer[k]
    BY <1>1, <1>2
  <1>8. ServiceStatus' = ServiceStatus
    BY DEF ServiceStatus
  <1>11. /\ given[l] = Len(old) /\ loop[l] # "ended" /\ loop'[l] = "ended"
         /\ \A k \in Loops \ {l} : loop'[k] = loop[k]
    BY DEF Ends, Inv, IInv, TypeOK, LoopInv, RequestOf
  <1>12. Written' = IF sample[l[1]] = "busy" /\ Len(new) > Len(old) THEN Written \cup {l[1]}
                    ELSE Written
    <2>1. ASSUME NEW s \in Samples, s # l[1]
          PROVE  s \in Written' <=> s \in Written
      <3>1. \A k \in GroupOf(s) : k \in Loops \ {l}
        BY <2>1 DEF GroupOf, Loops
      <3> QED
        BY <1>7, <1>11, <3>1 DEF Written
    <2>2. l[1] \in Written' <=>
            l[1] \in Written \/ (sample[l[1]] = "busy" /\ Len(new) > Len(old))
      <3>1. \A k \in GroupOf(l[1]) : k \in Loops
        BY <1>6 DEF GroupOf, Loops
      <3>2. l \in GroupOf(l[1])
        BY <1>6, LoopParts
      <3>3. ASSUME NEW k \in GroupOf(l[1])
            PROVE  (loop'[k] = "ended" /\ Len(answer'[k].response) > given'[k]) <=>
                     \/ loop[k] = "ended" /\ Len(answer[k].response) > given[k]
                     \/ k = l /\ Len(new) > Len(old)
        <4>1. CASE k = l
          BY <1>7, <1>11, <4>1
        <4>2. CASE k # l
          BY <1>7, <1>11, <3>1, <4>2
        <4> QED
          BY <4>1, <4>2
      <3> HIDE DEF new, old
      <3> QED
        BY <1>6, <3>2, <3>3 DEF Written
    <2> HIDE DEF new, old
    <2> QED
      BY <1>6, <2>1, <2>2 DEF Written
  <1>9. CASE sample[l[1]] = "failed"
    <2>1. KeptVersions' = KeptVersions
      BY <1>7, <1>9 DEF KeptVersions, Lost
    <2>2. Finished' = Finished
      BY <1>7, <1>9 DEF Finished, Lost
    <2>3. Written' = Written
      BY <1>9, <1>12
    <2> QED
      BY <1>8, <2>1, <2>2, <2>3 DEF Service!serviceVars
  <1>10. CASE sample[l[1]] = "busy"
    <2>1. l \notin Finished /\ ServiceStatus[l[1]] = "served"
      BY <1>6, <1>10 DEF Finished, ServiceStatus
    <2>2. KeptVersions[l] = VersionsOf(old) /\ KeptVersions'[l] = VersionsOf(new)
      BY <1>7, <1>10 DEF KeptVersions, Lost, VersionsOf
    <2>3. VersionsOf(old) \in Seq(Nat) /\ Len(VersionsOf(old)) = Len(old)
      <3>1. \A i \in 1..Len(old) : old[i] \in Token
        BY <1>4
      <3>2. \A i \in 1..Len(old) : old[i].ver \in Nat
        BY <3>1 DEF Token
      <3>3. VersionsOf(old) = [i \in 1..Len(old) |-> old[i].ver]
        BY <1>5 DEF VersionsOf
      <3> QED
        BY <1>5, <3>2, <3>3
    <2>4. n \in 0..ResponseLength - Len(KeptVersions[l])
      BY <1>1, <1>3, <1>5, <2>2, <2>3
    <2>5. n \in Nat /\ Len(new) = Len(old) + n /\ version \in Nat
      BY <1>1, <1>3, <1>5 DEF TypeOK
    <2>6. VersionsOf(new) = VersionsOf(old) \o [i \in 1..n |-> version]
      <3>1. ASSUME NEW i \in 1..Len(new)
            PROVE  new[i].ver = IF i <= Len(old) THEN VersionsOf(old)[i] ELSE version
        <4>1. CASE i <= Len(old)
          <5>1. i \in 1..Len(old) /\ new[i] = old[i]
            BY <1>3, <1>5, <4>1
          <5> QED
            BY <1>5, <4>1, <5>1 DEF VersionsOf
        <4>2. CASE i > Len(old)
          <5>1. i - Len(old) \in 1..Len(tokens)
            BY <1>1, <1>3, <1>5, <4>2
          <5>2. new[i] = tokens[i - Len(old)] /\ ~(i <= Len(old))
            BY <1>3, <1>5, <4>2
          <5>3. tokens[i - Len(old)].ver = version
            BY <1>5, <1>10, <5>1
          <5> QED
            BY <5>2, <5>3
        <4> QED
          BY <1>5, <4>1, <4>2
      <3>2. VersionsOf(new) = [i \in 1..Len(VersionsOf(old)) + n |->
                                 IF i <= Len(VersionsOf(old)) THEN VersionsOf(old)[i] ELSE version]
        BY <1>5, <2>3, <2>5, <3>1 DEF VersionsOf
      <3> HIDE DEF n, old, new
      <3> QED
        BY <2>3, <2>5, <3>2, RunAppended
    <2>7. KeptVersions' = [KeptVersions EXCEPT ![l] = KeptVersions[l] \o [i \in 1..n |-> version]]
      <3>1. \A k \in Loops \ {l} : KeptVersions'[k] = KeptVersions[k]
        BY <1>7 DEF KeptVersions, Lost
      <3>2. KeptVersions'[l] = KeptVersions[l] \o [i \in 1..n |-> version]
        BY <2>2, <2>6
      <3> QED
        BY <3>1, <3>2 DEF KeptVersions
    <2>8. Finished' \in {Finished, Finished \cup {l}}
      <3>1. \A k \in Loops \ {l} : k \in Finished' <=> k \in Finished
        BY <1>7 DEF Finished, Lost
      <3> QED
        BY <2>1, <3>1 DEF Finished
    <2>10. Written' = IF n > 0 THEN Written \cup {l[1]} ELSE Written
      <3>1. Len(new) > Len(old) <=> n > 0
        <4>1. Len(new) \in Nat /\ Len(old) \in Nat /\ n = Len(new) - Len(old)
          BY <1>5
        <4> HIDE DEF n, new, old
        <4> QED
          BY <4>1
      <3> HIDE DEF n, new, old
      <3> QED
        BY <1>10, <1>12, <3>1
    <2> HIDE DEF n
    <2>9. Service!Extend(l)
      BY <1>8, <2>1, <2>4, <2>7, <2>8, <2>10 DEF Service!Extend
    <2> QED
      BY <2>9
  <1> QED
    BY <1>6, <1>9, <1>10

LEMMA SyncRenews ==
  ASSUME Inv, SyncWeights
  PROVE  Service!NewWeights
PROOF
  <1>1. /\ version' = version + 1 /\ phase = "transfer"
        /\ sample' = sample /\ answer' = answer /\ loop' = loop /\ given' = given
    BY DEF SyncWeights, callVars, requestVars
  <1>2. Written = {}
    <2> SUFFICES ASSUME NEW s \in Samples, sample[s] = "busy", NEW l \in GroupOf(s),
                        loop[l] = "ended"
                 PROVE  ~(Len(answer[l].response) > given[l])
      BY DEF Written
    <2>1. l \in Loops /\ l[1] = s
      BY DEF GroupOf, Loops
    <2>2. Len(answer[l].response) = given[l] /\ given[l] \in Nat
      BY <1>1, <2>1 DEF Inv, IInv, TypeOK, LoopInv, Unserved
    <2> QED
      BY <2>2
  <1>3. /\ ServiceStatus' = ServiceStatus /\ KeptVersions' = KeptVersions /\ Finished' = Finished
        /\ Written' = Written
    BY <1>1 DEF ServiceStatus, KeptVersions, Finished, Lost, Written
  <1> QED
    BY <1>1, <1>2, <1>3 DEF Service!NewWeights

\* Every step of the workers, the servers and the pause is a step of the service or
\* invisible to it.
LEMMA StepImplements ==
  Inv /\ [Next]_vars => [Service!ServiceNext]_(Service!serviceVars)
PROOF
  <1> SUFFICES ASSUME Inv, [Next]_vars
               PROVE  Service!ServiceNext \/ UNCHANGED Service!serviceVars
    OBVIOUS
  <1> DEFINE Hidden == /\ sample' = sample /\ answer' = answer /\ version' = version
                       /\ given' = given
                       /\ \A l \in Loops : loop'[l] = "ended" <=> loop[l] = "ended"
  <1>1. Hidden => UNCHANGED Service!serviceVars
    <2> SUFFICES ASSUME Hidden PROVE UNCHANGED Service!serviceVars
      OBVIOUS
    <2>1. \A s \in Samples : \A l \in GroupOf(s) : l \in Loops
      BY DEF GroupOf, Loops
    <2>2. Written' = Written
      BY <2>1 DEF Written
    <2> QED
      BY <2>2 DEF Service!serviceVars, ServiceStatus, KeptVersions, Finished, Lost
  <1>2. ASSUME NEW s \in Samples, Submit(s) \/ Collect(s) \/ Raise(s)
        PROVE  Service!ServiceNext \/ UNCHANGED Service!serviceVars
    <2>1. Service!Serve(s) \/ Service!Return(s) \/ Service!Abandon(s)
      BY <1>2, SubmitServes, CollectReturns, RaiseAbandons
    <2> QED
      BY <2>1 DEF Service!ServiceNext
  <1>3. ASSUME NEW l \in Loops, NEW v \in Servers, Bounce(l, v)
        PROVE  Service!ServiceNext \/ UNCHANGED Service!serviceVars
    <2> DEFINE none == << >>
    <2>1. loop[l] \in {"sent", "open"} /\ Ends(l, none, TRUE)
          /\ UNCHANGED <<sample, given, version>>
      BY <1>3 DEF Bounce, pauseVars
    <2>2. none \in Seq(Token) /\ DOMAIN none = {}
      OBVIOUS
    <2> HIDE DEF none
    <2>3. \A i \in DOMAIN none : none[i].ver = version
      BY <2>2
    <2>4. Service!Extend(l) \/ UNCHANGED Service!serviceVars
      BY <2>1, <2>2, <2>3, AnswerExtends
    <2> QED
      BY <2>4 DEF Service!ServiceNext, Service!Loops, Loops
  <1>4. ASSUME NEW l \in Loops, Wake(l)
        PROVE  Service!ServiceNext \/ UNCHANGED Service!serviceVars
    <2>1. /\ loop[l] = "open" /\ Ends(l, output[l], Interrupted(l))
          /\ UNCHANGED <<sample, given, version>>
          /\ output[l] \in Seq(Token) /\ Interrupted(l) \in BOOLEAN
      BY <1>4 DEF Wake, pauseVars, Inv, IInv, TypeOK, Interrupted
    <2>2. sample[l[1]] = "busy" => \A i \in DOMAIN output[l] : output[l][i].ver = version
      BY <2>1 DEF Inv, IInv, LoopInv, OneVersionOf
    <2>3. Service!Extend(l) \/ UNCHANGED Service!serviceVars
      BY <2>1, <2>2, AnswerExtends
    <2> QED
      BY <2>3 DEF Service!ServiceNext, Service!Loops, Loops
  <1>5. ASSUME NEW l \in Loops, Yield(l) \/ Fail(l) \/ \E v \in Servers : Open(l, v)
        PROVE  Hidden
    BY <1>5 DEF Yield, Fail, Open, Running, callVars, pauseVars, Inv, IInv, TypeOK
  <1>6. PauseBegin \/ AllCancelled \/ AllDrained \/ UpdateVersion \/ AllResumed \/ UNCHANGED vars
          => Hidden
    BY DEF PauseBegin, AllCancelled, AllDrained, UpdateVersion, AllResumed, callVars, requestVars,
           vars, pauseVars
  <1>7. ASSUME NEW v \in Servers, Cancel(v) \/ Resume(v)
        PROVE  Hidden
    BY <1>7 DEF Cancel, Resume, callVars, requestVars
  <1>8. CASE SyncWeights
    BY <1>8, SyncRenews DEF Service!ServiceNext
  <1> HIDE DEF Hidden
  <1> QED
    BY <1>1, <1>2, <1>3, <1>4, <1>5, <1>6, <1>7, <1>8 DEF Next

LEMMA InitImplements == Init => Service!ServiceInit
PROOF
  <1> SUFFICES ASSUME Init
               PROVE  Service!ServiceInit
    OBVIOUS
  <1>1. /\ sample = [s \in Samples |-> "ready"] /\ version = 0
        /\ answer = [l \in Loops |-> NewAnswer]
    BY DEF Init
  <1>2. \A l \in Loops : sample[l[1]] = "ready" /\ answer[l] = NewAnswer
    BY <1>1, LoopParts
  <1>3. ServiceStatus = [s \in Samples |-> "waiting"]
    BY <1>1 DEF ServiceStatus
  <1>4. KeptVersions = [l \in Loops |-> << >>]
    BY <1>2 DEF KeptVersions, Lost, NewAnswer
  <1>5. Finished = {} /\ Written = {}
    BY <1>1, <1>2 DEF Finished, NewAnswer, Written
  <1> QED
    BY <1>1, <1>3, <1>4, <1>5 DEF Service!ServiceInit, Service!Loops, Loops

\* The workers and the servers implement the generation service the rollouter relies
\* on: a call extends the unfinished responses of its sample by tokens of one version,
\* though samples may be submitted while the weights change (agent_loop.py 130-199).
THEOREM ServiceImplemented == Spec => ImplementsService
PROOF
  <1>1. Init => Service!ServiceInit
    BY InitImplements
  <1>2. Inv /\ [Next]_vars => [Service!ServiceNext]_(Service!serviceVars)
    BY StepImplements
  <1>3. Spec => []Inv
    BY Invariance
  <1> QED
    BY <1>1, <1>2, <1>3, PTL DEF Spec, ImplementsService, Service!ServiceSpec
=============================================================================
