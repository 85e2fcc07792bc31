----------------------- MODULE ToolAgentLoop_proofs ------------------------
(***************************************************************************)
(* For every length of prompt, answer and model, every limit on the turns  *)
(* and calls, and every order in which the calls of an answer end: the     *)
(* parts of a trajectory tell the same story (TranscriptConsistent), no    *)
(* tool instance is left behind, and an answer after tool messages has     *)
(* room for a token.                                                       *)
(*                                                                         *)
(* The messages of a turn are a fold (FlattenSeq), so what they hold is    *)
(* proved by an induction over the calls, on the set of the calls up to    *)
(* which it holds (CountUp, MessagesLaid).  Answers and messages then are  *)
(* blocks of one mark each: BlockGrows says once what a block does to      *)
(* tokens, mask and turns, and each step cites it.                         *)
(***************************************************************************)
EXTENDS ToolAgentLoop, FiniteSetTheorems, WellFoundedInduction, TLAPS

\* The smaller of two lengths.
LEMMA MinPair ==
  ASSUME NEW a \in Int, NEW b \in Int
  PROVE  /\ Min({a, b}) \in {a, b} /\ Min({a, b}) <= a /\ Min({a, b}) <= b
         /\ Min({a, b}) \in Int
PROOF
  <1>1. \E x \in {a, b} : \A y \in {a, b} : x <= y
    OBVIOUS
  <1>2. Min({a, b}) \in {a, b} /\ \A y \in {a, b} : Min({a, b}) <= y
    BY <1>1 DEF Min
  <1> QED
    BY <1>2

\* Counting up: a set of numbers closed under successor has them all.
LEMMA CountUp ==
  ASSUME NEW k \in Nat, NEW S \in SUBSET Nat, k \in S, \A m \in S : m + 1 \in S
  PROVE  \A m \in Nat : m >= k => m \in S
PROOF
  <1> DEFINE R == {m \in Nat : m >= k /\ m \notin S}
  <1> SUFFICES ASSUME R # {} PROVE FALSE
    OBVIOUS
  <1>1. PICK m \in R : \A j \in R : ~(<<j, m>> \in OpToRel(<, Nat))
    BY NatLessThanWellFounded, WFMin
  <1>2. \A j \in R : ~(j < m)
    BY <1>1 DEF OpToRel
  <1>3. m \in Nat /\ m > k
    OBVIOUS
  <1>4. m - 1 \in Nat /\ m - 1 >= k /\ m - 1 < m
    BY <1>3
  <1>5. m - 1 \in S
    BY <1>2, <1>4
  <1> QED
    BY <1>3, <1>5

\* The concatenation of a sequence of sequences, up to its m-th.
LEMMA FlattenSteps ==
  ASSUME NEW s, NEW K \in Nat, K > 0, DOMAIN s = 1..K, Len(s) = K
  PROVE  \E f : /\ FlattenSeq(s) = f[K] /\ f[1] = s[1]
                /\ \A i \in 1..K : i > 1 => f[i] = f[i - 1] \o s[i]
PROOF
  <1> DEFINE Partial(f, m) == f = [i \in 1..m |-> IF i = 1 THEN s[1] ELSE f[i - 1] \o s[i]]
             S == {m \in Nat : \E f : Partial(f, m)}
  <1>1. 0 \in S
    <2>1. Partial(<< >>, 0)
      OBVIOUS
    <2> QED
      BY <2>1
  <1>2. ASSUME NEW m \in S PROVE m + 1 \in S
    <2>0. m \in Nat
      BY <1>2
    <2>1. PICK f : Partial(f, m)
      BY <1>2
    <2> DEFINE g == [i \in 1..m + 1 |-> IF i = 1 THEN s[1] ELSE f[i - 1] \o s[i]]
    <2>2. \A i \in 1..m + 1 : i # 1 => i - 1 \in 1..m
      BY <2>0
    <2>3. \A i \in 1..m : i \in 1..m + 1
      BY <2>0
    <2>4. \A i \in 1..m : f[i] = IF i = 1 THEN s[1] ELSE f[i - 1] \o s[i]
      BY <2>1
    <2>5. \A i \in 1..m : g[i] = f[i]
      BY <2>3, <2>4
    <2>6. \A i \in 1..m + 1 : (IF i = 1 THEN s[1] ELSE f[i - 1] \o s[i])
                                 = (IF i = 1 THEN s[1] ELSE g[i - 1] \o s[i])
      BY <2>2, <2>5
    <2>7. g = [i \in 1..m + 1 |-> IF i = 1 THEN s[1] ELSE g[i - 1] \o s[i]]
      BY <2>6, Zenon
    <2> HIDE DEF g
    <2>8. Partial(g, m + 1)
      BY <2>7
    <2>9. m + 1 \in Nat
      BY <2>0
    <2> QED
      BY <2>8, <2>9
  <1>3. K \in S
    <2> HIDE DEF S
    <2>1. S \in SUBSET Nat /\ \A m \in S : m + 1 \in S
      BY <1>2 DEF S
    <2> QED
      BY <1>1, <2>1, CountUp
  <1> DEFINE F == CHOOSE f : f = [i \in 1..Len(s) |-> IF i = 1 THEN s[i] ELSE f[i - 1] \o s[i]]
  <1>4. FlattenSeq(s) = F[K]
    BY DEF FlattenSeq
  <1>5. \E f : f = [i \in 1..Len(s) |-> IF i = 1 THEN s[i] ELSE f[i - 1] \o s[i]]
    <2>1. PICK f : Partial(f, K)
      BY <1>3
    <2>2. f = [i \in 1..Len(s) |-> IF i = 1 THEN s[i] ELSE f[i - 1] \o s[i]]
      BY <2>1
    <2> QED
      BY <2>2
  <1>6. F = [i \in 1..Len(s) |-> IF i = 1 THEN s[i] ELSE F[i - 1] \o s[i]]
    BY <1>5
  <1> HIDE DEF F
  <1>7. \A i \in 1..K : F[i] = IF i = 1 THEN s[i] ELSE F[i - 1] \o s[i]
    <2> DEFINE G == [i \in 1..Len(s) |-> IF i = 1 THEN s[i] ELSE F[i - 1] \o s[i]]
    <2>1. \A i \in 1..K : G[i] = IF i = 1 THEN s[i] ELSE F[i - 1] \o s[i]
      OBVIOUS
    <2>2. F = G
      BY <1>6
    <2> HIDE DEF G
    <2> QED
      BY <2>1, <2>2
  <1>8. F[1] = s[1] /\ \A i \in 1..K : i > 1 => F[i] = F[i - 1] \o s[i]
    <2>1. 1 \in 1..K /\ \A i \in 1..K : i > 1 => i # 1
      OBVIOUS
    <2> QED
      BY <1>7, <2>1
  <1> QED
    BY <1>4, <1>8, Zenon

-----------------------------------------------------------------------------
(* The tokens of the tool messages.                                        *)

\* What the folds and counts of the model are about.
Token == [kind : Kinds, call : Nat]
ImagesIn(q) == {i \in 1..Len(q) : q[i].kind = "image"}
CallsWithImage(m) == {i \in 1..m : calls[i].progress = "image"}

LEMMA Counts ==
  /\ \A q \in Seq(Token) : IsFiniteSet(ImagesIn(q)) /\ Cardinality(ImagesIn(q)) \in Nat
  /\ \A m \in Nat : IsFiniteSet(CallsWithImage(m)) /\ Cardinality(CallsWithImage(m)) \in Nat
PROOF
  <1>1. \A k \in Nat : IsFiniteSet(1..k)
    BY FS_Interval
  <1>2. ASSUME NEW q \in Seq(Token)
        PROVE  IsFiniteSet(ImagesIn(q)) /\ Cardinality(ImagesIn(q)) \in Nat
    <2>1. IsFiniteSet(1..Len(q)) /\ ImagesIn(q) \in SUBSET (1..Len(q))
      BY <1>1 DEF ImagesIn
    <2> QED
      BY <2>1, FS_Subset, FS_CardinalityType
  <1>3. ASSUME NEW m \in Nat
        PROVE  IsFiniteSet(CallsWithImage(m)) /\ Cardinality(CallsWithImage(m)) \in Nat
    <2>1. IsFiniteSet(1..m) /\ CallsWithImage(m) \in SUBSET (1..m)
      BY <1>1 DEF CallsWithImage
    <2> QED
      BY <2>1, FS_Subset, FS_CardinalityType
  <1> QED
    BY <1>2, <1>3

\* Two sequences in a row.
LEMMA Concat ==
  ASSUME NEW T, NEW p \in Seq(T), NEW q \in Seq(T)
  PROVE  /\ p \o q \in Seq(T) /\ Len(p \o q) = Len(p) + Len(q)
         /\ \A j \in 1..Len(p) + Len(q) :
              (p \o q)[j] = IF j <= Len(p) THEN p[j] ELSE q[j - Len(p)]
OBVIOUS

\* The message that answers one call.
LEMMA OneMessage ==
  ASSUME NEW i \in Nat, NEW k \in Nat \ {0}
  PROVE  /\ Message(i, k) \in Seq(Token) /\ Len(Message(i, k)) > 0
         /\ \A j \in 1..Len(Message(i, k)) :
              /\ Message(i, k)[j].call = i /\ Message(i, k)[j].kind \in {"tool", "error", "image"}
              /\ Message(i, k)[j].kind = "error" => calls[i].parsed = "bad"
              /\ Message(i, k)[j].kind = "image" <=> j = 1 /\ calls[i].progress = "image"
PROOF
  <1> DEFINE word == IF calls[i].parsed = "bad" THEN "error" ELSE "tool"
             text == Repeated(Tok(word, i), k)
  <1>1. /\ text \in Seq(Token) /\ Len(text) = k
        /\ \A j \in 1..k : text[j] = [kind |-> word, call |-> i]
    <2> DEFINE tok == [kind |-> word, call |-> i]
    <2>1. tok \in Token
      BY DEF Token, Kinds
    <2>2. text = [j \in 1..k |-> tok]
      BY DEF Repeated, Tok
    <2> HIDE DEF tok, text
    <2>3. text \in Seq(Token) /\ Len(text) = k /\ \A j \in 1..k : text[j] = tok
      BY <2>1, <2>2
    <2> QED
      BY <2>3 DEF tok
  <1>2. CASE calls[i].progress = "image"
    <2>1. Message(i, k) = <<[kind |-> "image", call |-> i]>> \o text
      BY <1>2 DEF Message, Tok
    <2> DEFINE first == <<[kind |-> "image", call |-> i]>>
    <2>2. first \in Seq(Token) /\ Len(first) = 1 /\ first[1] = [kind |-> "image", call |-> i]
      BY DEF Token, Kinds
    <2> HIDE DEF first, text
    <2>3. /\ first \o text \in Seq(Token) /\ Len(first \o text) = k + 1
          /\ \A j \in 1..k + 1 :
               (first \o text)[j] = IF j = 1 THEN first[1] ELSE text[j - 1]
      <3>1. /\ Len(first \o text) = 1 + k /\ first \o text \in Seq(Token)
            /\ \A j \in 1..1 + k : (first \o text)[j] = IF j <= 1 THEN first[j] ELSE text[j - 1]
        <4> HIDE DEF word
        <4>0. /\ text \in Seq(Token) /\ Len(text) = k /\ first \in Seq(Token)
              /\ Len(first) = 1
          BY <1>1, <2>2
        <4>1. first \o text \in Seq(Token) /\ Len(first \o text) = Len(first) + Len(text)
          BY <4>0, Concat
        <4>2. \A j \in 1..Len(first) + Len(text) :
                (first \o text)[j] = IF j <= Len(first) THEN first[j] ELSE text[j - Len(first)]
          BY <4>0, Concat
        <4> QED
          BY <4>0, <4>1, <4>2
      <3> QED
        BY <3>1
    <2>4. \A j \in 1..k + 1 : j # 1 => j - 1 \in 1..k
      OBVIOUS
    <2>5. \A j \in 1..k + 1 :
            (first \o text)[j] = [kind |-> IF j = 1 THEN "image" ELSE word, call |-> i]
      BY <1>1, <2>2, <2>3, <2>4
    <2>6. Message(i, k) = first \o text
      BY <2>1 DEF first
    <2> HIDE DEF word
    <2>7. word \in {"tool", "error"} /\ (word = "error" => calls[i].parsed = "bad")
      BY DEF word
    <2> QED
      <3> DEFINE msg == Message(i, k)
      <3>1. /\ msg \in Seq(Token) /\ Len(msg) = k + 1
            /\ \A j \in 1..k + 1 : msg[j] = [kind |-> IF j = 1 THEN "image" ELSE word, call |-> i]
        BY <2>3, <2>5, <2>6
      <3> HIDE DEF msg
      <3>2. \A j \in 1..k + 1 :
              msg[j].call = i /\ msg[j].kind = IF j = 1 THEN "image" ELSE word
        BY <3>1
      <3>3. Len(msg) > 0
        BY <3>1
      <3> QED
        BY <1>2, <2>7, <3>1, <3>2, <3>3 DEF msg
  <1>3. CASE calls[i].progress # "image"
    <2>1. Message(i, k) = << >> \o text
      BY <1>3 DEF Message
    <2> HIDE DEF text
    <2>2. Message(i, k) = text
      BY <1>1, <2>1
    <2> HIDE DEF word
    <2>3. word \in {"tool", "error"} /\ (word = "error" => calls[i].parsed = "bad")
      BY DEF word
    <2> QED
      BY <1>1, <1>3, <2>2, <2>3
  <1> QED
    BY <1>2, <1>3

\* It adds an image to a transcript if the call returned one.
LEMMA MessageImages ==
  ASSUME NEW q \in Seq(Token), NEW i \in Nat, NEW k \in Nat \ {0}
  PROVE  Cardinality(ImagesIn(q \o Message(i, k)))
           = Cardinality(ImagesIn(q)) + (IF calls[i].progress = "image" THEN 1 ELSE 0)
PROOF
  <1> DEFINE msg == Message(i, k)
  <1>1. /\ msg \in Seq(Token) /\ Len(msg) > 0
        /\ \A j \in 1..Len(msg) : msg[j].kind = "image" <=> j = 1 /\ calls[i].progress = "image"
    BY OneMessage
  <1> HIDE DEF msg
  <1>2. /\ Len(q \o msg) = Len(q) + Len(msg) /\ Len(q) \in Nat /\ Len(msg) \in Nat
        /\ \A j \in 1..Len(q) : (q \o msg)[j] = q[j]
        /\ \A j \in 1..Len(msg) : (q \o msg)[Len(q) + j] = msg[j]
    BY <1>1
  <1>3. \A j \in 1..Len(q) + Len(msg) :
          j \in 1..Len(q) \/ (j > Len(q) /\ j - Len(q) \in 1..Len(msg) /\ j = Len(q) + (j - Len(q)))
    BY <1>2
  <1>4. IsFiniteSet(ImagesIn(q)) /\ Cardinality(ImagesIn(q)) \in Nat
    BY Counts
  <1>5. CASE calls[i].progress = "image"
    <2>1. ImagesIn(q \o msg) = ImagesIn(q) \cup {Len(q) + 1}
      <3>1. ASSUME NEW j \in ImagesIn(q \o msg) PROVE j \in ImagesIn(q) \cup {Len(q) + 1}
        <4>1. j \in 1..Len(q) + Len(msg) /\ (q \o msg)[j].kind = "image"
          BY <1>2, <3>1 DEF ImagesIn
        <4>2. CASE j \in 1..Len(q)
          BY <1>2, <4>1, <4>2 DEF ImagesIn
        <4>3. CASE j - Len(q) \in 1..Len(msg) /\ j = Len(q) + (j - Len(q))
          <5>1. msg[j - Len(q)].kind = "image"
            BY <1>2, <4>1, <4>3
          <5>2. j - Len(q) = 1
            BY <1>1, <4>3, <5>1
          <5> QED
            BY <1>2, <4>3, <5>2
        <4> QED
          BY <1>3, <4>1, <4>2, <4>3
      <3>2. ASSUME NEW j \in ImagesIn(q) PROVE j \in ImagesIn(q \o msg)
        BY <1>2, <3>2 DEF ImagesIn
      <3>3. Len(q) + 1 \in ImagesIn(q \o msg)
        <4>1. 1 \in 1..Len(msg) /\ Len(q) + 1 \in 1..Len(q) + Len(msg)
          BY <1>1, <1>2
        <4>2. (q \o msg)[Len(q) + 1].kind = "image"
          BY <1>1, <1>2, <1>5, <4>1
        <4> QED
          BY <1>2, <4>1, <4>2 DEF ImagesIn
      <3> QED
        BY <3>1, <3>2, <3>3
    <2>2. Len(q) + 1 \notin ImagesIn(q)
      BY <1>2 DEF ImagesIn
    <2> QED
      BY <1>4, <1>5, <2>1, <2>2, FS_AddElement DEF msg
  <1>6. CASE calls[i].progress # "image"
    <2>1. ASSUME NEW j \in ImagesIn(q \o msg) PROVE j \in ImagesIn(q)
      <3>1. j \in 1..Len(q) + Len(msg) /\ (q \o msg)[j].kind = "image"
        BY <1>2, <2>1 DEF ImagesIn
      <3>2. CASE j \in 1..Len(q)
        BY <1>2, <3>1, <3>2 DEF ImagesIn
      <3>3. CASE j - Len(q) \in 1..Len(msg) /\ j = Len(q) + (j - Len(q))
        BY <1>1, <1>2, <1>6, <3>1, <3>3
      <3> QED
        BY <1>3, <3>1, <3>2, <3>3
    <2>2. ASSUME NEW j \in ImagesIn(q) PROVE j \in ImagesIn(q \o msg)
      BY <1>2, <2>2 DEF ImagesIn
    <2>3. ImagesIn(q \o msg) = ImagesIn(q)
      BY <2>1, <2>2
    <2> QED
      BY <1>4, <1>6, <2>3 DEF msg
  <1> QED
    BY <1>5, <1>6

\* The messages that answer the first m calls.
Laid(g, m) ==
  /\ g \in Seq(Token) /\ Len(g) > 0 /\ g[1].call = 1 /\ g[Len(g)].call = m
  /\ \A j \in 1..Len(g) : /\ g[j].kind \in {"tool", "error", "image"} /\ g[j].call \in 1..m
                          /\ g[j].kind = "error" => calls[g[j].call].parsed = "bad"
  /\ \A j \in 1..Len(g) - 1 : g[j + 1].call \in {g[j].call, g[j].call + 1}
  /\ \A p \in Seq(Token) :
       Cardinality(ImagesIn(p \o g))
         = Cardinality(ImagesIn(p)) + Cardinality(CallsWithImage(m))

LEMMA OneMore ==
  ASSUME NEW m \in Nat
  PROVE  Cardinality(CallsWithImage(m + 1))
           = Cardinality(CallsWithImage(m)) + (IF calls[m + 1].progress = "image" THEN 1 ELSE 0)
PROOF
  <1>1. IsFiniteSet(CallsWithImage(m)) /\ Cardinality(CallsWithImage(m)) \in Nat
    BY Counts
  <1>2. \A i : i \in 1..m + 1 <=> i \in 1..m \/ i = m + 1
    OBVIOUS
  <1>3. m + 1 \notin CallsWithImage(m)
    BY DEF CallsWithImage
  <1>4. CallsWithImage(m + 1)
          = IF calls[m + 1].progress = "image" THEN CallsWithImage(m) \cup {m + 1}
                                               ELSE CallsWithImage(m)
    BY <1>2 DEF CallsWithImage
  <1>5. CASE calls[m + 1].progress = "image"
    BY <1>1, <1>3, <1>4, <1>5, FS_AddElement
  <1>6. CASE calls[m + 1].progress # "image"
    BY <1>1, <1>4, <1>6
  <1> QED
    BY <1>5, <1>6

LEMMA LaidFirst ==
  ASSUME NEW k \in Nat \ {0}
  PROVE  Laid(Message(1, k), 1)
PROOF
  <1> DEFINE msg == Message(1, k)
  <1>1. /\ msg \in Seq(Token) /\ Len(msg) > 0
        /\ \A j \in 1..Len(msg) :
             /\ msg[j].call = 1 /\ msg[j].kind \in {"tool", "error", "image"}
             /\ msg[j].kind = "error" => calls[1].parsed = "bad"
    <2>1. 1 \in Nat
      OBVIOUS
    <2>2. /\ msg \in Seq(Token) /\ Len(msg) > 0
          /\ \A j \in 1..Len(msg) :
               /\ msg[j].call = 1 /\ msg[j].kind \in {"tool", "error", "image"}
               /\ msg[j].kind = "error" => calls[1].parsed = "bad"
               /\ msg[j].kind = "image" <=> j = 1 /\ calls[1].progress = "image"
      BY <2>1, OneMessage
    <2> HIDE DEF msg
    <2> QED
      BY <2>2
  <1>2. ASSUME NEW p \in Seq(Token)
        PROVE  Cardinality(ImagesIn(p \o msg))
                 = Cardinality(ImagesIn(p)) + Cardinality(CallsWithImage(1))
    <2>1. CallsWithImage(0) = {}
      BY DEF CallsWithImage
    <2>2. Cardinality(CallsWithImage(0)) = 0
      BY <2>1, FS_EmptySet
    <2>3. Cardinality(CallsWithImage(0 + 1))
            = 0 + (IF calls[0 + 1].progress = "image" THEN 1 ELSE 0)
      BY <2>2, OneMore
    <2> QED
      BY <2>3, MessageImages
  <1> HIDE DEF msg
  <1>3. \A j \in 1..Len(msg) - 1 : j \in 1..Len(msg) /\ j + 1 \in 1..Len(msg)
    BY <1>1
  <1>4. 1 \in 1..Len(msg) /\ Len(msg) \in 1..Len(msg)
    BY <1>1
  <1>5. Laid(msg, 1)
    BY <1>1, <1>2, <1>3, <1>4 DEF Laid
  <1> QED
    BY <1>5 DEF msg

LEMMA LaidNext ==
  ASSUME NEW m \in Nat \ {0}, NEW g, Laid(g, m), NEW k \in Nat \ {0}
  PROVE  Laid(g \o Message(m + 1, k), m + 1)
PROOF
  <1> DEFINE msg == Message(m + 1, k)
             h == g \o msg
  <1>1. /\ msg \in Seq(Token) /\ Len(msg) > 0
        /\ \A j \in 1..Len(msg) :
             /\ msg[j].call = m + 1 /\ msg[j].kind \in {"tool", "error", "image"}
             /\ msg[j].kind = "error" => calls[m + 1].parsed = "bad"
    <2>1. m + 1 \in Nat
      OBVIOUS
    <2>2. /\ msg \in Seq(Token) /\ Len(msg) > 0
          /\ \A j \in 1..Len(msg) :
               /\ msg[j].call = m + 1 /\ msg[j].kind \in {"tool", "error", "image"}
               /\ msg[j].kind = "error" => calls[m + 1].parsed = "bad"
               /\ msg[j].kind = "image" <=> j = 1 /\ calls[m + 1].progress = "image"
      BY <2>1, OneMessage
    <2> HIDE DEF msg
    <2> QED
      BY <2>2
  <1>2. /\ g \in Seq(Token) /\ Len(g) > 0 /\ g[1].call = 1 /\ g[Len(g)].call = m
        /\ \A j \in 1..Len(g) : /\ g[j].kind \in {"tool", "error", "image"} /\ g[j].call \in 1..m
                                /\ g[j].kind = "error" => calls[g[j].call].parsed = "bad"
        /\ \A j \in 1..Len(g) - 1 : g[j + 1].call \in {g[j].call, g[j].call + 1}
    BY DEF Laid
  <1>3. ASSUME NEW p \in Seq(Token)
        PROVE  Cardinality(ImagesIn(p \o h))
                 = Cardinality(ImagesIn(p)) + Cardinality(CallsWithImage(m + 1))
    <2>1. Cardinality(ImagesIn(p \o g))
            = Cardinality(ImagesIn(p)) + Cardinality(CallsWithImage(m))
      BY DEF Laid
    <2>2. p \o g \in Seq(Token)
      BY <1>2
    <2>3. Cardinality(ImagesIn((p \o g) \o msg))
            = Cardinality(ImagesIn(p \o g)) + (IF calls[m + 1].progress = "image" THEN 1 ELSE 0)
      <3>1. m + 1 \in Nat
        OBVIOUS
      <3> QED
        BY <2>2, <3>1, MessageImages, Zenon
    <2>4. p \o h = (p \o g) \o msg
      <3> HIDE DEF msg
      <3> QED
        BY <1>1, <1>2
    <2>5. /\ Cardinality(ImagesIn(p)) \in Nat /\ Cardinality(CallsWithImage(m)) \in Nat
          /\ Cardinality(CallsWithImage(m + 1))
               = Cardinality(CallsWithImage(m)) + (IF calls[m + 1].progress = "image" THEN 1 ELSE 0)
      BY Counts, OneMore
    <2> HIDE DEF h, msg
    <2> QED
      BY <2>1, <2>3, <2>4, <2>5
  <1> HIDE DEF msg
  <1>4. /\ h \in Seq(Token) /\ Len(h) = Len(g) + Len(msg) /\ Len(g) \in Nat /\ Len(msg) \in Nat
        /\ \A j \in 1..Len(g) + Len(msg) :
             h[j] = IF j <= Len(g) THEN g[j] ELSE msg[j - Len(g)]
    BY <1>1, <1>2, Concat
  <1> HIDE DEF h
  <1>5. \A j \in 1..Len(g) + Len(msg) :
          j \in 1..Len(g) \/ (~(j <= Len(g)) /\ j - Len(g) \in 1..Len(msg))
    BY <1>4
  <1>6. \A j \in 1..Len(h) : /\ h[j].kind \in {"tool", "error", "image"} /\ h[j].call \in 1..m + 1
                             /\ h[j].kind = "error" => calls[h[j].call].parsed = "bad"
    <2> TAKE j \in 1..Len(h)
    <2>1. CASE j \in 1..Len(g)
      BY <1>2, <1>4, <2>1
    <2>2. CASE ~(j <= Len(g)) /\ j - Len(g) \in 1..Len(msg)
      <3>1. h[j] = msg[j - Len(g)] /\ m + 1 \in 1..m + 1
        BY <1>4, <2>2
      <3>2. /\ h[j].call = m + 1 /\ h[j].kind \in {"tool", "error", "image"}
            /\ h[j].kind = "error" => calls[m + 1].parsed = "bad"
        BY <1>1, <2>2, <3>1
      <3> QED
        BY <3>1, <3>2
    <2> QED
      BY <1>4, <1>5, <2>1, <2>2
  <1>7. \A j \in 1..Len(h) - 1 : h[j + 1].call \in {h[j].call, h[j].call + 1}
    <2> TAKE j \in 1..Len(h) - 1
    <2>1. j \in 1..Len(h) /\ j + 1 \in 1..Len(h)
      BY <1>4
    <2>2. CASE j < Len(g)
      <3>1. j <= Len(g) /\ j + 1 <= Len(g) /\ j \in 1..Len(g) - 1
        BY <1>4, <2>2
      <3>2. h[j] = g[j] /\ h[j + 1] = g[j + 1]
        BY <1>4, <2>1, <3>1
      <3> QED
        BY <1>2, <3>1, <3>2
    <2>3. CASE j = Len(g)
      <3>1. h[j].call = m
        BY <1>2, <1>4, <2>1, <2>3
      <3>2. (j + 1) - Len(g) = 1 /\ 1 \in 1..Len(msg) /\ ~(j + 1 <= Len(g))
        BY <1>1, <1>4, <2>3
      <3>3. h[j + 1].call = m + 1
        BY <1>1, <1>4, <2>1, <3>2
      <3> QED
        BY <3>1, <3>3
    <2>4. CASE j > Len(g)
      <3>1. /\ ~(j <= Len(g)) /\ ~(j + 1 <= Len(g))
            /\ j - Len(g) \in 1..Len(msg) /\ (j + 1) - Len(g) \in 1..Len(msg)
        BY <1>4, <2>1, <2>4
      <3>2. h[j].call = m + 1 /\ h[j + 1].call = m + 1
        BY <1>1, <1>4, <2>1, <3>1
      <3> QED
        BY <3>2
    <2> QED
      BY <1>4, <2>1, <2>2, <2>3, <2>4
  <1>8. Len(h) > 0 /\ h[1].call = 1 /\ h[Len(h)].call = m + 1
    <2>1. Len(h) > 0 /\ 1 \in 1..Len(g) + Len(msg) /\ 1 <= Len(g) /\ Len(h) \in 1..Len(g) + Len(msg)
          /\ ~(Len(h) <= Len(g)) /\ Len(h) - Len(g) \in 1..Len(msg)
      BY <1>1, <1>2, <1>4
    <2> QED
      BY <1>1, <1>2, <1>4, <2>1
  <1>9. Laid(h, m + 1)
    BY <1>3, <1>4, <1>6, <1>7, <1>8 DEF Laid
  <1> QED
    BY <1>9 DEF h, msg

\* The messages of a turn.
LEMMA MessagesLaid ==
  ASSUME NEW n, calls \in Seq([parsed : Parsed, progress : Progress]), calls # << >>,
         n \in [DOMAIN calls -> 1..MaxMessage], MaxMessage \in Nat
  PROVE  Laid(Messages(n), Len(calls))
PROOF
  <1> DEFINE K == Len(calls)
             s == [k \in DOMAIN ResultOrder |-> Message(ResultOrder[k], n[k])]
  <1>1. K \in Nat /\ K > 0 /\ DOMAIN calls = 1..K /\ \A k \in 1..K : n[k] \in Nat \ {0}
    OBVIOUS
  <1>2. s = [k \in 1..K |-> Message(k, n[k])]
    BY <1>1 DEF ResultOrder
  <1>3. Messages(n) = FlattenSeq(s)
    BY DEF Messages
  <1> HIDE DEF s
  <1>4. DOMAIN s = 1..K /\ Len(s) = K /\ \A k \in 1..K : s[k] = Message(k, n[k])
    BY <1>1, <1>2
  <1> HIDE DEF K
  <1>5. PICK f : /\ FlattenSeq(s) = f[K] /\ f[1] = s[1]
                 /\ \A i \in 1..K : i > 1 => f[i] = f[i - 1] \o s[i]
    BY <1>1, <1>4, FlattenSteps
  <1> DEFINE S == {m \in Nat : m \in 1..K => Laid(f[m], m)}
  <1>6. 1 \in S
    <2>1. 1 \in 1..K /\ f[1] = Message(1, n[1]) /\ n[1] \in Nat \ {0}
      BY <1>1, <1>4, <1>5
    <2> QED
      BY <2>1, LaidFirst
  <1>7. ASSUME NEW m \in S PROVE m + 1 \in S
    <2>1. m \in Nat /\ m + 1 \in Nat
      BY <1>7
    <2>2. CASE m \in 1..K /\ m + 1 \in 1..K
      <3>1. f[m + 1] = f[m] \o Message(m + 1, n[m + 1])
        <4>1. m + 1 > 1 /\ (m + 1) - 1 = m
          BY <2>1, <2>2
        <4> QED
          BY <1>4, <1>5, <2>2, <4>1
      <3>2. Laid(f[m], m) /\ m \in Nat \ {0} /\ n[m + 1] \in Nat \ {0}
        BY <1>1, <1>7, <2>2
      <3>3. Laid(f[m + 1], m + 1)
        BY <3>1, <3>2, LaidNext
      <3> QED
        BY <2>1, <3>3
    <2>3. CASE m + 1 \notin 1..K
      BY <2>1, <2>3
    <2>4. CASE m = 0
      BY <1>6, <2>4
    <2> QED
      BY <1>1, <2>1, <2>2, <2>3, <2>4
  <1>8. K \in S
    <2> HIDE DEF S
    <2>1. S \in SUBSET Nat
      BY DEF S
    <2>2. \A m \in Nat : m >= 1 => m \in S
      <3>1. 1 \in Nat /\ \A m \in S : m + 1 \in S
        BY <1>7
      <3> QED
        BY <1>6, <2>1, <3>1, CountUp
    <2> QED
      BY <1>1, <2>2
  <1>9. Laid(f[K], K)
    BY <1>1, <1>8
  <1> QED
    BY <1>3, <1>5, <1>9 DEF K

-----------------------------------------------------------------------------
(* The transcript, as it grows by a block.                                 *)

\* The runs of mark m in a mask, by where they start.
RunsIn(q, m) == {i \in 1..Len(q) : q[i] = m /\ (i = 1 \/ q[i - 1] # m)}

LEMMA RunsCounted ==
  ASSUME NEW q \in Seq({0, 1}), NEW m
  PROVE  IsFiniteSet(RunsIn(q, m)) /\ Cardinality(RunsIn(q, m)) \in Nat
PROOF
  <1>1. IsFiniteSet(1..Len(q)) /\ RunsIn(q, m) \in SUBSET (1..Len(q))
    BY FS_Interval DEF RunsIn
  <1> QED
    BY <1>1, FS_Subset, FS_CardinalityType

\* A mask q, and the mask h that it becomes by a block of the other mark.
Extended(q, v, k, h) ==
  /\ q \in Seq({0, 1}) /\ v \in {0, 1} /\ k \in Nat \ {0}
  /\ q # << >> => q[Len(q)] # v
  /\ h = q \o Repeated(v, k)

\* The block is one run more of its own mark, and none of the other.
LEMMA RunsBlock ==
  ASSUME NEW q, NEW v, NEW k, NEW h, Extended(q, v, k, h)
  PROVE  /\ h \in Seq({0, 1}) /\ Len(h) = Len(q) + k /\ h[Len(h)] = v
         /\ \A j \in 1..Len(q) + k : h[j] = IF j <= Len(q) THEN q[j] ELSE v
         /\ Cardinality(RunsIn(h, v)) = Cardinality(RunsIn(q, v)) + 1
         /\ \A w \in {0, 1} \ {v} : Cardinality(RunsIn(h, w)) = Cardinality(RunsIn(q, w))
PROOF
  <1> DEFINE b == Repeated(v, k)
  <1>0. /\ h = q \o b /\ q \in Seq({0, 1}) /\ v \in {0, 1} /\ k \in Nat \ {0}
        /\ q # << >> => q[Len(q)] # v
    BY DEF Extended
  <1>1. b \in Seq({0, 1}) /\ Len(b) = k /\ \A j \in 1..k : b[j] = v
    BY <1>0 DEF Repeated
  <1> HIDE DEF b
  <1>2. h \in Seq({0, 1}) /\ Len(h) = Len(q) + k /\ Len(q) \in Nat
        /\ \A j \in 1..Len(q) + k : h[j] = IF j <= Len(q) THEN q[j] ELSE b[j - Len(q)]
    <2>1. h \in Seq({0, 1}) /\ Len(h) = Len(q) + Len(b)
          /\ \A j \in 1..Len(q) + Len(b) : h[j] = IF j <= Len(q) THEN q[j] ELSE b[j - Len(q)]
      <3>1. /\ q \o b \in Seq({0, 1}) /\ Len(q \o b) = Len(q) + Len(b)
            /\ \A j \in 1..Len(q) + Len(b) :
                 (q \o b)[j] = IF j <= Len(q) THEN q[j] ELSE b[j - Len(q)]
        BY <1>0, <1>1, Concat
      <3> QED
        BY <1>0, <3>1
    <2> QED
      BY <1>0, <1>1, <2>1
  <1>3. \A j \in 1..Len(q) + k : h[j] = IF j <= Len(q) THEN q[j] ELSE v
    <2> TAKE j \in 1..Len(q) + k
    <2>1. ~(j <= Len(q)) => j - Len(q) \in 1..k
      BY <1>0, <1>2
    <2> QED
      BY <1>0, <1>1, <1>2, <2>1
  <1>4. h[Len(h)] = v
    <2>1. Len(h) \in 1..Len(q) + k /\ ~(Len(h) <= Len(q))
      BY <1>0, <1>2
    <2> QED
      BY <1>0, <1>3, <2>1
  <1>5. ASSUME NEW w \in {0, 1}
        PROVE  RunsIn(h, w) = IF w = v THEN RunsIn(q, w) \cup {Len(q) + 1} ELSE RunsIn(q, w)
    <2>1. ASSUME NEW j \in 1..Len(q)
          PROVE  j \in RunsIn(h, w) <=> j \in RunsIn(q, w)
      <3>1. j \in 1..Len(h) /\ h[j] = q[j]
        BY <1>0, <1>2, <1>3
      <3>2. j # 1 => j - 1 \in 1..Len(q) + k /\ j - 1 <= Len(q)
        BY <1>0, <1>2
      <3>3. j # 1 => h[j - 1] = q[j - 1]
        BY <1>0, <1>3, <3>2
      <3> QED
        BY <1>0, <3>1, <3>3 DEF RunsIn
    <2>2. ASSUME NEW j \in 1..Len(q) + k, j > Len(q)
          PROVE  j \in RunsIn(h, w) <=> w = v /\ j = Len(q) + 1
      <3>1. j \in 1..Len(h) /\ h[j] = v
        BY <1>0, <1>2, <1>3, <2>2
      <3>2. CASE j = Len(q) + 1
        <4>1. CASE Len(q) = 0
          BY <1>0, <1>2, <3>1, <3>2, <4>1 DEF RunsIn
        <4>2. CASE Len(q) # 0
          <5>1. j # 1 /\ j - 1 = Len(q) /\ j - 1 \in 1..Len(q) + k /\ j - 1 <= Len(q)
            BY <1>0, <1>2, <3>2, <4>2
          <5>2. h[j - 1] = q[Len(q)] /\ q[Len(q)] # v
            BY <1>0, <1>3, <4>2, <5>1
          <5> QED
            BY <1>0, <3>1, <3>2, <5>1, <5>2 DEF RunsIn
        <4> QED
          BY <4>1, <4>2
      <3>3. CASE j # Len(q) + 1
        <4>1. j - 1 \in 1..Len(q) + k /\ ~(j - 1 <= Len(q)) /\ j # 1
          BY <1>0, <1>2, <2>2, <3>3
        <4>2. h[j - 1] = v
          BY <1>0, <1>3, <4>1
        <4> QED
          BY <1>0, <3>1, <3>3, <4>1, <4>2 DEF RunsIn
      <3> QED
        BY <3>2, <3>3
    <2>3. /\ RunsIn(h, w) \subseteq 1..Len(q) + k /\ RunsIn(q, w) \subseteq 1..Len(q)
          /\ Len(q) + 1 \in 1..Len(q) + k
          /\ \A j \in 1..Len(q) + k : j \in 1..Len(q) \/ j > Len(q)
          /\ \A j \in 1..Len(q) : j \in 1..Len(q) + k /\ ~(j > Len(q))
          /\ Len(q) + 1 > Len(q)
      BY <1>0, <1>2 DEF RunsIn
    <2> QED
      BY <1>0, <2>1, <2>2, <2>3
  <1>6. Len(q) + 1 \notin RunsIn(q, v)
    BY <1>0, <1>2 DEF RunsIn
  <1>7. Cardinality(RunsIn(h, v)) = Cardinality(RunsIn(q, v)) + 1
    <2>1. IsFiniteSet(RunsIn(q, v)) /\ RunsIn(h, v) = RunsIn(q, v) \cup {Len(q) + 1}
      BY <1>0, <1>5, RunsCounted
    <2> QED
      BY <1>6, <2>1, FS_AddElement
  <1>8. \A w \in {0, 1} \ {v} : Cardinality(RunsIn(h, w)) = Cardinality(RunsIn(q, w))
    BY <1>0, <1>5
  <1> QED
    BY <1>0, <1>2, <1>3, <1>4, <1>7, <1>8

\* Neighbouring tokens that answer calls answer the same one, or the next.
Order(q) ==
  \A i \in 1..Len(q) - 1 :
    q[i].call > 0 /\ q[i + 1].call > 0 => q[i + 1].call \in {q[i].call, q[i].call + 1}

\* The mask marks, behind the prompt, what the model generated.
InStep ==
  /\ Len(promptIds) = PromptTokens + Len(responseMask)
  /\ \A i \in 1..PromptTokens : promptIds[i].kind = "prompt"
  /\ \A i \in 1..Len(responseMask) :
       responseMask[i] = 1 <=> promptIds[PromptTokens + i].kind = "generated"

\* Only tokens that answer a call name one.
CallFree ==
  \A i \in 1..Len(promptIds) :
    promptIds[i].kind \in {"prompt", "generated", "user"} => promptIds[i].call = 0

\* A block of tokens joins the transcript, marked as a whole.
Block(ids, v) ==
  /\ ids \in Seq(Token) /\ Len(ids) > 0 /\ v \in {0, 1}
  /\ \A j \in 1..Len(ids) :
       /\ ids[j].kind = "generated" <=> v = 1
       /\ ids[j].kind \in {"prompt", "generated", "user"} => ids[j].call = 0
  /\ Order(ids)
  /\ promptIds' = promptIds \o ids
  /\ responseMask' = responseMask \o Repeated(v, Len(ids))
  /\ responseMask # << >> => responseMask[Len(responseMask)] # v
  /\ promptIds[Len(promptIds)].call > 0 => ids[1].call = 0

LEMMA BlockGrows ==
  ASSUME TypeOK, InStep, CallFree, Order(promptIds), NEW ids, NEW v, Block(ids, v)
  PROVE  /\ promptIds' \in Seq(Token) /\ responseMask' \in Seq({0, 1})
         /\ InStep' /\ CallFree' /\ Order(promptIds')
         /\ Len(responseMask') = Len(responseMask) + Len(ids)
         /\ responseMask'[Len(responseMask')] = v /\ responseMask' # << >>
         /\ Cardinality(RunsIn(responseMask', v)) = Cardinality(RunsIn(responseMask, v)) + 1
         /\ \A w \in {0, 1} \ {v} :
              Cardinality(RunsIn(responseMask', w)) = Cardinality(RunsIn(responseMask, w))
         /\ promptIds'[Len(promptIds')] = ids[Len(ids)]
         /\ \A i \in 1..Len(promptIds') :
              \/ i \in 1..Len(promptIds) /\ promptIds'[i] = promptIds[i]
              \/ \E j \in 1..Len(ids) : promptIds'[i] = ids[j]
PROOF
  <1> DEFINE p == promptIds
             q == responseMask
             L == Len(promptIds)
             M == Len(responseMask)
             k == Len(ids)
  <1>1. /\ p \in Seq(Token) /\ q \in Seq({0, 1}) /\ PromptTokens \in Nat \ {0}
        /\ L \in Nat /\ M \in Nat
    BY ToolAgentAssumption DEF TypeOK, ToolAgentAssumption, Token
  <1>2. /\ ids \in Seq(Token) /\ k \in Nat \ {0} /\ v \in {0, 1}
        /\ p' = p \o ids /\ q' = q \o Repeated(v, k)
        /\ q # << >> => q[Len(q)] # v
    BY DEF Block
  <1>3. /\ p' \in Seq(Token) /\ Len(p') = L + k
        /\ \A j \in 1..L + k : p'[j] = IF j <= L THEN p[j] ELSE ids[j - L]
    BY <1>1, <1>2, Concat
  <1>4. /\ q' \in Seq({0, 1}) /\ Len(q') = M + k /\ q'[Len(q')] = v
        /\ \A j \in 1..M + k : q'[j] = IF j <= M THEN q[j] ELSE v
        /\ Cardinality(RunsIn(q', v)) = Cardinality(RunsIn(q, v)) + 1
        /\ \A w \in {0, 1} \ {v} : Cardinality(RunsIn(q', w)) = Cardinality(RunsIn(q, w))
    <2>1. Extended(q, v, k, q') /\ M = Len(q)
      BY <1>1, <1>2 DEF Extended
    <2> HIDE DEF p, q, L, M, k
    <2> QED
      BY <2>1, RunsBlock
  <1>5. /\ L = PromptTokens + M
        /\ \A i \in 1..PromptTokens : p[i].kind = "prompt"
        /\ \A i \in 1..M : q[i] = 1 <=> p[PromptTokens + i].kind = "generated"
    BY DEF InStep
  <1>6. \A j \in 1..k : /\ ids[j].kind = "generated" <=> v = 1
                        /\ ids[j].kind \in {"prompt", "generated", "user"} => ids[j].call = 0
    BY DEF Block
  <1>7. (\A i \in 1..k - 1 :
          ids[i].call > 0 /\ ids[i + 1].call > 0 =>
            ids[i + 1].call \in {ids[i].call, ids[i].call + 1})
        /\ (p[L].call > 0 => ids[1].call = 0)
    BY DEF Block, Order
  <1>8. (\A i \in 1..L : p[i].kind \in {"prompt", "generated", "user"} => p[i].call = 0)
        /\ \A i \in 1..L - 1 :
             p[i].call > 0 /\ p[i + 1].call > 0 => p[i + 1].call \in {p[i].call, p[i].call + 1}
    BY DEF CallFree, Order
  <1> HIDE DEF p, q, L, M, k
  <1>9. \A i \in 1..L + k : \/ i \in 1..L /\ p'[i] = p[i]
                            \/ i - L \in 1..k /\ p'[i] = ids[i - L]
    <2> TAKE i \in 1..L + k
    <2>1. CASE i <= L
      BY <1>1, <1>3, <2>1
    <2>2. CASE ~(i <= L)
      <3>1. i - L \in 1..k
        BY <1>1, <1>2, <2>2
      <3> QED
        BY <1>3, <2>2, <3>1
    <2> QED
      BY <2>1, <2>2
  <1>10. Len(p') = PromptTokens + Len(q')
    <2>1. \A a, b, c \in Nat : (a + b) + c = a + (b + c)
      OBVIOUS
    <2> QED
      BY <1>1, <1>2, <1>3, <1>4, <1>5, <2>1
  <1>11. \A i \in 1..PromptTokens : p'[i].kind = "prompt"
    <2> TAKE i \in 1..PromptTokens
    <2>1. i \in 1..L + k /\ i <= L
      BY <1>1, <1>2, <1>5
    <2> QED
      BY <1>3, <1>5, <2>1
  <1>12. \A i \in 1..M + k : q'[i] = 1 <=> p'[PromptTokens + i].kind = "generated"
    <2> TAKE i \in 1..M + k
    <2>1. CASE i <= M
      <3>1. i \in 1..M /\ PromptTokens + i \in 1..L + k /\ PromptTokens + i <= L
        BY <1>1, <1>2, <1>5, <2>1
      <3>2. q'[i] = q[i] /\ p'[PromptTokens + i] = p[PromptTokens + i]
        BY <1>3, <1>4, <2>1, <3>1
      <3> QED
        BY <1>5, <3>1, <3>2
    <2>2. CASE ~(i <= M)
      <3>1. /\ PromptTokens + i \in 1..L + k /\ ~(PromptTokens + i <= L)
            /\ (PromptTokens + i) - L \in 1..k
        BY <1>1, <1>2, <1>5, <2>2
      <3>2. q'[i] = v /\ p'[PromptTokens + i] = ids[(PromptTokens + i) - L]
        BY <1>3, <1>4, <2>2, <3>1
      <3> QED
        BY <1>2, <1>6, <3>1, <3>2
    <2> QED
      BY <2>1, <2>2
  <1>13. \A i \in 1..L + k : p'[i].kind \in {"prompt", "generated", "user"} => p'[i].call = 0
    BY <1>6, <1>8, <1>9
  <1>14. \A i \in 1..(L + k) - 1 :
           p'[i].call > 0 /\ p'[i + 1].call > 0 => p'[i + 1].call \in {p'[i].call, p'[i].call + 1}
    <2> TAKE i \in 1..(L + k) - 1
    <2>0. i \in 1..L + k /\ i + 1 \in 1..L + k /\ i \in Nat
      BY <1>1, <1>2
    <2>1. CASE i < L
      <3>1. i \in 1..L - 1 /\ i <= L /\ i + 1 <= L
        BY <1>1, <2>0, <2>1
      <3>2. p'[i] = p[i] /\ p'[i + 1] = p[i + 1]
        BY <1>3, <2>0, <3>1
      <3> QED
        BY <1>8, <3>1, <3>2
    <2>2. CASE i = L
      <3>1. i <= L /\ ~(i + 1 <= L) /\ (i + 1) - L = 1
        BY <1>1, <2>2
      <3>2. p'[i] = p[L] /\ p'[i + 1] = ids[1]
        BY <1>3, <2>0, <2>2, <3>1
      <3> QED
        BY <1>7, <3>2
    <2>3. CASE i > L
      <3>1. ~(i <= L) /\ ~(i + 1 <= L) /\ i - L \in 1..k - 1 /\ (i + 1) - L = (i - L) + 1
        BY <1>1, <1>2, <2>0, <2>3
      <3>2. p'[i] = ids[i - L] /\ p'[i + 1] = ids[(i - L) + 1]
        BY <1>3, <2>0, <3>1
      <3> QED
        BY <1>7, <3>1, <3>2
    <2> QED
      BY <1>1, <2>0, <2>1, <2>2, <2>3
  <1>15. p'[Len(p')] = ids[k] /\ q' # << >>
    <2>1. L + k \in 1..L + k /\ ~(L + k <= L) /\ (L + k) - L = k /\ M + k # 0
      BY <1>1, <1>2
    <2> QED
      BY <1>3, <1>4, <2>1
  <1>16. \A i \in 1..L + k : \/ i \in 1..L /\ p'[i] = p[i]
                             \/ \E j \in 1..k : p'[i] = ids[j]
    BY <1>9
  <1>17. InStep'
    BY <1>4, <1>10, <1>11, <1>12 DEF InStep, p, q
  <1>18. CallFree'
    BY <1>3, <1>13 DEF CallFree, p
  <1>19. Order(p')
    BY <1>3, <1>14 DEF Order
  <1> QED
    BY <1>3, <1>4, <1>15, <1>16, <1>17, <1>18, <1>19 DEF p, q, L, M, k

-----------------------------------------------------------------------------
(* The inductive invariant.                                                *)

\* Nothing has happened yet.
Begun ==
  state = "pending" =>
    /\ promptIds = << >> /\ responseMask = << >> /\ logprobs = << >> /\ images = << >>
    /\ userTurns = 0 /\ assistantTurns = 0 /\ allValid = TRUE

Tokens ==
  /\ state # "pending" => InStep
  /\ CallFree /\ Order(promptIds)
  /\ LogProbs => logprobs = responseMask

\* Answers and messages take turns.
LastMark ==
  /\ state \in {"processing_tools", "interacting"} =>
       /\ responseMask # << >> /\ responseMask[Len(responseMask)] = 1
       /\ promptIds[Len(promptIds)].call = 0
  /\ state = "generating" /\ responseMask # << >> => responseMask[Len(responseMask)] = 0

Imaged == Len(images) = Cardinality(ImagesIn(promptIds))

Turns ==
  /\ assistantTurns = Cardinality(RunsIn(responseMask, 1))
  /\ userTurns = Cardinality(RunsIn(responseMask, 0))
  /\ MaxAssistantTurns > 0 => assistantTurns <= MaxAssistantTurns
  /\ MaxUserTurns > 0 => userTurns <= MaxUserTurns
  /\ state \in {"generating", "processing_tools", "interacting"} /\ MaxAssistantTurns > 0 =>
       assistantTurns < MaxAssistantTurns
  /\ state \in {"processing_tools", "interacting"} => ~UserLimit

Formatted ==
  allValid => /\ \A i \in 1..Len(promptIds) : promptIds[i].kind # "error"
              /\ state = "processing_tools" => \A i \in 1..Len(calls) : calls[i].parsed = "good"

\* The calls that have their answer, and those that may hold an instance.
Done == {i \in 1..Len(calls) : calls[i].progress \in Results}
Underway == {"created", "executed", "raised", "lost"}
Holding == {i \in 1..Len(calls) : calls[i].progress \in Underway}

Calling ==
  /\ state = "processing_tools" => calls # << >> /\ Len(answered) = Cardinality(Done)
  /\ instances \subseteq Holding
  /\ state \notin {"processing_tools", "raised"} => instances = {}

Room ==
  /\ state = "generating" /\ ~interaction => Len(responseMask) < ResponseLength
  /\ state = "interacting" => interaction

Story ==
  /\ TypeOK /\ Begun /\ Tokens /\ LastMark /\ Imaged /\ Turns /\ Formatted /\ Calling /\ Room

-----------------------------------------------------------------------------
(* What the steps share.                                                   *)

LEMMA Params ==
  /\ MaxAssistantTurns \in Nat /\ MaxUserTurns \in Nat
  /\ PromptTokens \in Nat \ {0} /\ PromptLength \in Nat \ {0} /\ ResponseLength \in Nat \ {0}
  /\ ModelLength \in Nat \ {0} /\ MaxParallelCalls \in Nat \ {0} /\ MaxCalls \in Nat \ {0}
  /\ MaxMessage \in Nat \ {0} /\ MaxImages \in Nat /\ PromptTokens <= PromptLength /\ LogProbs \in BOOLEAN
BY ToolAgentAssumption DEF ToolAgentAssumption

\* A step that leaves the transcript as it is.
LEMMA Kept ==
  ASSUME Story, state # "pending", state' \in {state, "terminated", "raised"},
         UNCHANGED <<interaction, tokenVars, turnVars, allValid>>
  PROVE  /\ Begun' /\ Tokens' /\ LastMark' /\ Imaged' /\ Turns' /\ Room'
         /\ allValid' => \A i \in 1..Len(promptIds') : promptIds'[i].kind # "error"
PROOF
  <1> USE DEF Story, tokenVars, turnVars
  <1>1. Begun'
    BY DEF Begun
  <1>2. Tokens'
    BY DEF Tokens, InStep, CallFree, Order
  <1>3. LastMark'
    BY DEF LastMark
  <1>4. Imaged'
    BY DEF Imaged
  <1>5. Turns'
    BY DEF Turns, UserLimit
  <1>6. Room'
    BY DEF Room
  <1>7. allValid' => \A i \in 1..Len(promptIds') : promptIds'[i].kind # "error"
    BY DEF Formatted
  <1> QED
    BY <1>1, <1>2, <1>3, <1>4, <1>5, <1>6, <1>7

\* Tokens without an image among them.
LEMMA NoImages ==
  ASSUME NEW q \in Seq(Token), NEW b \in Seq(Token), \A j \in 1..Len(b) : b[j].kind # "image"
  PROVE  ImagesIn(q \o b) = ImagesIn(q)
PROOF
  <1>1. /\ Len(q \o b) = Len(q) + Len(b) /\ Len(q) \in Nat /\ Len(b) \in Nat
        /\ \A j \in 1..Len(q) + Len(b) :
             (q \o b)[j] = IF j <= Len(q) THEN q[j] ELSE b[j - Len(q)]
    BY Concat
  <1>2. ASSUME NEW j \in 1..Len(q) + Len(b), (q \o b)[j].kind = "image" PROVE j \in ImagesIn(q)
    <2>1. CASE j <= Len(q)
      BY <1>1, <1>2, <2>1 DEF ImagesIn
    <2>2. CASE ~(j <= Len(q))
      <3>1. j - Len(q) \in 1..Len(b)
        BY <1>1, <2>2
      <3> QED
        BY <1>1, <1>2, <2>2, <3>1
    <2> QED
      BY <2>1, <2>2
  <1>3. ASSUME NEW j \in 1..Len(q) PROVE j \in 1..Len(q) + Len(b) /\ (q \o b)[j] = q[j]
    BY <1>1
  <1> QED
    BY <1>1, <1>2, <1>3 DEF ImagesIn

\* A token n times over.
LEMMA SameTokens ==
  ASSUME NEW kind \in Kinds, NEW n \in Nat \ {0}
  PROVE  /\ Repeated(Tok(kind, 0), n) \in Seq(Token) /\ Len(Repeated(Tok(kind, 0), n)) = n
         /\ \A j \in 1..n : /\ Repeated(Tok(kind, 0), n)[j].kind = kind
                            /\ Repeated(Tok(kind, 0), n)[j].call = 0
PROOF
  <1> DEFINE tok == [kind |-> kind, call |-> 0]
             b == [i \in 1..n |-> tok]
  <1>1. tok \in Token /\ tok.kind = kind /\ tok.call = 0
    BY DEF Token
  <1>2. Repeated(Tok(kind, 0), n) = b
    BY DEF Repeated, Tok
  <1> HIDE DEF tok
  <1>3. b \in Seq(Token) /\ Len(b) = n /\ \A j \in 1..n : b[j] = tok
    BY <1>1
  <1> HIDE DEF b
  <1> QED
    BY <1>1, <1>2, <1>3

\* A mark n times over.
LEMMA SameMarks ==
  ASSUME NEW v \in {0, 1}, NEW n \in Nat, NEW q \in Seq({0, 1})
  PROVE  q \o Repeated(v, n) \in Seq({0, 1})
PROOF
  <1>1. Repeated(v, n) \in Seq({0, 1})
    BY DEF Repeated
  <1> QED
    BY <1>1, Concat

-----------------------------------------------------------------------------
(* The steps before and at the end of an answer.                           *)

LEMMA Initially ==
  ASSUME Init
  PROVE  Story
PROOF
  <1>1. /\ interaction \in BOOLEAN /\ state = "pending"
        /\ promptIds = << >> /\ responseMask = << >> /\ logprobs = << >> /\ images = << >>
        /\ userTurns = 0 /\ assistantTurns = 0
        /\ calls = << >> /\ instances = {} /\ answered = << >>
        /\ allValid = TRUE /\ toolRewards = 0
    BY DEF Init
  <1>2. TypeOK
    BY <1>1, Params DEF TypeOK
  <1>3. ImagesIn(promptIds) = {} /\ \A m \in {0, 1} : RunsIn(responseMask, m) = {}
    BY <1>1 DEF ImagesIn, RunsIn
  <1>4. Cardinality({}) = 0
    BY FS_EmptySet
  <1>5. Begun /\ LastMark /\ Calling /\ Room
    BY <1>1 DEF Begun, LastMark, Calling, Room
  <1>6. Tokens /\ Formatted
    BY <1>1 DEF Tokens, CallFree, Order, Formatted
  <1>7. Imaged
    BY <1>1, <1>3, <1>4 DEF Imaged
  <1>8. Turns
    BY <1>1, <1>3, <1>4, Params DEF Turns
  <1> QED
    BY <1>2, <1>5, <1>6, <1>7, <1>8 DEF Story

LEMMA PrepareStep ==
  ASSUME Story, Prepare, UNCHANGED interaction
  PROVE  Story'
PROOF
  <1>1. /\ promptIds = << >> /\ responseMask = << >> /\ logprobs = << >> /\ images = << >>
        /\ userTurns = 0 /\ assistantTurns = 0 /\ allValid = TRUE /\ instances = {}
    BY DEF Story, Prepare, Begun, Calling
  <1>2. /\ state' = "generating" /\ promptIds' = Repeated(Tok("prompt", 0), PromptTokens)
        /\ UNCHANGED <<interaction, responseMask, logprobs, images, userTurns, assistantTurns,
                       calls, instances, answered, allValid, toolRewards>>
    BY DEF Prepare, turnVars, callVars
  <1>3. /\ promptIds' \in Seq(Token) /\ Len(promptIds') = PromptTokens
        /\ \A j \in 1..PromptTokens : promptIds'[j].kind = "prompt" /\ promptIds'[j].call = 0
    <2>1. "prompt" \in Kinds
      BY DEF Kinds
    <2> QED
      BY <1>2, <2>1, Params, SameTokens
  <1>4. TypeOK'
    BY <1>2, <1>3 DEF Story, TypeOK, Token
  <1>5. ImagesIn(promptIds') = {} /\ \A m \in {0, 1} : RunsIn(responseMask', m) = {}
    BY <1>1, <1>2, <1>3 DEF ImagesIn, RunsIn
  <1>6. Cardinality({}) = 0
    BY FS_EmptySet
  <1>7. Begun' /\ LastMark' /\ Calling' /\ Room'
    BY <1>1, <1>2, Params DEF Begun, LastMark, Calling, Room
  <1>8. InStep'
    BY <1>1, <1>2, <1>3, Params DEF InStep
  <1>9. CallFree' /\ Order(promptIds')
    BY <1>3, Params DEF CallFree, Order
  <1>10. Tokens'
    BY <1>1, <1>2, <1>8, <1>9 DEF Tokens
  <1>11. Formatted'
    BY <1>2, <1>3 DEF Formatted
  <1>12. Imaged'
    BY <1>1, <1>2, <1>5, <1>6 DEF Imaged
  <1>13. Turns'
    <2>1. RunsIn(responseMask', 0) = {} /\ RunsIn(responseMask', 1) = {}
      BY <1>5
    <2>2. /\ assistantTurns' = Cardinality(RunsIn(responseMask', 1)) /\ assistantTurns' = 0
          /\ userTurns' = Cardinality(RunsIn(responseMask', 0)) /\ userTurns' = 0
      BY <1>1, <1>2, <1>6, <2>1
    <2> QED
      BY <1>2, <2>2, Params DEF Turns
  <1> QED
    BY <1>4, <1>7, <1>10, <1>11, <1>12, <1>13 DEF Story

LEMMA RefuseStep ==
  ASSUME Story, Refuse, UNCHANGED interaction
  PROVE  Story'
PROOF
  <1>1. /\ state = "generating" /\ state' = "raised"
        /\ UNCHANGED <<interaction, tokenVars, turnVars, callVars, allValid, toolRewards>>
    BY DEF Refuse
  <1>2. /\ Begun' /\ Tokens' /\ LastMark' /\ Imaged' /\ Turns' /\ Room'
        /\ allValid' => \A i \in 1..Len(promptIds') : promptIds'[i].kind # "error"
    BY <1>1, Kept
  <1>3. TypeOK'
    BY <1>1 DEF Story, TypeOK, tokenVars, turnVars, callVars
  <1>4. Formatted' /\ Calling'
    BY <1>1, <1>2 DEF Story, Formatted, Calling, Holding, callVars
  <1> QED
    BY <1>2, <1>3, <1>4 DEF Story

\* What an answer of n tokens does to the transcript.
Answer(n) ==
  /\ state = "generating" /\ state' # "pending" /\ n \in Nat \ {0}
  /\ promptIds' = promptIds \o Repeated(Tok("generated", 0), n)
  /\ responseMask' = responseMask \o Repeated(1, n)
  /\ logprobs' = IF LogProbs THEN logprobs \o Repeated(1, n) ELSE logprobs
  /\ assistantTurns' = assistantTurns + 1
  /\ UNCHANGED <<images, userTurns>>

LEMMA AnswerGrows ==
  ASSUME Story, NEW n, Answer(n)
  PROVE  /\ promptIds' \in Seq(Token) /\ responseMask' \in Seq({0, 1})
         /\ logprobs' \in Seq({0, 1}) /\ Tokens' /\ Imaged'
         /\ Len(responseMask') = Len(responseMask) + n
         /\ responseMask' # << >> /\ responseMask'[Len(responseMask')] = 1
         /\ promptIds'[Len(promptIds')].call = 0
         /\ assistantTurns' = Cardinality(RunsIn(responseMask', 1))
         /\ userTurns' = Cardinality(RunsIn(responseMask', 0))
         /\ allValid => \A i \in 1..Len(promptIds') : promptIds'[i].kind # "error"
PROOF
  <1> DEFINE ids == Repeated(Tok("generated", 0), n)
  <1>1. /\ state = "generating" /\ state' # "pending" /\ n \in Nat \ {0}
        /\ promptIds' = promptIds \o ids /\ responseMask' = responseMask \o Repeated(1, n)
        /\ logprobs' = IF LogProbs THEN logprobs \o Repeated(1, n) ELSE logprobs
        /\ assistantTurns' = assistantTurns + 1 /\ images' = images /\ userTurns' = userTurns
    BY DEF Answer
  <1>2. /\ ids \in Seq(Token) /\ Len(ids) = n
        /\ \A j \in 1..n : ids[j].kind = "generated" /\ ids[j].call = 0
    <2>1. "generated" \in Kinds
      BY DEF Kinds
    <2> QED
      BY <1>1, <2>1, SameTokens
  <1> HIDE DEF ids
  <1>3. /\ TypeOK /\ InStep /\ CallFree /\ Order(promptIds)
        /\ LogProbs => logprobs = responseMask
        /\ responseMask # << >> => responseMask[Len(responseMask)] = 0
    BY <1>1 DEF Story, Tokens, LastMark
  <1>4. 1 \in 1..n /\ n \in 1..n
    BY <1>1
  <1>5. Order(ids)
    BY <1>1, <1>2 DEF Order
  <1>6. Block(ids, 1)
    BY <1>1, <1>2, <1>3, <1>4, <1>5 DEF Block
  <1>7. /\ promptIds' \in Seq(Token) /\ responseMask' \in Seq({0, 1})
        /\ InStep' /\ CallFree' /\ Order(promptIds')
        /\ Len(responseMask') = Len(responseMask) + Len(ids)
        /\ responseMask'[Len(responseMask')] = 1 /\ responseMask' # << >>
        /\ Cardinality(RunsIn(responseMask', 1)) = Cardinality(RunsIn(responseMask, 1)) + 1
        /\ \A w \in {0, 1} \ {1} :
             Cardinality(RunsIn(responseMask', w)) = Cardinality(RunsIn(responseMask, w))
        /\ promptIds'[Len(promptIds')] = ids[Len(ids)]
        /\ \A i \in 1..Len(promptIds') :
             \/ i \in 1..Len(promptIds) /\ promptIds'[i] = promptIds[i]
             \/ \E j \in 1..Len(ids) : promptIds'[i] = ids[j]
    BY <1>3, <1>6, BlockGrows
  <1>8. logprobs' \in Seq({0, 1}) /\ (LogProbs => logprobs' = responseMask')
    <2>1. logprobs \in Seq({0, 1}) /\ logprobs \o Repeated(1, n) \in Seq({0, 1})
      BY <1>1, <1>3, SameMarks DEF TypeOK
    <2> QED
      BY <1>1, <1>3, <2>1
  <1>9. Tokens'
    BY <1>7, <1>8 DEF Tokens
  <1>10. Imaged'
    <2>1. promptIds \in Seq(Token) /\ \A j \in 1..Len(ids) : ids[j].kind # "image"
      BY <1>2, <1>3 DEF TypeOK, Token
    <2>2. ImagesIn(promptIds \o ids) = ImagesIn(promptIds)
      BY <1>2, <2>1, NoImages
    <2>3. Imaged
      BY DEF Story
    <2> QED
      BY <1>1, <2>2, <2>3 DEF Imaged
  <1>11. /\ assistantTurns' = Cardinality(RunsIn(responseMask', 1))
         /\ userTurns' = Cardinality(RunsIn(responseMask', 0))
    <2>1. /\ assistantTurns = Cardinality(RunsIn(responseMask, 1))
          /\ userTurns = Cardinality(RunsIn(responseMask, 0))
      BY DEF Story, Turns
    <2>2. 0 \in {0, 1} \ {1}
      OBVIOUS
    <2> QED
      BY <1>1, <1>7, <2>1, <2>2
  <1>12. allValid => \A i \in 1..Len(promptIds') : promptIds'[i].kind # "error"
    <2>1. allValid => \A i \in 1..Len(promptIds) : promptIds[i].kind # "error"
      BY DEF Story, Formatted
    <2> QED
      BY <1>2, <1>7, <2>1
  <1>13. promptIds'[Len(promptIds')].call = 0
    BY <1>2, <1>4, <1>7
  <1> QED
    BY <1>2, <1>7, <1>8, <1>9, <1>10, <1>11, <1>12, <1>13

\* The calls of an answer that are executed.
Asking(cs, new) ==
  /\ cs \in UNION {[1..k -> Parsed] : k \in 0..MaxCalls}
  /\ new = [i \in DOMAIN Executed(cs) |-> [parsed |-> cs[i], progress |-> "asked"]]

AskedOf(cs, new) ==
  /\ new \in Seq([parsed : Parsed, progress : Progress]) /\ Len(new) <= MaxParallelCalls
  /\ cs # << >> => new # << >>
  /\ \A i \in 1..Len(new) : /\ new[i].parsed = cs[i] /\ new[i].progress = "asked"
                            /\ i \in DOMAIN cs

LEMMA Asked ==
  ASSUME NEW cs, NEW new, Asking(cs, new)
  PROVE  AskedOf(cs, new)
PROOF
  <1>1. PICK k \in Nat : cs \in [1..k -> Parsed]
    BY Params DEF Asking
  <1>2. cs \in Seq(Parsed) /\ Len(cs) = k /\ DOMAIN cs = 1..k
    BY <1>1
  <1> DEFINE m == Min({k, MaxParallelCalls})
  <1>3. m \in {k, MaxParallelCalls} /\ m <= k /\ m <= MaxParallelCalls
    BY Params, MinPair
  <1> HIDE DEF m
  <1>4. m \in Nat /\ (k > 0 => m > 0)
    BY <1>3, Params
  <1>5. DOMAIN Executed(cs) = 1..m
    <2>1. Executed(cs) = SubSeq(cs, 1, m)
      BY <1>2 DEF Executed, m
    <2>2. Len(SubSeq(cs, 1, m)) = m /\ SubSeq(cs, 1, m) \in Seq(Parsed)
      BY <1>2, <1>3, <1>4
    <2> QED
      BY <2>1, <2>2
  <1>6. new = [i \in 1..m |-> [parsed |-> cs[i], progress |-> "asked"]]
    BY <1>5 DEF Asking
  <1>7. \A i \in 1..m : i \in 1..k /\ cs[i] \in Parsed
    BY <1>1, <1>3, <1>4
  <1>8. /\ new \in Seq([parsed : Parsed, progress : Progress]) /\ Len(new) = m
        /\ \A i \in 1..m : new[i] = [parsed |-> cs[i], progress |-> "asked"]
    <2>1. \A i \in 1..m : [parsed |-> cs[i], progress |-> "asked"]
                            \in [parsed : Parsed, progress : Progress]
      BY <1>7 DEF Progress
    <2> QED
      <3> DEFINE S == [parsed : Parsed, progress : Progress]
                 asked(i) == [parsed |-> cs[i], progress |-> "asked"]
      <3>1. new = [i \in 1..m |-> asked(i)] /\ \A i \in 1..m : asked(i) \in S
        BY <1>6, <2>1
      <3> HIDE DEF asked, S
      <3>2. new \in Seq(S) /\ Len(new) = m /\ \A i \in 1..m : new[i] = asked(i)
        BY <1>4, <3>1
      <3> QED
        BY <3>2 DEF asked, S
  <1>9. cs # << >> => k > 0
    BY <1>2
  <1>10. m > 0 => new # << >>
    BY <1>4, <1>8
  <1>11. \A i \in 1..m : new[i].parsed = cs[i] /\ new[i].progress = "asked"
    BY <1>8
  <1> QED
    BY <1>2, <1>3, <1>4, <1>7, <1>8, <1>9, <1>10, <1>11 DEF AskedOf

LEMMA GenerateStep ==
  ASSUME Story, Generate, UNCHANGED interaction
  PROVE  Story'
PROOF
  <1>1. PICK n \in 1..MaxTokens :
          /\ promptIds' = promptIds \o Repeated(Tok("generated", 0), n)
          /\ responseMask' = responseMask \o Repeated(1, n)
          /\ logprobs' = IF LogProbs THEN logprobs \o Repeated(1, n) ELSE logprobs
          /\ assistantTurns' = assistantTurns + 1
          /\ IF Limit(n)
             THEN state' = "terminated" /\ calls' = << >> /\ UNCHANGED allValid
             ELSE \E cs \in UNION {[1..k -> Parsed] : k \in 0..MaxCalls} :
                  /\ calls' = [i \in DOMAIN Executed(cs) |->
                                 [parsed |-> cs[i], progress |-> "asked"]]
                  /\ allValid' = ValidSoFar(cs)
                  /\ state' = IF cs # << >> THEN "processing_tools"
                              ELSE IF interaction THEN "interacting" ELSE "terminated"
    BY DEF Generate
  <1>2. /\ state = "generating" /\ answered' = << >>
        /\ UNCHANGED <<interaction, images, userTurns, instances, toolRewards>>
    BY DEF Generate
  <1>3. n \in Nat \ {0}
    <2>1. /\ ResponseLength + PromptLength \in Int /\ ModelLength \in Int
          /\ Len(promptIds) \in Int
      BY Params DEF Story, TypeOK
    <2>2. Min({ResponseLength + PromptLength, ModelLength}) \in Int
      BY <2>1, MinPair
    <2>3. MaxTokens \in Int
      BY <2>1, <2>2 DEF MaxTokens
    <2> QED
      BY <2>3
  <1>4. /\ TypeOK /\ instances = {} /\ allValid \in BOOLEAN /\ interaction \in BOOLEAN
        /\ assistantTurns \in Nat
        /\ userTurns \in Nat /\ Len(responseMask) \in Nat
        /\ (MaxAssistantTurns > 0 => assistantTurns < MaxAssistantTurns)
        /\ (MaxUserTurns > 0 => userTurns <= MaxUserTurns)
    BY <1>2 DEF Story, TypeOK, Calling, Turns
  <1>5. /\ state' \in {"terminated", "processing_tools", "interacting"}
        /\ state' = "interacting" => interaction
    BY <1>1
  <1>6. Answer(n)
    BY <1>1, <1>2, <1>3, <1>5 DEF Answer
  <1>7. /\ promptIds' \in Seq(Token) /\ responseMask' \in Seq({0, 1})
        /\ logprobs' \in Seq({0, 1}) /\ Tokens' /\ Imaged'
        /\ Len(responseMask') = Len(responseMask) + n
        /\ responseMask' # << >> /\ responseMask'[Len(responseMask')] = 1
        /\ promptIds'[Len(promptIds')].call = 0
        /\ assistantTurns' = Cardinality(RunsIn(responseMask', 1))
        /\ userTurns' = Cardinality(RunsIn(responseMask', 0))
        /\ allValid => \A i \in 1..Len(promptIds') : promptIds'[i].kind # "error"
    BY <1>6, AnswerGrows
  <1>8. Begun' /\ LastMark' /\ Room'
    BY <1>2, <1>5, <1>7 DEF Begun, LastMark, Room
  <1>9. Turns'
    <2>1. state' # "terminated" =>
            /\ MaxAssistantTurns > 0 => ~(assistantTurns + 1 >= MaxAssistantTurns)
            /\ ~UserLimit
      BY <1>1 DEF Limit
    <2>2. /\ MaxAssistantTurns > 0 => assistantTurns' <= MaxAssistantTurns
          /\ state' # "terminated" /\ MaxAssistantTurns > 0 => assistantTurns' < MaxAssistantTurns
      BY <1>1, <1>4, <2>1, Params
    <2>3. (MaxUserTurns > 0 => userTurns' <= MaxUserTurns) /\ (state' # "terminated" => ~UserLimit')
      BY <1>2, <1>4, <2>1 DEF UserLimit
    <2> QED
      BY <1>5, <1>7, <2>2, <2>3 DEF Turns
  <1>10. CASE Limit(n)
    <2>1. state' = "terminated" /\ calls' = << >> /\ allValid' = allValid
      BY <1>1, <1>10
    <2>2. TypeOK'
      BY <1>1, <1>2, <1>4, <1>7, <2>1, Params DEF TypeOK, Token
    <2>3. Formatted' /\ Calling'
      BY <1>2, <1>4, <1>7, <2>1 DEF Formatted, Calling
    <2> QED
      BY <1>7, <1>8, <1>9, <2>2, <2>3 DEF Story
  <1>11. CASE ~Limit(n)
    <2>1. PICK cs \in UNION {[1..k -> Parsed] : k \in 0..MaxCalls} :
            /\ calls' = [i \in DOMAIN Executed(cs) |->
                           [parsed |-> cs[i], progress |-> "asked"]]
            /\ allValid' = ValidSoFar(cs)
            /\ state' = IF cs # << >> THEN "processing_tools"
                        ELSE IF interaction THEN "interacting" ELSE "terminated"
      BY <1>1, <1>11
    <2>2. Asking(cs, calls')
      BY <2>1 DEF Asking
    <2>3. /\ calls' \in Seq([parsed : Parsed, progress : Progress])
          /\ Len(calls') <= MaxParallelCalls
          /\ cs # << >> => calls' # << >>
          /\ \A i \in 1..Len(calls') : /\ calls'[i].parsed = cs[i]
                                       /\ calls'[i].progress = "asked" /\ i \in DOMAIN cs
      <3>1. AskedOf(cs, calls')
        BY <2>2, Asked
      <3> QED
        BY <3>1 DEF AskedOf
    <2>4. allValid' \in BOOLEAN
          /\ (allValid' => allValid /\ \A i \in DOMAIN cs : cs[i] = "good")
      BY <2>1 DEF ValidSoFar
    <2>5. TypeOK'
      BY <1>1, <1>2, <1>4, <1>5, <1>7, <2>3, <2>4 DEF TypeOK, Token
    <2>6. Formatted'
      BY <1>7, <2>3, <2>4 DEF Formatted
    <2>7. Calling'
      <3>1. \A i \in 1..Len(calls') : calls'[i].progress = "asked"
        BY <2>3
      <3>2. Done' = {} /\ Holding' = {}
        BY <3>1 DEF Done, Holding, Underway, Results
      <3>3. Len(answered') = Cardinality(Done')
        BY <1>2, <3>2, FS_EmptySet
      <3>4. instances' = {}
        BY <1>2, <1>4
      <3> QED
        BY <2>1, <2>3, <3>2, <3>3, <3>4 DEF Calling
    <2> QED
      BY <1>7, <1>8, <1>9, <2>5, <2>6, <2>7 DEF Story
  <1> QED
    BY <1>10, <1>11

-----------------------------------------------------------------------------
(* The calls.                                                              *)

\* A call that has no answer yet moves on to p.
Moving(i, p) ==
  /\ state \in {"processing_tools", "raised"} /\ i \in DOMAIN calls
  /\ calls[i].progress \notin Results
  /\ p \in Progress /\ Advance(i, p) /\ state' \in {state, "raised"}
  /\ UNCHANGED interaction

LEMMA MovingStep ==
  ASSUME Story, NEW i, NEW p, Moving(i, p), instances' \subseteq Holding'
  PROVE  Story'
PROOF
  <1>1. /\ state \in {"processing_tools", "raised"} /\ state' \in {state, "raised"}
        /\ i \in 1..Len(calls) /\ calls[i].progress \notin Results
        /\ p \in Progress /\ calls' = [calls EXCEPT ![i].progress = p]
        /\ answered' = IF p \in Results THEN Append(answered, i) ELSE answered
        /\ UNCHANGED <<interaction, tokenVars, turnVars, allValid, toolRewards>>
    BY DEF Moving, Advance, Story, TypeOK
  <1>2. /\ TypeOK /\ calls \in Seq([parsed : Parsed, progress : Progress])
        /\ answered \in Seq(1..Len(calls)) /\ calls # << >>
        /\ state = "processing_tools" => Len(answered) = Cardinality(Done)
    BY <1>1 DEF Story, TypeOK, Calling
  <1>3. /\ calls' \in Seq([parsed : Parsed, progress : Progress]) /\ Len(calls') = Len(calls)
        /\ calls'[i].progress = p /\ calls'[i].parsed = calls[i].parsed
        /\ \A j \in 1..Len(calls) : j # i => calls'[j] = calls[j]
    <2>1. [calls[i] EXCEPT !.progress = p] \in [parsed : Parsed, progress : Progress]
          /\ [calls[i] EXCEPT !.progress = p].progress = p
          /\ [calls[i] EXCEPT !.progress = p].parsed = calls[i].parsed
      <3> DEFINE r == calls[i]
      <3>1. r \in [parsed : Parsed, progress : Progress]
        <4> DEFINE S == [parsed : Parsed, progress : Progress]
        <4>1. calls \in Seq(S) /\ i \in 1..Len(calls)
          BY <1>1, <1>2
        <4> HIDE DEF S
        <4>2. calls[i] \in S
          BY <4>1
        <4> QED
          BY <4>2 DEF S
      <3> HIDE DEF r
      <3>2. /\ [r EXCEPT !.progress = p] \in [parsed : Parsed, progress : Progress]
            /\ [r EXCEPT !.progress = p].progress = p
            /\ [r EXCEPT !.progress = p].parsed = r.parsed
        BY <1>1, <3>1
      <3> QED
        BY <3>2 DEF r
    <2> DEFINE c == [calls[i] EXCEPT !.progress = p]
    <2>2. calls' = [calls EXCEPT ![i] = c]
      BY <1>1
    <2>3. c \in [parsed : Parsed, progress : Progress]
      BY <2>1
    <2> HIDE DEF c
    <2>4. /\ calls' \in Seq([parsed : Parsed, progress : Progress]) /\ Len(calls') = Len(calls)
          /\ calls'[i] = c /\ \A j \in 1..Len(calls) : j # i => calls'[j] = calls[j]
      BY <1>1, <1>2, <2>2, <2>3
    <2> QED
      BY <2>1, <2>4 DEF c
  <1>4. Done' = IF p \in Results THEN Done \cup {i} ELSE Done
    <2>1. \A j \in 1..Len(calls) :
            j \in Done' <=> IF j = i THEN p \in Results ELSE j \in Done
      BY <1>1, <1>3 DEF Done
    <2>2. Done' \subseteq 1..Len(calls) /\ Done \subseteq 1..Len(calls) /\ i \notin Done
      BY <1>1, <1>3 DEF Done
    <2> QED
      BY <1>1, <2>1, <2>2
  <1>5. /\ answered' \in Seq(1..Len(calls))
        /\ state = "processing_tools" => Len(answered') = Cardinality(Done')
    <2>1. IsFiniteSet(Done) /\ Cardinality(Done) \in Nat
      <3>1. IsFiniteSet(1..Len(calls)) /\ Done \in SUBSET (1..Len(calls))
        BY <1>2, FS_Interval DEF Done
      <3> QED
        BY <3>1, FS_Subset, FS_CardinalityType
    <2>2. i \notin Done
      BY <1>1 DEF Done
    <2>3. CASE p \in Results
      <3>1. answered' \in Seq(1..Len(calls)) /\ Len(answered') = Len(answered) + 1
        BY <1>1, <1>2, <2>3
      <3>2. Cardinality(Done') = Cardinality(Done) + 1
        BY <1>4, <2>1, <2>2, <2>3, FS_AddElement
      <3> QED
        BY <1>2, <3>1, <3>2
    <2>4. CASE p \notin Results
      BY <1>1, <1>2, <1>4, <2>4
    <2> QED
      BY <2>3, <2>4
  <1>6. /\ Begun' /\ Tokens' /\ LastMark' /\ Imaged' /\ Turns' /\ Room'
        /\ allValid' => \A j \in 1..Len(promptIds') : promptIds'[j].kind # "error"
    <2>1. /\ state # "pending" /\ state' \in {state, "terminated", "raised"}
          /\ UNCHANGED <<interaction, tokenVars, turnVars, allValid>>
      BY <1>1
    <2> QED
      BY <2>1, Kept
  <1>7. TypeOK'
    <2>1. instances' \subseteq DOMAIN calls'
      BY <1>3 DEF Holding
    <2>2. DOMAIN calls' = 1..Len(calls)
      BY <1>3
    <2> QED
      BY <1>1, <1>2, <1>3, <1>5, <2>1, <2>2 DEF TypeOK, tokenVars, turnVars
  <1>8. Formatted'
    <2>1. allValid /\ state = "processing_tools" =>
            \A j \in 1..Len(calls) : calls[j].parsed = "good"
      BY DEF Story, Formatted
    <2>2. allValid /\ state = "processing_tools" =>
            \A j \in 1..Len(calls) : calls'[j].parsed = "good"
      BY <1>1, <1>3, <2>1
    <2> QED
      BY <1>1, <1>3, <1>6, <2>2 DEF Formatted
  <1>9. Calling'
    <2>1. calls' # << >>
      BY <1>1, <1>3
    <2> QED
      BY <1>1, <1>5, <2>1 DEF Calling
  <1> QED
    BY <1>6, <1>7, <1>8, <1>9 DEF Story

\* The calls that may hold an instance after such a step.
LEMMA HoldingStep ==
  ASSUME Story, NEW i, NEW p, Moving(i, p)
  PROVE  /\ instances \subseteq Holding
         /\ Holding' = IF p \in Underway THEN Holding \cup {i} ELSE Holding \ {i}
PROOF
  <1>1. /\ i \in 1..Len(calls)
        /\ calls' = [calls EXCEPT ![i].progress = p]
        /\ calls \in Seq([parsed : Parsed, progress : Progress])
    BY DEF Moving, Advance, Story, TypeOK
  <1>2. instances \subseteq Holding
    BY <1>1 DEF Story, Calling
  <1>3. /\ Len(calls') = Len(calls) /\ calls'[i].progress = p
        /\ \A j \in 1..Len(calls) : j # i => calls'[j] = calls[j]
    BY <1>1
  <1>4. \A j \in 1..Len(calls) :
          j \in Holding' <=> IF j = i THEN p \in Underway ELSE j \in Holding
    BY <1>1, <1>3 DEF Holding
  <1>5. Holding' \subseteq 1..Len(calls) /\ Holding \subseteq 1..Len(calls)
    BY <1>3 DEF Holding
  <1> QED
    BY <1>1, <1>2, <1>4, <1>5

LEMMA CallStep ==
  ASSUME Story, NEW i, UNCHANGED interaction,
         CallError(i) \/ Create(i) \/ Execute(i) \/ Release(i) \/ ReleaseRaises(i)
  PROVE  Story'
PROOF
  <1>1. CASE CallError(i)
    <2>1. /\ state \in {"processing_tools", "raised"} /\ i \in DOMAIN calls
          /\ calls[i].progress = "asked"
          /\ Advance(i, "text") /\ instances' = instances /\ state' = state
      BY <1>1 DEF CallError, At
    <2>2. Moving(i, "text")
      BY <2>1 DEF Moving, Results, Progress
    <2>3. i \notin instances
      BY <2>1 DEF Story, Calling, Holding, Underway
    <2>4. instances' \subseteq Holding'
      BY <2>1, <2>2, <2>3, HoldingStep
    <2> QED
      BY <2>2, <2>4, MovingStep
  <1>2. CASE Create(i)
    <2>1. /\ state \in {"processing_tools", "raised"} /\ i \in DOMAIN calls
          /\ calls[i].progress = "asked"
          /\ Advance(i, "created") /\ instances' = instances \cup {i} /\ state' = state
      BY <1>2 DEF Create, At
    <2>2. Moving(i, "created")
      BY <2>1 DEF Moving, Results, Progress
    <2>3. instances' \subseteq Holding'
      BY <2>1, <2>2, HoldingStep DEF Underway
    <2> QED
      BY <2>2, <2>3, MovingStep
  <1>3. CASE Execute(i)
    <2>1. PICK p \in {"executed", "raised"} : Advance(i, p)
      BY <1>3 DEF Execute
    <2>2. /\ state \in {"processing_tools", "raised"} /\ i \in DOMAIN calls
          /\ calls[i].progress = "created" /\ instances' = instances /\ state' = state
      BY <1>3 DEF Execute, At
    <2>3. Moving(i, p)
      BY <2>1, <2>2 DEF Moving, Results, Progress
    <2>4. instances' \subseteq Holding'
      BY <2>1, <2>2, <2>3, HoldingStep DEF Underway
    <2> QED
      BY <2>3, <2>4, MovingStep
  <1>4. CASE Release(i)
    <2>1. PICK p \in Results : Advance(i, p)
      BY <1>4 DEF Release, Results
    <2>2. /\ state \in {"processing_tools", "raised"} /\ i \in DOMAIN calls
          /\ calls[i].progress \in {"executed", "raised"} /\ instances' = instances \ {i}
          /\ state' = state
      BY <1>4 DEF Release, At, Released
    <2>3. Moving(i, p)
      BY <2>1, <2>2 DEF Moving, Results, Progress
    <2>4. instances' \subseteq Holding'
      BY <2>1, <2>2, <2>3, HoldingStep
    <2> QED
      BY <2>3, <2>4, MovingStep
  <1>5. CASE ReleaseRaises(i)
    <2>1. /\ state \in {"processing_tools", "raised"} /\ i \in DOMAIN calls
          /\ calls[i].progress \in {"executed", "raised"} /\ Advance(i, "lost")
          /\ instances' \subseteq instances /\ state' = "raised"
      BY <1>5 DEF ReleaseRaises, At, Released
    <2>2. Moving(i, "lost")
      BY <2>1 DEF Moving, Results, Progress
    <2>3. instances' \subseteq Holding'
      BY <2>1, <2>2, HoldingStep DEF Underway
    <2> QED
      BY <2>2, <2>3, MovingStep
  <1> QED
    BY <1>1, <1>2, <1>3, <1>4, <1>5

\* Once the calls are gathered, each has its answer and none holds an instance.
LEMMA AllDone ==
  ASSUME Story, state = "processing_tools", Gathered
  PROVE  instances = {}
PROOF
  <1>1. /\ calls \in Seq([parsed : Parsed, progress : Progress])
        /\ Cardinality(Done) = Len(calls) /\ instances \subseteq Holding
    BY DEF Story, TypeOK, Calling, Gathered
  <1>2. IsFiniteSet(1..Len(calls)) /\ Cardinality(1..Len(calls)) = Len(calls)
    <2>1. Len(calls) \in Nat
      BY <1>1
    <2>2. /\ IsFiniteSet(1..Len(calls))
          /\ Cardinality(1..Len(calls)) = IF 1 > Len(calls) THEN 0 ELSE Len(calls) - 1 + 1
      BY <2>1, FS_Interval
    <2> QED
      BY <2>1, <2>2
  <1>3. Done \in SUBSET (1..Len(calls))
    BY DEF Done
  <1>4. Done = 1..Len(calls)
    BY <1>1, <1>2, <1>3, FS_Subset
  <1> QED
    BY <1>1, <1>4 DEF Done, Holding, Underway, Results

LEMMA UnsupportedStep ==
  ASSUME Story, Unsupported, UNCHANGED interaction
  PROVE  Story'
PROOF
  <1>1. /\ state = "processing_tools" /\ state' = "raised" /\ Gathered
        /\ UNCHANGED <<interaction, tokenVars, turnVars, callVars, allValid, toolRewards>>
    BY DEF Unsupported
  <1>2. /\ Begun' /\ Tokens' /\ LastMark' /\ Imaged' /\ Turns' /\ Room'
        /\ allValid' => \A i \in 1..Len(promptIds') : promptIds'[i].kind # "error"
    BY <1>1, Kept
  <1>3. TypeOK'
    BY <1>1 DEF Story, TypeOK, tokenVars, turnVars, callVars
  <1>4. Formatted'
    BY <1>1, <1>2 DEF Formatted
  <1>5. Calling'
    BY <1>1, AllDone DEF Calling, callVars
  <1> QED
    BY <1>2, <1>3, <1>4, <1>5 DEF Story

-----------------------------------------------------------------------------
(* Messages.                                                               *)

\* Tokens that the model did not generate join the transcript after an answer.
Observing(ids) ==
  /\ state \in {"processing_tools", "interacting"} /\ state' # "pending"
  /\ ids \in Seq(Token) /\ Len(ids) > 0 /\ Order(ids)
  /\ \A j \in 1..Len(ids) : /\ ids[j].kind \in {"tool", "error", "image", "user"}
                            /\ ids[j].kind = "user" => ids[j].call = 0
  /\ Observe(ids)

\* The transcript then, apart from its images.
Observed(ids) ==
  /\ promptIds' \in Seq(Token) /\ responseMask' \in Seq({0, 1})
  /\ logprobs' \in Seq({0, 1}) /\ Tokens'
  /\ Len(responseMask') = Len(responseMask) + Len(ids)
  /\ responseMask' # << >> /\ responseMask'[Len(responseMask')] = 0
  /\ Cardinality(RunsIn(responseMask', 1)) = Cardinality(RunsIn(responseMask, 1))
  /\ Cardinality(RunsIn(responseMask', 0)) = Cardinality(RunsIn(responseMask, 0)) + 1
  /\ \A i \in 1..Len(promptIds') :
       \/ i \in 1..Len(promptIds) /\ promptIds'[i] = promptIds[i]
       \/ \E j \in 1..Len(ids) : promptIds'[i] = ids[j]

LEMMA ObserveGrows ==
  ASSUME Story, NEW ids, Observing(ids)
  PROVE  Observed(ids)
PROOF
  <1>1. /\ state \in {"processing_tools", "interacting"} /\ state' # "pending"
        /\ ids \in Seq(Token) /\ Len(ids) > 0 /\ Order(ids)
        /\ \A j \in 1..Len(ids) : /\ ids[j].kind \in {"tool", "error", "image", "user"}
                                  /\ ids[j].kind = "user" => ids[j].call = 0
    BY DEF Observing
  <1>2. /\ promptIds' = promptIds \o ids
        /\ responseMask' = responseMask \o Repeated(0, Len(ids))
        /\ logprobs' = IF logprobs # << >> THEN logprobs \o Repeated(0, Len(ids)) ELSE logprobs
    BY DEF Observing, Observe, MessageMask, Padded
  <1>3. /\ TypeOK /\ InStep /\ CallFree /\ Order(promptIds)
        /\ LogProbs => logprobs = responseMask
        /\ responseMask # << >> /\ responseMask[Len(responseMask)] = 1
        /\ promptIds[Len(promptIds)].call = 0
    BY <1>1 DEF Story, Tokens, LastMark
  <1>4. \A j \in 1..Len(ids) :
          /\ ids[j].kind # "generated"
          /\ ids[j].kind \in {"prompt", "generated", "user"} => ids[j].call = 0
    BY <1>1
  <1>5. Block(ids, 0)
    BY <1>1, <1>2, <1>3, <1>4 DEF Block
  <1>6. /\ promptIds' \in Seq(Token) /\ responseMask' \in Seq({0, 1})
        /\ InStep' /\ CallFree' /\ Order(promptIds')
        /\ Len(responseMask') = Len(responseMask) + Len(ids)
        /\ responseMask'[Len(responseMask')] = 0 /\ responseMask' # << >>
        /\ Cardinality(RunsIn(responseMask', 0)) = Cardinality(RunsIn(responseMask, 0)) + 1
        /\ \A w \in {0, 1} \ {0} :
             Cardinality(RunsIn(responseMask', w)) = Cardinality(RunsIn(responseMask, w))
        /\ promptIds'[Len(promptIds')] = ids[Len(ids)]
        /\ \A i \in 1..Len(promptIds') :
             \/ i \in 1..Len(promptIds) /\ promptIds'[i] = promptIds[i]
             \/ \E j \in 1..Len(ids) : promptIds'[i] = ids[j]
    BY <1>3, <1>5, BlockGrows
  <1>7. logprobs' \in Seq({0, 1}) /\ (LogProbs => logprobs' = responseMask')
    <2>1. logprobs \in Seq({0, 1}) /\ logprobs \o Repeated(0, Len(ids)) \in Seq({0, 1})
      BY <1>1, <1>3, SameMarks DEF TypeOK
    <2> QED
      BY <1>2, <1>3, <2>1
  <1>8. Tokens'
    BY <1>6, <1>7 DEF Tokens
  <1>9. 1 \in {0, 1} \ {0}
    OBVIOUS
  <1> QED
    BY <1>6, <1>7, <1>8, <1>9 DEF Observed

\* What the turn counts become.
LEMMA ObservedTurns ==
  ASSUME Story, NEW ids, Observed(ids), state \in {"processing_tools", "interacting"},
         state' \in {"generating", "terminated"},
         userTurns' = userTurns + 1, assistantTurns' = assistantTurns
  PROVE  Turns' /\ LastMark' /\ Begun'
PROOF
  <1>1. /\ assistantTurns = Cardinality(RunsIn(responseMask, 1))
        /\ userTurns = Cardinality(RunsIn(responseMask, 0))
        /\ MaxAssistantTurns > 0 => assistantTurns < MaxAssistantTurns
        /\ ~UserLimit /\ assistantTurns \in Nat /\ userTurns \in Nat
    BY DEF Story, Turns, TypeOK
  <1>2. /\ Cardinality(RunsIn(responseMask', 1)) = Cardinality(RunsIn(responseMask, 1))
        /\ Cardinality(RunsIn(responseMask', 0)) = Cardinality(RunsIn(responseMask, 0)) + 1
        /\ responseMask'[Len(responseMask')] = 0
    BY DEF Observed
  <1>3. /\ assistantTurns' = Cardinality(RunsIn(responseMask', 1))
        /\ userTurns' = Cardinality(RunsIn(responseMask', 0))
    BY <1>1, <1>2
  <1>4. /\ MaxAssistantTurns > 0 => assistantTurns' < MaxAssistantTurns
        /\ MaxAssistantTurns > 0 => assistantTurns' <= MaxAssistantTurns
        /\ MaxUserTurns > 0 => userTurns' <= MaxUserTurns
    BY <1>1, Params DEF UserLimit
  <1>5. state' \notin {"pending", "processing_tools", "interacting"}
    OBVIOUS
  <1> QED
    BY <1>2, <1>3, <1>4, <1>5 DEF Turns, LastMark, Begun

LEMMA InteractStep ==
  ASSUME Story, Interact, UNCHANGED interaction
  PROVE  Story'
PROOF
  <1>1. PICK n \in 1..MaxMessage : Observe(Repeated(Tok("user", 0), n))
    BY DEF Interact
  <1>2. /\ state = "interacting" /\ state' \in {"generating", "terminated"}
        /\ userTurns' = userTurns + 1
        /\ UNCHANGED <<interaction, images, assistantTurns, calls, instances, answered, allValid,
                       toolRewards>>
    BY DEF Interact, callVars
  <1> DEFINE ids == Repeated(Tok("user", 0), n)
  <1>3. /\ ids \in Seq(Token) /\ Len(ids) = n /\ n \in Nat \ {0}
        /\ \A j \in 1..n : ids[j].kind = "user" /\ ids[j].call = 0
    <2>1. "user" \in Kinds /\ n \in Nat \ {0}
      BY Params DEF Kinds
    <2> QED
      BY <2>1, SameTokens
  <1> HIDE DEF ids
  <1>4. Observed(ids)
    <2>1. Order(ids)
      BY <1>3 DEF Order
    <2>2. Observe(ids)
      BY <1>1 DEF ids
    <2>3. Observing(ids)
      BY <1>2, <1>3, <2>1, <2>2 DEF Observing
    <2> QED
      BY <2>3, ObserveGrows
  <1>5. Turns' /\ LastMark' /\ Begun'
    BY <1>2, <1>4, ObservedTurns
  <1>6. TypeOK /\ instances = {} /\ interaction = TRUE
    BY <1>2 DEF Story, Calling, Room, TypeOK
  <1>7. TypeOK'
    <2>1. userTurns' \in Nat
      BY <1>2, <1>6 DEF TypeOK
    <2> QED
      BY <1>2, <1>4, <1>6, <2>1 DEF TypeOK, Observed, Token
  <1>8. Room' /\ Calling'
    BY <1>2, <1>6 DEF Room, Calling
  <1>9. Imaged'
    <2>1. promptIds \in Seq(Token) /\ \A j \in 1..Len(ids) : ids[j].kind # "image"
      BY <1>3, <1>6 DEF TypeOK, Token
    <2>2. ImagesIn(promptIds \o ids) = ImagesIn(promptIds)
      BY <1>3, <2>1, NoImages
    <2>3. promptIds' = promptIds \o ids /\ images' = images
      BY <1>1, <1>2 DEF Observe, ids
    <2> QED
      BY <2>2, <2>3 DEF Story, Imaged
  <1>10. Formatted'
    <2>1. allValid => \A i \in 1..Len(promptIds) : promptIds[i].kind # "error"
      BY DEF Story, Formatted
    <2>2. \A j \in 1..Len(ids) : ids[j].kind # "error"
      BY <1>3
    <2>3. \A i \in 1..Len(promptIds') :
            \/ i \in 1..Len(promptIds) /\ promptIds'[i] = promptIds[i]
            \/ \E j \in 1..Len(ids) : promptIds'[i] = ids[j]
      BY <1>4 DEF Observed
    <2>4. allValid => \A i \in 1..Len(promptIds') : promptIds'[i].kind # "error"
      BY <2>1, <2>2, <2>3
    <2> QED
      BY <1>2, <2>4 DEF Formatted
  <1>11. Tokens'
    BY <1>4 DEF Observed
  <1> QED
    BY <1>5, <1>7, <1>8, <1>9, <1>10, <1>11 DEF Story

LEMMA ProcessToolsStep ==
  ASSUME Story, ProcessTools, UNCHANGED interaction
  PROVE  Story'
PROOF
  <1>1. PICK n \in [DOMAIN calls -> 1..MaxMessage], lists \in ImageLists :
          /\ images' = ImagesAfter(Messages(n), lists)
          /\ userTurns' = TurnAfter(Messages(n))
          /\ IF TooLong(Messages(n))
             THEN state' = "terminated" /\ UNCHANGED <<promptIds, responseMask, logprobs>>
             ELSE Observe(Messages(n)) /\ state' = "generating"
    BY DEF ProcessTools
  <1>2. /\ state = "processing_tools" /\ Gathered
        /\ UNCHANGED <<interaction, assistantTurns, calls, instances, answered, allValid>>
    BY DEF ProcessTools, callVars
  <1>3. /\ TypeOK /\ calls \in Seq([parsed : Parsed, progress : Progress]) /\ calls # << >>
        /\ promptIds \in Seq(Token) /\ images \in Seq(Nat) /\ userTurns \in Nat
        /\ Len(responseMask) \in Nat
    BY <1>2 DEF Story, TypeOK, Calling, Token
  <1>4. toolRewards' \in Nat
    <2> DEFINE bad == {i \in DOMAIN calls : calls[i].parsed = "bad"}
    <2>1. PICK r \in Cardinality(bad)..Len(calls) : toolRewards' = toolRewards + r
      BY DEF ProcessTools
    <2>2. IsFiniteSet(1..Len(calls)) /\ bad \in SUBSET (1..Len(calls))
      <3>1. Len(calls) \in Nat /\ DOMAIN calls = 1..Len(calls)
        BY <1>3
      <3>2. IsFiniteSet(1..Len(calls))
        BY <3>1, FS_Interval
      <3> QED
        BY <3>1, <3>2
    <2>3. Cardinality(bad) \in Nat
      BY <2>2, FS_Subset, FS_CardinalityType
    <2> HIDE DEF bad
    <2>4. r \in Nat
      BY <1>3, <2>1, <2>3
    <2> QED
      BY <1>3, <2>1, <2>4 DEF TypeOK
  <1>5. instances = {}
    BY <1>2, AllDone
  <1> DEFINE ids == Messages(n)
  <1>6. Laid(ids, Len(calls))
    BY <1>3, Params, MessagesLaid
  <1> HIDE DEF ids
  <1>7. CASE TooLong(ids)
    <2>1. /\ state' = "terminated" /\ images' = images /\ userTurns' = userTurns
          /\ UNCHANGED <<promptIds, responseMask, logprobs>>
      BY <1>1, <1>7 DEF ImagesAfter, TurnAfter, ids
    <2>2. /\ Begun' /\ Tokens' /\ LastMark' /\ Imaged' /\ Turns' /\ Room'
          /\ allValid' => \A i \in 1..Len(promptIds') : promptIds'[i].kind # "error"
      <3>1. /\ state # "pending" /\ state' \in {state, "terminated", "raised"}
            /\ UNCHANGED <<interaction, tokenVars, turnVars, allValid>>
        BY <1>2, <2>1 DEF tokenVars, turnVars
      <3> QED
        BY <3>1, Kept
    <2>3. TypeOK'
      BY <1>2, <1>3, <1>4, <2>1 DEF TypeOK
    <2>4. Formatted' /\ Calling'
      BY <1>2, <1>5, <2>1, <2>2 DEF Formatted, Calling
    <2> QED
      BY <2>2, <2>3, <2>4 DEF Story
  <1>8. CASE ~TooLong(ids)
    <2>1. /\ state' = "generating" /\ Observe(ids) /\ userTurns' = userTurns + 1
          /\ images' = images \o lists
      BY <1>1, <1>8 DEF ImagesAfter, TurnAfter, ids
    <2>2. /\ ids \in Seq(Token) /\ Len(ids) > 0
          /\ \A j \in 1..Len(ids) :
               /\ ids[j].kind \in {"tool", "error", "image"} /\ ids[j].call \in 1..Len(calls)
               /\ ids[j].kind = "error" => calls[ids[j].call].parsed = "bad"
          /\ \A j \in 1..Len(ids) - 1 : ids[j + 1].call \in {ids[j].call, ids[j].call + 1}
          /\ \A p \in Seq(Token) :
               Cardinality(ImagesIn(p \o ids))
                 = Cardinality(ImagesIn(p)) + Cardinality(CallsWithImage(Len(calls)))
      BY <1>6 DEF Laid
    <2>3. Observed(ids)
      <3>1. Order(ids)
        BY <2>2 DEF Order
      <3>2. Observing(ids)
        BY <1>2, <2>1, <2>2, <3>1 DEF Observing
      <3> QED
        BY <3>2, ObserveGrows
    <2>4. Turns' /\ LastMark' /\ Begun'
      <3>1. /\ state \in {"processing_tools", "interacting"}
            /\ state' \in {"generating", "terminated"}
            /\ userTurns' = userTurns + 1 /\ assistantTurns' = assistantTurns
        BY <1>2, <2>1
      <3> QED
        BY <2>3, <3>1, ObservedTurns
    <2>5. Imaged' /\ images' \in Seq(Nat)
      <3> DEFINE k == Cardinality(CallsWithImage(Len(calls)))
      <3>1. {i \in DOMAIN calls : calls[i].progress = "image"} = CallsWithImage(Len(calls))
        BY <1>3 DEF CallsWithImage
      <3>2. promptIds' = promptIds \o ids
        BY <2>1 DEF Observe
      <3>3. Cardinality(ImagesIn(promptIds')) = Cardinality(ImagesIn(promptIds)) + k
        BY <1>3, <2>2, <3>2
      <3>4. Len(images) = Cardinality(ImagesIn(promptIds))
        BY DEF Story, Imaged
      <3>5. k \in Nat
        BY <1>3, Counts
      <3>6. lists \in [1..k -> 0..MaxImages]
        BY <3>1 DEF ImageLists
      <3> HIDE DEF k
      <3>7. lists \in Seq(Nat) /\ Len(lists) = k
        <4>1. 0..MaxImages \subseteq Nat
          BY Params
        <4> QED
          BY <3>5, <3>6, <4>1
      <3>8. images' \in Seq(Nat) /\ Len(images') = Len(images) + k
        <4>1. images \in Seq(Nat) /\ lists \in Seq(Nat) /\ images' = images \o lists
          BY <1>3, <2>1, <3>7
        <4>2. /\ images \o lists \in Seq(Nat)
              /\ Len(images \o lists) = Len(images) + Len(lists)
          BY <4>1
        <4> QED
          BY <3>7, <4>1, <4>2
      <3> QED
        BY <3>3, <3>4, <3>8 DEF Imaged
    <2>6. TypeOK'
      <3>1. userTurns' \in Nat
        BY <1>3, <2>1
      <3> QED
        BY <1>2, <1>3, <1>4, <2>1, <2>3, <2>5, <3>1 DEF TypeOK, Observed, Token
    <2>7. Room'
      <3>1. Len(responseMask') = Len(responseMask) + Len(ids)
        BY <2>3 DEF Observed
      <3>2. Len(responseMask) + Len(ids) < ResponseLength
        <4>1. Len(ids) \in Nat
          BY <2>2
        <4> QED
          BY <1>3, <1>8, <4>1, Params DEF TooLong
      <3> QED
        BY <2>1, <3>1, <3>2 DEF Room
    <2>8. Formatted'
      <3>1. allValid => /\ \A i \in 1..Len(promptIds) : promptIds[i].kind # "error"
                        /\ \A i \in 1..Len(calls) : calls[i].parsed = "good"
        BY <1>2 DEF Story, Formatted
      <3>2. allValid => \A j \in 1..Len(ids) : ids[j].kind # "error"
        BY <2>2, <3>1
      <3>3. \A i \in 1..Len(promptIds') :
              \/ i \in 1..Len(promptIds) /\ promptIds'[i] = promptIds[i]
              \/ \E j \in 1..Len(ids) : promptIds'[i] = ids[j]
        BY <2>3 DEF Observed
      <3>4. allValid => \A i \in 1..Len(promptIds') : promptIds'[i].kind # "error"
        BY <3>1, <3>2, <3>3
      <3> QED
        BY <1>2, <2>1, <3>4 DEF Formatted
    <2>9. Calling' /\ Tokens'
      BY <1>2, <1>5, <2>1, <2>3 DEF Calling, Observed
    <2> QED
      BY <2>4, <2>5, <2>6, <2>7, <2>8, <2>9 DEF Story
  <1> QED
    BY <1>7, <1>8

-----------------------------------------------------------------------------
(* The theorems.                                                           *)

LEMMA StoryAlways == Spec => []Story
PROOF
  <1>1. Init => Story
    BY Initially
  <1>2. Story /\ [Next]_vars => Story'
    <2> SUFFICES ASSUME Story, [Next]_vars PROVE Story'
      OBVIOUS
    <2>1. CASE Next
      <3>1. UNCHANGED interaction
        BY <2>1 DEF Next
      <3>2. CASE Prepare
        BY <3>1, <3>2, PrepareStep
      <3>3. CASE Refuse
        BY <3>1, <3>3, RefuseStep
      <3>4. CASE Generate
        BY <3>1, <3>4, GenerateStep
      <3>5. CASE Unsupported
        BY <3>1, <3>5, UnsupportedStep
      <3>6. CASE ProcessTools
        BY <3>1, <3>6, ProcessToolsStep
      <3>7. CASE Interact
        BY <3>1, <3>7, InteractStep
      <3>8. ASSUME NEW i \in 1..MaxCalls,
                   CallError(i) \/ Create(i) \/ Execute(i) \/ Release(i) \/ ReleaseRaises(i)
            PROVE  Story'
        BY <3>1, <3>8, CallStep
      <3> QED
        BY <2>1, <3>2, <3>3, <3>4, <3>5, <3>6, <3>7, <3>8 DEF Next
    <2>2. CASE UNCHANGED vars
      <3>1. UNCHANGED <<interaction, state, tokenVars, turnVars, callVars, allValid, toolRewards>>
        BY <2>2 DEF vars
      <3>2. CASE state = "pending"
        <4>1. Begun' /\ LastMark' /\ Room'
          BY <3>1 DEF Story, Begun, LastMark, Room, tokenVars, turnVars
        <4>2. Tokens'
          BY <3>1 DEF Story, Tokens, InStep, CallFree, Order, tokenVars
        <4>3. Imaged' /\ Turns'
          BY <3>1 DEF Story, Imaged, Turns, UserLimit, tokenVars, turnVars
        <4>4. TypeOK'
          BY <3>1 DEF Story, TypeOK, tokenVars, turnVars, callVars
        <4>5. Formatted' /\ Calling'
          BY <3>1, <3>2 DEF Story, Formatted, Calling, tokenVars, callVars
        <4> QED
          BY <4>1, <4>2, <4>3, <4>4, <4>5 DEF Story
      <3>3. CASE state # "pending"
        <4>1. /\ Begun' /\ Tokens' /\ LastMark' /\ Imaged' /\ Turns' /\ Room'
              /\ allValid' => \A i \in 1..Len(promptIds') : promptIds'[i].kind # "error"
          BY <3>1, <3>3, Kept
        <4>2. TypeOK'
          BY <3>1 DEF Story, TypeOK, tokenVars, turnVars, callVars
        <4>3. Formatted' /\ Calling'
          BY <3>1, <4>1 DEF Story, Formatted, Calling, Done, Holding, callVars
        <4> QED
          BY <4>1, <4>2, <4>3 DEF Story
      <3> QED
        BY <3>2, <3>3
    <2> QED
      BY <2>1, <2>2
  <1> QED
    BY <1>1, <1>2, PTL DEF Spec

\* However many calls an answer has, and in whatever order they are created, run, raise
\* and end, those included that a trajectory which raised has left behind: a call that is
\* done holds its tool instance only if its release raised, and a trajectory that goes on
\* has left none behind (_call_tool's finally, 490-492, and the gather, 328).
THEOREM EveryInstanceReleased == Spec => []NoInstanceLeft
PROOF
  <1>1. Story => NoInstanceLeft
    BY DEF Story, Calling, Holding, Underway, NoInstanceLeft
  <1> QED
    BY <1>1, StoryAlways, PTL

\* If the model's length is not below that of prompt and response together, as it is by
\* default, an answer that follows tool messages has room for a token: the length check
\* (396) is enough, whatever the turns were before.
THEOREM AnswersAlwaysFit ==
  ASSUME ModelLength >= PromptLength + ResponseLength
  PROVE  Spec => []RoomToAnswer
PROOF
  <1>1. Story => RoomToAnswer
    <2> SUFFICES ASSUME Story, state = "generating", ~interaction PROVE Fits
      BY DEF RoomToAnswer
    <2>1. /\ Len(promptIds) = PromptTokens + Len(responseMask) /\ Len(responseMask) \in Nat
          /\ Len(responseMask) < ResponseLength
      BY DEF Story, TypeOK, Tokens, InStep, Room
    <2> DEFINE m == Min({ResponseLength + PromptLength, ModelLength})
    <2>2. ResponseLength + PromptLength \in Int /\ ModelLength \in Int
      BY Params
    <2>3. m \in {ResponseLength + PromptLength, ModelLength}
      BY <2>2, MinPair
    <2> HIDE DEF m
    <2>4. Len(promptIds) < m
      BY <2>1, <2>3, Params
    <2> QED
      BY <2>4 DEF Fits, m
  <1> QED
    BY <1>1, StoryAlways, PTL

\* The transcript of a trajectory after the prompt, token by token.
LEMMA ResponseTokens ==
  ASSUME Story
  PROVE  /\ Len(Response) = Len(responseMask) /\ DOMAIN Response = 1..Len(responseMask)
         /\ \A i \in 1..Len(responseMask) :
              Response[i] = promptIds[(Len(promptIds) - Len(responseMask)) + i]
PROOF
  <1> DEFINE L == Len(promptIds)
             M == Len(responseMask)
  <1>1. promptIds \in Seq(Token) /\ L \in Nat /\ M \in Nat
    BY DEF Story, TypeOK, Token
  <1>2. M <= L
    <2>1. CASE state = "pending"
      BY <2>1 DEF Story, Begun
    <2>2. CASE state # "pending"
      <3>1. L = PromptTokens + M
        BY <2>2 DEF Story, Tokens, InStep
      <3> HIDE DEF L, M
      <3> QED
        BY <1>1, <3>1, Params
    <2> QED
      BY <2>1, <2>2
  <1>3. Response = SubSeq(promptIds, (L - M) + 1, L)
    BY DEF Response
  <1>4. L = Len(promptIds)
    OBVIOUS
  <1> HIDE DEF L, M
  <1>5. /\ Len(SubSeq(promptIds, (L - M) + 1, L)) = M
        /\ SubSeq(promptIds, (L - M) + 1, L) \in Seq(Token)
        /\ \A i \in 1..M : SubSeq(promptIds, (L - M) + 1, L)[i] = promptIds[(L - M) + i]
    <2>1. (L - M) + 1 \in 1..L + 1 /\ L - ((L - M) + 1) + 1 = M
      BY <1>1, <1>2
    <2>2. \A i \in 1..M : ((L - M) + 1) + i - 1 = (L - M) + i
      BY <1>1
    <2> QED
      BY <1>1, <1>2, <1>4, <2>1, <2>2
  <1> QED
    BY <1>3, <1>5 DEF L, M

\* Whatever the answers, their calls, the order in which these end, the messages and the
\* limits: tokens, mask, log-probabilities, images, the order of the messages, the
\* number of turns and the format reward agree at every point of the trajectory.
THEOREM TranscriptAlwaysConsistent == Spec => []TranscriptConsistent
PROOF
  <1>1. Story => TranscriptConsistent
    <2> SUFFICES ASSUME Story PROVE TranscriptConsistent
      OBVIOUS
    <2>1. /\ Len(Response) = Len(responseMask) /\ DOMAIN Response = 1..Len(responseMask)
          /\ \A i \in 1..Len(responseMask) :
               Response[i] = promptIds[(Len(promptIds) - Len(responseMask)) + i]
      BY ResponseTokens
    <2>2. /\ promptIds \in Seq(Token) /\ responseMask \in Seq({0, 1})
          /\ Len(promptIds) \in Nat /\ Len(responseMask) \in Nat
      BY DEF Story, TypeOK, Token
    <2>3. Aligned
      <3>1. CASE state = "pending"
        BY <2>1, <3>1 DEF Story, Begun, Aligned, Tokens
      <3>2. CASE state # "pending"
        <4>1. /\ Len(promptIds) = PromptTokens + Len(responseMask)
              /\ \A i \in 1..Len(responseMask) :
                   responseMask[i] = 1 <=> promptIds[PromptTokens + i].kind = "generated"
              /\ LogProbs => logprobs = responseMask
          BY <3>2 DEF Story, Tokens, InStep
        <4>2. Len(promptIds) - Len(responseMask) = PromptTokens
          BY <2>2, <4>1, Params
        <4>3. \A i \in 1..Len(responseMask) : Response[i] = promptIds[PromptTokens + i]
          BY <2>1, <4>2
        <4> QED
          BY <2>1, <4>1, <4>3 DEF Aligned
      <3> QED
        BY <3>1, <3>2
    <2>4. MessagesInOrder
      <3> SUFFICES ASSUME NEW i \in 1..Len(Response) - 1,
                          Response[i].call > 0, Response[i + 1].call > 0
                   PROVE  Response[i + 1].call \in {Response[i].call, Response[i].call + 1}
        BY DEF MessagesInOrder
      <3> DEFINE j == (Len(promptIds) - Len(responseMask)) + i
      <3>1. /\ i \in 1..Len(responseMask) /\ i + 1 \in 1..Len(responseMask)
            /\ (Len(promptIds) - Len(responseMask)) + (i + 1) = j + 1
            /\ j \in 1..Len(promptIds) - 1
        <4>1. Len(responseMask) <= Len(promptIds)
          <5>1. CASE state = "pending"
            BY <5>1 DEF Story, Begun
          <5>2. CASE state # "pending"
            <6>1. Len(promptIds) = PromptTokens + Len(responseMask)
              BY <5>2 DEF Story, Tokens, InStep
            <6> QED
              BY <2>2, <6>1, Params
          <5> QED
            BY <5>1, <5>2
        <4> QED
          BY <2>1, <2>2, <4>1
      <3>2. Response[i] = promptIds[j] /\ Response[i + 1] = promptIds[j + 1]
        BY <2>1, <3>1
      <3> HIDE DEF j
      <3>3. Order(promptIds)
        BY DEF Story, Tokens
      <3> QED
        BY <3>1, <3>2, <3>3 DEF Order
    <2>5. ImagesMatch
      <3>1. {i \in DOMAIN promptIds : promptIds[i].kind = "image"} = ImagesIn(promptIds)
        BY <2>2 DEF ImagesIn
      <3> QED
        BY <3>1 DEF Story, Imaged, ImagesMatch
    <2>6. TurnsMatch
      <3>1. \A m : Runs(m) = Cardinality(RunsIn(responseMask, m))
        <4>1. DOMAIN responseMask = 1..Len(responseMask)
          BY <2>2
        <4> SUFFICES ASSUME NEW m PROVE Runs(m) = Cardinality(RunsIn(responseMask, m))
          OBVIOUS
        <4>2. {i \in DOMAIN responseMask :
                 responseMask[i] = m /\ (i = 1 \/ responseMask[i - 1] # m)}
                = RunsIn(responseMask, m)
          BY <4>1 DEF RunsIn
        <4> QED
          BY <4>2 DEF Runs
      <3> QED
        BY <3>1 DEF Story, Turns, TurnsMatch
    <2>7. FormatOfTrajectory
      BY <2>2 DEF Story, Formatted, FormatOfTrajectory
    <2> QED
      BY <2>3, <2>4, <2>5, <2>6, <2>7 DEF Story, TranscriptConsistent
  <1> QED
    BY <1>1, StoryAlways, PTL
=============================================================================
