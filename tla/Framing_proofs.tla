--------------------------- MODULE Framing_proofs ---------------------------
(***************************************************************************)
(* Proofs about UbxFrame and Framing, for any lines, any capacity and any  *)
(* cut of the line into reads.                                             *)
(***************************************************************************)
EXTENDS Framing, SequenceTheorems, WellFoundedInduction, TLAPS

-----------------------------------------------------------------------------
(* Numbers and sequences.                                                  *)

LEMMA LeastNat ==
  ASSUME NEW T, T \subseteq Nat, T # {}
  PROVE  \E x \in T : \A y \in T : x <= y
<1> DEFINE R == OpToRel(<, Nat)
<1>1. IsWellFoundedOn(R, Nat)
  BY NatLessThanWellFounded
<1>2. \A x, y \in Nat : <<x, y>> \in R <=> x < y
  BY DEF OpToRel
<1> HIDE DEF R
<1>3. PICK x \in T : \A y \in T : ~(<<y, x>> \in R)
  BY <1>1, WFMin
<1>4. ASSUME NEW y \in T PROVE x <= y
  <2>1. x \in Nat /\ y \in Nat /\ ~(<<y, x>> \in R)
    BY <1>3
  <2>2. ~(y < x)
    BY <1>2, <2>1
  <2> QED BY <2>1, <2>2
<1> QED BY <1>4

\* Op[i] makes the i-th value out of the one before; F has the values.
StepsOf(Op, N, S) == Op \in [1 .. N -> [S -> S]]
Follow(F, Op, N, S, first) ==
  /\ F \in [0 .. N -> S] /\ F[0] = first
  /\ \A i \in 1 .. N : F[i] = Op[i][F[i - 1]]

\* A function defined step by step along the naturals exists.
LEMMA Recursion ==
  ASSUME NEW S, NEW N \in Nat, NEW first \in S, NEW Op, StepsOf(Op, N, S)
  PROVE  \E F : Follow(F, Op, N, S, first)
<1>3. Op \in [1 .. N -> [S -> S]]
  BY DEF StepsOf
<1> DEFINE Solves(F, m) == /\ F \in [0 .. m -> S] /\ F[0] = first
                           /\ \A i \in 1 .. m : F[i] = Op[i][F[i - 1]]
           T == {m \in 0 .. N : ~ \E F : Solves(F, m)}
<1>1. T = {}
  <2>1. SUFFICES ASSUME T # {} PROVE FALSE
    OBVIOUS
  <2>2. T \subseteq Nat
    OBVIOUS
  <2>3. PICK m \in T : \A y \in T : m <= y
    <3> HIDE DEF T
    <3> QED BY <2>1, <2>2, LeastNat
  <2>4. m \in 0 .. N /\ ~ \E F : Solves(F, m)
    OBVIOUS
  <2>5. CASE m = 0
    <3> DEFINE F == [i \in 0 .. 0 |-> first]
    <3>1. Solves(F, 0)
      OBVIOUS
    <3> QED BY <2>4, <2>5, <3>1
  <2>6. CASE m # 0
    <3>1. m - 1 \in 0 .. N /\ m - 1 \notin T
      <4> HIDE DEF T, Solves
      <4> QED BY <2>3, <2>4, <2>6
    <3>2. PICK F : Solves(F, m - 1)
      BY <3>1
    <3> DEFINE G == [i \in 0 .. m |-> IF i = m THEN Op[m][F[m - 1]] ELSE F[i]]
    <3>3. m \in 1 .. N /\ F[m - 1] \in S
      BY <2>4, <2>6, <3>1, <3>2
    <3>4. Op[m][F[m - 1]] \in S
      BY <1>3, <3>3
    <3>5. G \in [0 .. m -> S] /\ G[0] = first
      BY <2>6, <3>2, <3>3, <3>4
    <3>6. ASSUME NEW i \in 1 .. m PROVE G[i] = Op[i][G[i - 1]]
      <4>1. i - 1 \in 0 .. m /\ i - 1 # m /\ G[i - 1] = F[i - 1]
        BY <3>3
      <4>2. CASE i = m
        BY <3>3, <4>1, <4>2
      <4>3. CASE i # m
        <5>1. i \in 1 .. m - 1
          BY <3>3, <4>3
        <5>2. F[i] = Op[i][F[i - 1]]
          BY <3>2, <5>1
        <5> QED BY <4>1, <4>3, <5>2
      <4> QED BY <4>2, <4>3
    <3>7. Solves(G, m)
      BY <3>5, <3>6
    <3> QED BY <2>4, <3>7
  <2> QED BY <2>5, <2>6
<1>2. N \in 0 .. N /\ N \notin T
  <2> HIDE DEF T
  <2> QED BY <1>1
<1> QED BY <1>2 DEF Follow

\* FlattenSeq(): what it concatenates, step by step.
LEMMA FlattenSteps ==
  ASSUME NEW S, NEW ss \in Seq(Seq(S))
  PROVE  \E F : /\ F[0] = <<>> /\ FlattenSeq(ss) = F[Len(ss)]
                /\ \A i \in 1 .. Len(ss) : F[i] = F[i - 1] \o ss[i]
<1> DEFINE N == Len(ss)
<1>1. N \in Nat /\ \A i \in 1 .. N : ss[i] \in Seq(S)
  OBVIOUS
<1>2. CASE N = 0
  <2>1. ss = <<>> /\ FlattenSeq(ss) = ss
    BY <1>2, EmptySeq DEF FlattenSeq
  <2> DEFINE F == [i \in {0} |-> <<>>]
  <2>2. F[0] = <<>> /\ FlattenSeq(ss) = F[Len(ss)] /\ 1 .. Len(ss) = {}
    BY <1>2, <2>1
  <2> HIDE DEF F
  <2> QED BY <2>2
<1>3. CASE N # 0
  <2> DEFINE Step(f, i) == IF i = 1 THEN ss[i] ELSE f[i - 1] \o ss[i]
             flatten == CHOOSE f : f = [i \in 1 .. N |-> Step(f, i)]
             Op == [i \in 1 .. N |-> [x \in Seq(S) |-> x \o ss[i]]]
  <2>1. FlattenSeq(ss) = flatten[N]
    BY <1>3 DEF FlattenSeq
  <2> HIDE DEF N
  <2>2. Op \in [1 .. N -> [Seq(S) -> Seq(S)]]
    BY <1>1
  <2>3. \A i \in 1 .. N : \A x \in Seq(S) : Op[i][x] = x \o ss[i]
    OBVIOUS
  <2> HIDE DEF Op
  <2>4. <<>> \in Seq(S)
    OBVIOUS
  <2>5. PICK F \in [0 .. N -> Seq(S)] :
          F[0] = <<>> /\ \A i \in 1 .. N : F[i] = Op[i][F[i - 1]]
    <3> DEFINE V == Seq(S)
    <3>1. <<>> \in V /\ Op \in [1 .. N -> [V -> V]]
      BY <2>2, <2>4
    <3>2. N \in Nat
      BY <1>1
    <3> HIDE DEF V
    <3>4. PICK first \in V : first = <<>>
      BY <3>1
    <3>5. StepsOf(Op, N, V)
      BY <3>1 DEF StepsOf
    <3>3. PICK F : Follow(F, Op, N, V, first)
      BY <3>2, <3>5, Recursion
    <3> QED BY <3>3, <3>4 DEF V, Follow
  <2>6. ASSUME NEW i \in 1 .. N PROVE F[i - 1] \in Seq(S) /\ F[i] = F[i - 1] \o ss[i]
    <3>1. i - 1 \in 0 .. N
      BY <1>1
    <3>2. F[i - 1] \in Seq(S)
      BY <2>5, <3>1
    <3> QED BY <2>3, <2>5, <3>2
  <2> DEFINE f == [i \in 1 .. N |-> F[i]]
  <2>7. ASSUME NEW i \in 1 .. N PROVE f[i] = Step(f, i)
    <3>1. CASE i = 1
      <4>1. F[1] = <<>> \o ss[1] /\ ss[1] \in Seq(S)
        <5>1. 1 \in 1 .. N /\ 1 - 1 = 0
          BY <3>1
        <5>2. F[1] = F[0] \o ss[1]
          BY <2>6, <5>1
        <5> QED BY <1>1, <2>5, <5>1, <5>2
      <4>2. <<>> \o ss[1] = ss[1]
        BY <4>1, ConcatEmptySeq
      <4> QED BY <3>1, <4>1, <4>2
    <3>2. CASE i # 1
      <4>1. i - 1 \in 1 .. N
        BY <1>1, <3>2
      <4> QED BY <2>6, <3>2, <4>1
    <3> QED BY <3>1, <3>2
  <2>8. f = [i \in 1 .. N |-> Step(f, i)]
    <3>1. f = [i \in 1 .. N |-> f[i]]
      OBVIOUS
    <3> HIDE DEF f, Step
    <3> QED BY <2>7, <3>1
  <2>9. flatten = [i \in 1 .. N |-> Step(flatten, i)]
    <3> HIDE DEF f, Step
    <3> QED BY <2>8
  <2> HIDE DEF flatten
  <2>10. \A i \in 1 .. N : flatten[i] = Step(flatten, i)
    <3> HIDE DEF Step
    <3> QED BY <2>9
  <2> DEFINE G == [i \in 0 .. N |-> IF i = 0 THEN <<>> ELSE flatten[i]]
  <2>11. G[0] = <<>> /\ \A i \in 1 .. N : G[i] = flatten[i]
    BY <1>1
  <2> HIDE DEF G
  <2>12. ASSUME NEW i \in 1 .. N PROVE G[i] = G[i - 1] \o ss[i]
    <3>1. CASE i = 1
      <4>1. G[i] = ss[1] /\ G[i - 1] = <<>> /\ ss[1] \in Seq(S)
        BY <1>1, <2>10, <2>11, <3>1
      <4>2. <<>> \o ss[1] = ss[1]
        BY <4>1, ConcatEmptySeq
      <4> QED BY <3>1, <4>1, <4>2
    <3>2. CASE i # 1
      <4>1. i - 1 \in 1 .. N
        BY <1>1, <3>2
      <4> QED BY <2>10, <2>11, <3>2, <4>1
    <3> QED BY <3>1, <3>2
  <2>13. N \in 1 .. N
    BY <1>1, <1>3
  <2>14. FlattenSeq(ss) = G[N]
    BY <2>1, <2>11, <2>13
  <2> QED BY <2>11, <2>12, <2>14 DEF N
<1> QED BY <1>2, <1>3

\* Q has the lengths of the first sequences of ss together.
Lengths(Q, ss) ==
  /\ Q \in [0 .. Len(ss) -> Nat] /\ Q[0] = 0
  /\ \A i \in 1 .. Len(ss) : Q[i] = Q[i - 1] + Len(ss[i])

\* h is the sequences of ss one behind the other, the i-th one behind Q[i - 1] items.
Joined(h, ss, Q, S) ==
  /\ h \in Seq(S) /\ Len(h) = Q[Len(ss)]
  /\ \A i \in 1 .. Len(ss) : \A b \in 1 .. Len(ss[i]) :
       Q[i - 1] + b \in 1 .. Q[Len(ss)] /\ h[Q[i - 1] + b] = ss[i][b]

\* Where FlattenSeq() puts each item of each sequence.
LEMMA FlattenPlaces ==
  ASSUME NEW S, NEW ss, ss \in Seq(Seq(S)), NEW Q, Lengths(Q, ss)
  PROVE  Joined(FlattenSeq(ss), ss, Q, S)
<1> DEFINE N == Len(ss)
<1>1. N \in Nat /\ \A i \in 1 .. N : ss[i] \in Seq(S) /\ Len(ss[i]) \in Nat
  OBVIOUS
<1>2. Q \in [0 .. N -> Nat] /\ Q[0] = 0 /\ \A i \in 1 .. N : Q[i] = Q[i - 1] + Len(ss[i])
  BY DEF Lengths
<1>3. PICK F : /\ F[0] = <<>> /\ FlattenSeq(ss) = F[N]
               /\ \A i \in 1 .. N : F[i] = F[i - 1] \o ss[i]
  BY FlattenSteps
<1> HIDE DEF N
<1> DEFINE Good(m) == /\ F[m] \in Seq(S) /\ Len(F[m]) = Q[m]
                      /\ \A i \in 1 .. m : \A b \in 1 .. Len(ss[i]) :
                           /\ Q[i - 1] + b \in 1 .. Q[m]
                           /\ F[m][Q[i - 1] + b] = ss[i][b]
           T == {m \in 0 .. N : ~Good(m)}
<1>4. Good(0)
  BY <1>2, <1>3
<1>5. ASSUME NEW m \in 1 .. N, Good(m - 1) PROVE Good(m)
  <2> DEFINE s == F[m - 1]
             t == ss[m]
  <2>1. s \in Seq(S) /\ t \in Seq(S) /\ F[m] = s \o t /\ Len(s) = Q[m - 1] /\ Len(t) \in Nat
    BY <1>1, <1>3, <1>5
  <2>2. Q[m - 1] \in Nat /\ Q[m] = Q[m - 1] + Len(t)
    BY <1>1, <1>2
  <2>3. \A i \in 1 .. m - 1 : \A b \in 1 .. Len(ss[i]) :
          Q[i - 1] + b \in 1 .. Q[m - 1] /\ s[Q[i - 1] + b] = ss[i][b]
    BY <1>5
  <2>8. t = ss[m]
    OBVIOUS
  <2> HIDE DEF s, t
  <2>4. /\ s \o t \in Seq(S) /\ Len(s \o t) = Len(s) + Len(t)
        /\ \A k \in 1 .. Len(s) + Len(t) :
             (s \o t)[k] = IF k <= Len(s) THEN s[k] ELSE t[k - Len(s)]
    BY <2>1, ConcatProperties
  <2>5. F[m] \in Seq(S) /\ Len(F[m]) = Q[m]
    BY <2>1, <2>2, <2>4
  <2>6. ASSUME NEW i \in 1 .. m, NEW b \in 1 .. Len(ss[i])
        PROVE  Q[i - 1] + b \in 1 .. Q[m] /\ F[m][Q[i - 1] + b] = ss[i][b]
    <3>1. CASE i = m
      <4> DEFINE k == Q[m - 1] + b
      <4>1. b \in 1 .. Len(t)
        BY <2>8, <3>1
      <4>2. k \in 1 .. Q[m] /\ ~(k <= Len(s)) /\ k - Len(s) = b /\ k \in 1 .. Len(s) + Len(t)
        <5>1. PICK c \in Nat, n \in Nat : c = Q[m - 1] /\ n = Len(t)
          BY <2>1, <2>2
        <5>2. Len(s) = c /\ Q[m] = c + n /\ b \in 1 .. n
          BY <2>1, <2>2, <4>1, <5>1
        <5> QED BY <5>1, <5>2
      <4> HIDE DEF k
      <4>3. F[m][k] = t[b]
        BY <2>1, <2>4, <4>2
      <4> QED BY <2>8, <3>1, <4>2, <4>3 DEF k
    <3>2. CASE i # m
      <4>1. i \in 1 .. m - 1
        BY <1>1, <3>2
      <4> DEFINE k == Q[i - 1] + b
      <4>2. k \in 1 .. Q[m - 1] /\ s[k] = ss[i][b]
        BY <2>3, <4>1
      <4> HIDE DEF k
      <4>3. k \in 1 .. Q[m] /\ k <= Len(s) /\ k \in 1 .. Len(s) + Len(t)
        BY <2>1, <2>2, <4>2
      <4>4. F[m][k] = ss[i][b]
        BY <2>1, <2>4, <4>2, <4>3
      <4> QED BY <4>3, <4>4 DEF k
    <3> QED BY <3>1, <3>2
  <2> QED BY <2>5, <2>6
<1>6. T = {}
  <2>1. SUFFICES ASSUME T # {} PROVE FALSE
    OBVIOUS
  <2>2. PICK m \in T : \A y \in T : m <= y
    <3>1. T \subseteq Nat
      OBVIOUS
    <3> HIDE DEF T
    <3> QED BY <2>1, <3>1, LeastNat
  <2>3. m \in 0 .. N /\ ~Good(m)
    OBVIOUS
  <2>4. m # 0
    <3> HIDE DEF Good
    <3> QED BY <1>4, <2>3
  <2>5. m \in 1 .. N /\ m - 1 \in 0 .. N /\ m - 1 \notin T
    <3> HIDE DEF T, Good
    <3> QED BY <1>1, <2>2, <2>3, <2>4
  <2>6. Good(m - 1)
    <3> HIDE DEF Good
    <3> QED BY <2>5
  <2> HIDE DEF Good
  <2> QED BY <1>5, <2>3, <2>5, <2>6
<1>7. N \in 0 .. N /\ N \notin T
  <2> HIDE DEF T
  <2> QED BY <1>1, <1>6
<1>8. Good(N)
  <2> HIDE DEF Good
  <2> QED BY <1>7
<1> QED BY <1>3, <1>8 DEF N, Joined

LEMMA LengthsExist ==
  ASSUME NEW S, NEW ss \in Seq(Seq(S))
  PROVE  \E Q : Lengths(Q, ss)
<1> DEFINE N == Len(ss)
           Op == [i \in 1 .. N |-> [x \in Nat |-> x + Len(ss[i])]]
<1>1. N \in Nat /\ \A i \in 1 .. N : Len(ss[i]) \in Nat
  <2>1. N \in Nat /\ \A i \in 1 .. N : ss[i] \in Seq(S)
    OBVIOUS
  <2> HIDE DEF N
  <2> QED BY <2>1
<1> HIDE DEF N
<1>2. Op \in [1 .. N -> [Nat -> Nat]]
  BY <1>1
<1>3. \A i \in 1 .. N : \A x \in Nat : Op[i][x] = x + Len(ss[i])
  OBVIOUS
<1> HIDE DEF Op
<1>4. StepsOf(Op, N, Nat)
  BY <1>2 DEF StepsOf
<1>5. PICK zero \in Nat : zero = 0
  OBVIOUS
<1>6. PICK F : Follow(F, Op, N, Nat, zero)
  BY <1>1, <1>4, <1>5, Recursion
<1>7. F \in [0 .. N -> Nat] /\ F[0] = 0 /\ \A i \in 1 .. N : F[i] = Op[i][F[i - 1]]
  BY <1>5, <1>6 DEF Follow
<1>8. ASSUME NEW i \in 1 .. N PROVE F[i] = F[i - 1] + Len(ss[i])
  <2>1. i - 1 \in 0 .. N
    BY <1>1
  <2>2. F[i - 1] \in Nat
    BY <1>7, <2>1
  <2> QED BY <1>3, <1>7, <2>2
<1> QED BY <1>7, <1>8 DEF Lengths, N

LEMMA FlattenType ==
  ASSUME NEW S, NEW ss \in Seq(Seq(S))
  PROVE  FlattenSeq(ss) \in Seq(S)
<1>1. PICK Q : Lengths(Q, ss)
  BY LengthsExist
<1>2. Joined(FlattenSeq(ss), ss, Q, S)
  BY <1>1, FlattenPlaces
<1> QED BY <1>2 DEF Joined

\* Reader::search(), for every buffer: it stops at the first place where a
\* frame may start, or at the end.
LEMMA SearchStops ==
  ASSUME NEW b \in Seq(Byte)
  PROVE  /\ Skipped(b) \in 0 .. Len(b)
         /\ Skipped(b) < Len(b) => Starts(b, Skipped(b) + 1)
         /\ \A i \in 1 .. Skipped(b) : ~Starts(b, i)
<1> DEFINE Stops(n) == /\ n < Len(b) => Starts(b, n + 1)
                       /\ \A i \in 1 .. n : ~Starts(b, i)
           T == {i \in 1 .. Len(b) : Starts(b, i)}
<1>1. \E n \in 0 .. Len(b) : Stops(n)
  <2>1. CASE T = {}
    <3>1. Len(b) \in 0 .. Len(b) /\ \A i \in 1 .. Len(b) : ~Starts(b, i)
      BY <2>1
    <3>2. Stops(Len(b))
      BY <3>1
    <3> QED BY <3>1, <3>2
  <2>2. CASE T # {}
    <3>1. T \subseteq Nat
      OBVIOUS
    <3>2. PICK m \in T : \A y \in T : m <= y
      <4> HIDE DEF T
      <4> QED BY <2>2, <3>1, LeastNat
    <3>3. m \in 1 .. Len(b) /\ Starts(b, m)
      OBVIOUS
    <3>4. ASSUME NEW i \in 1 .. m - 1 PROVE ~Starts(b, i)
      <4>1. i \in 1 .. Len(b) /\ ~(m <= i)
        BY <3>3
      <4> QED BY <3>2, <4>1
    <3>5. m - 1 \in 0 .. Len(b) /\ m - 1 + 1 = m
      BY <3>3
    <3>6. Stops(m - 1)
      BY <3>3, <3>4, <3>5
    <3> QED BY <3>5, <3>6
  <2> QED BY <2>1, <2>2
<1>2. Skipped(b) = CHOOSE n \in 0 .. Len(b) : Stops(n)
  BY DEF Skipped
<1> HIDE DEF Stops
<1>3. Skipped(b) \in 0 .. Len(b) /\ Stops(Skipped(b))
  BY <1>1, <1>2
<1> QED BY <1>3 DEF Stops

LEMMA FromType ==
  ASSUME NEW b \in Seq(Byte), NEW n \in 0 .. Len(b)
  PROVE  From(b, n) \in Seq(Byte) /\ Len(From(b, n)) = Len(b) - n
<1>1. n + 1 \in Int /\ Len(b) \in Int /\ \A i \in n + 1 .. Len(b) : b[i] \in Byte
  OBVIOUS
<1>2. /\ SubSeq(b, n + 1, Len(b)) \in Seq(Byte)
      /\ Len(SubSeq(b, n + 1, Len(b))) =
           IF n + 1 <= Len(b) THEN Len(b) - (n + 1) + 1 ELSE 0
  BY <1>1, SubSeqProperties
<1> QED BY <1>2 DEF From

LEMMA PrefixType ==
  ASSUME NEW b \in Seq(Byte), NEW n \in 0 .. Len(b)
  PROVE  SubSeq(b, 1, n) \in Seq(Byte) /\ Len(SubSeq(b, 1, n)) = n
<1>1. n \in Int /\ \A i \in 1 .. n : b[i] \in Byte
  OBVIOUS
<1> QED BY <1>1, SubSeqProperties

\* A frame that was found lies inside the buffer.
LEMMA FoundFits ==
  ASSUME NEW b \in Seq(Byte), Found(b)
  PROVE  FrameSize(b) \in WrapperLength .. Len(b)
<1>1. Len(b) \in Nat /\ Len(b) >= 8 /\ Len(b) >= FrameSize(b)
  BY DEF Found, WrapperLength, HeaderLength, ChecksumLength
<1>2. b[5] \in 0 .. 255 /\ b[6] \in 0 .. 255
  <2>1. 5 \in 1 .. Len(b) /\ 6 \in 1 .. Len(b)
    BY <1>1
  <2>2. b[5] \in Byte /\ b[6] \in Byte
    BY <2>1
  <2> QED BY <2>2 DEF Byte
<1>3. FrameSize(b) = 256 * b[6] + b[5] + 8
  BY DEF FrameSize, PayloadLength, WrapperLength, HeaderLength, ChecksumLength
<1>4. FrameSize(b) \in Nat /\ FrameSize(b) >= 8
  <2> DEFINE low == b[5]
             high == b[6]
  <2>1. low \in 0 .. 255 /\ high \in 0 .. 255 /\ FrameSize(b) = 256 * high + low + 8
    BY <1>2, <1>3
  <2> HIDE DEF low, high
  <2> QED BY <2>1
<1> QED BY <1>1, <1>4 DEF WrapperLength, HeaderLength, ChecksumLength

-----------------------------------------------------------------------------
(* The inductive invariant: in_ has room whenever a read is posted, the    *)
(* Reader never holds more than in_ can, and found_ is never stale.        *)

Reading ==
  /\ pc \in {"posted", "reading", "searching", "handling", "ending"}
  /\ transport \in {"stream", "datagram"}
  /\ rest \in Seq(Seq(Byte))
  /\ errors \in 0 .. MaxErrors

Room ==
  /\ in \in Seq(Byte) /\ Len(in) <= Capacity
  /\ pc = "reading" => Len(in) < Capacity

Searching ==
  /\ buf \in Seq(Byte) /\ Len(buf) <= Capacity
  /\ extra \in Seq(Byte)
  /\ found \in BOOLEAN
  /\ found => Found(buf)
  /\ pc = "handling" => found

IInv == Reading /\ Room /\ Searching

LEMMA CapacityType == Capacity \in Nat /\ Capacity >= 8 /\ MaxErrors \in Nat
BY FramingAssumption DEF WrapperLength, HeaderLength, ChecksumLength

LEMMA BytesOfLine ==
  ASSUME line \in Lines
  PROVE  PieceBytes(line) \in Seq(Seq(Byte))
<1> DEFINE Pieces == [kind : Kinds, bytes : Seq(Byte)]
<1>1. \A piece \in Pieces : piece.bytes \in Seq(Byte)
  OBVIOUS
<1>2. line \in Seq(Pieces)
  BY FramingAssumption
<1> HIDE DEF Pieces
<1>3. Len(line) \in Nat /\ \A i \in 1 .. Len(line) : line[i] \in Pieces
  BY <1>2
<1> QED BY <1>1, <1>3 DEF PieceBytes

LEMMA InitInv ==
  ASSUME Init
  PROVE  IInv
<1> DEFINE bytes == PieceBytes(line)
<1>1. bytes \in Seq(Seq(Byte))
  BY BytesOfLine DEF Init
<1>2. FlattenSeq(bytes) \in Seq(Byte)
  BY <1>1, FlattenType
<1> HIDE DEF bytes
<1>3. rest \in Seq(Seq(Byte))
  <2> DEFINE stream == FlattenSeq(bytes)
  <2>1. rest = <<stream>> \/ rest = bytes
    BY DEF Init, bytes
  <2>2. stream \in Seq(Byte)
    BY <1>2
  <2> HIDE DEF stream
  <2>3. <<stream>> \in Seq(Seq(Byte))
    BY <2>2
  <2> QED BY <1>1, <2>1, <2>3
<1>4. <<>> \in Seq(Byte) /\ Len(<<>>) = 0
  OBVIOUS
<1>5. Reading
  <2>1. transport \in {"stream", "datagram"}
    BY FramingAssumption DEF Init
  <2> QED BY <1>3, <2>1, CapacityType DEF Init, Reading
<1>6. Room
  BY <1>4, CapacityType DEF Init, Room
<1>7. Searching
  <2>1. found \in BOOLEAN /\ ~found /\ pc # "handling"
    BY DEF Init
  <2>2. buf = <<>> /\ extra = <<>>
    BY DEF Init
  <2> QED BY <1>4, <2>1, <2>2, CapacityType DEF Searching
<1> QED BY <1>5, <1>6, <1>7 DEF IInv

LEMMA DoReadKeeps ==
  ASSUME IInv, DoRead
  PROVE  IInv'
<1>1. pc' = "reading" /\ in' = MakeRoom(in)
        /\ UNCHANGED <<line, transport, rest, buf, found, extra, errors>>
  BY DEF DoRead, reader
<1>2. in' \in Seq(Byte) /\ Len(in') < Capacity
  <2>1. CASE Capacity - Len(in) = 0
    <3>1. in' = <<>>
      BY <1>1, <2>1 DEF MakeRoom
    <3> QED BY <3>1, CapacityType
  <2>2. CASE Capacity - Len(in) # 0
    <3>1. in' = in
      BY <1>1, <2>2 DEF MakeRoom
    <3> QED BY <2>2, <3>1, CapacityType DEF IInv, Room
  <2> QED BY <2>1, <2>2
<1>3. Reading'
  BY <1>1 DEF IInv, Reading
<1>4. Room'
  BY <1>2, CapacityType DEF Room
<1>5. Searching'
  BY <1>1 DEF IInv, Searching
<1> QED BY <1>3, <1>4, <1>5 DEF IInv

LEMMA ReadEndKeeps ==
  ASSUME IInv, ReadEnd
  PROVE  IInv'
<1>1. rest \in Seq(Seq(Byte)) /\ rest # <<>> /\ pc = "reading"
  BY DEF ReadEnd, IInv, Reading
<1>2. Head(rest) \in Seq(Byte) /\ Tail(rest) \in Seq(Seq(Byte))
  BY <1>1, HeadTailProperties
<1> DEFINE h == Head(rest)
<1>3. PICK n \in Transfers(h, Capacity - Len(in)) :
        in' = in \o SubSeq(h, 1, n) /\ rest' = Unread(h, n)
  BY DEF ReadEnd
<1>4. /\ buf' = in' /\ found' = FALSE /\ extra' = <<>> /\ pc' = "searching"
      /\ UNCHANGED <<line, transport, errors>>
  BY DEF ReadEnd
<1> HIDE DEF h
<1>5. h \in Seq(Byte) /\ Len(h) \in Nat
  BY <1>2 DEF h
<1>6. in \in Seq(Byte) /\ Len(in) \in Nat /\ Len(in) < Capacity
  BY <1>1 DEF IInv, Room
<1>7. n \in 0 .. Len(h) /\ Len(in) + n <= Capacity
  <2> DEFINE most == IF Len(h) < Capacity - Len(in) THEN Len(h) ELSE Capacity - Len(in)
  <2>1. most \in 0 .. Len(h) /\ Len(in) + most <= Capacity
    BY <1>5, <1>6, CapacityType
  <2>2. n \in 1 .. most \/ n = most
    BY <1>3 DEF Transfers
  <2> HIDE DEF most
  <2> QED BY <1>5, <1>6, <2>1, <2>2, CapacityType
<1>8. SubSeq(h, 1, n) \in Seq(Byte) /\ Len(SubSeq(h, 1, n)) = n
  BY <1>5, <1>7, PrefixType
<1>9. in' \in Seq(Byte) /\ Len(in') = Len(in) + n
  BY <1>3, <1>6, <1>8, ConcatProperties
<1>10. rest' \in Seq(Seq(Byte))
  <2>1. CASE transport = "stream" /\ n < Len(h)
    <3>1. rest' = <<From(h, n)>> \o Tail(rest)
      BY <1>3, <2>1 DEF Unread
    <3>2. <<From(h, n)>> \in Seq(Seq(Byte))
      BY <1>5, <1>7, FromType
    <3> QED BY <1>2, <3>1, <3>2, ConcatProperties
  <2>2. CASE ~(transport = "stream" /\ n < Len(h))
    BY <1>2, <1>3, <2>2 DEF Unread
  <2> QED BY <2>1, <2>2
<1>11. Reading'
  BY <1>4, <1>10 DEF IInv, Reading
<1>12. Room'
  BY <1>4, <1>6, <1>7, <1>9 DEF Room
<1>13. Searching'
  <2>1. /\ buf' \in Seq(Byte) /\ Len(buf') <= Capacity /\ extra' \in Seq(Byte)
        /\ found' \in BOOLEAN /\ ~found' /\ pc' # "handling"
    <3>1. found' \in BOOLEAN /\ ~found' /\ pc' # "handling"
      BY <1>4
    <3>2. extra' \in Seq(Byte)
      BY <1>4
    <3>3. buf' \in Seq(Byte) /\ Len(buf') <= Capacity
      BY <1>4, <1>7, <1>9
    <3> QED BY <3>1, <3>2, <3>3
  <2> QED BY <2>1 DEF Searching
<1> QED BY <1>11, <1>12, <1>13 DEF IInv

LEMMA SearchKeeps ==
  ASSUME IInv, Search
  PROVE  IInv'
<1> DEFINE b == Passed(buf)
           n == Skipped(b)
<1>1. b \in Seq(Byte) /\ Len(b) <= Len(buf)
  <2>1. CASE found
    <3>1. FrameSize(buf) \in 0 .. Len(buf)
      <4>1. FrameSize(buf) \in 8 .. Len(buf)
        BY <2>1, FoundFits DEF IInv, Searching, WrapperLength, HeaderLength, ChecksumLength
      <4> QED BY <4>1
    <3>2. From(buf, FrameSize(buf)) \in Seq(Byte)
            /\ Len(From(buf, FrameSize(buf))) = Len(buf) - FrameSize(buf)
      BY <3>1, FromType DEF IInv, Searching
    <3>3. Len(buf) \in Nat
      BY DEF IInv, Searching
    <3> QED BY <2>1, <3>1, <3>2, <3>3 DEF Passed
  <2>2. CASE ~found
    BY <2>2 DEF Passed, IInv, Searching
  <2> QED BY <2>1, <2>2
<1>2. /\ buf' = From(b, n) /\ extra' = extra \o SubSeq(b, 1, n)
      /\ found' = Found(buf') /\ pc' = (IF found' THEN "handling" ELSE "ending")
      /\ UNCHANGED <<line, transport, rest, in, errors>>
  BY DEF Search
<1> HIDE DEF b
<1>3. n \in 0 .. Len(b)
  BY <1>1, SearchStops
<1> HIDE DEF n
<1>4. From(b, n) \in Seq(Byte) /\ Len(From(b, n)) = Len(b) - n
  BY <1>1, <1>3, FromType
<1>5. SubSeq(b, 1, n) \in Seq(Byte)
  BY <1>1, <1>3, PrefixType
<1>6. extra' \in Seq(Byte)
  BY <1>2, <1>5, ConcatProperties DEF IInv, Searching
<1>7. buf' \in Seq(Byte) /\ Len(buf') <= Capacity
  <2>1. Len(b) \in Nat /\ Len(buf) \in Nat /\ Len(buf) <= Capacity
    BY <1>1 DEF IInv, Searching
  <2> QED BY <1>1, <1>2, <1>3, <1>4, <2>1, CapacityType
<1>8. found' \in BOOLEAN /\ (found' => Found(buf)')
  <2>1. Found(buf') \in BOOLEAN
    BY DEF Found
  <2> QED BY <1>2, <2>1
<1>9. pc' \in {"handling", "ending"} /\ (pc' = "handling" => found')
  BY <1>2
<1>10. Reading'
  BY <1>2, <1>9 DEF IInv, Reading
<1>11. Room'
  BY <1>2, <1>9 DEF IInv, Room
<1>12. Searching'
  BY <1>6, <1>7, <1>8, <1>9 DEF Searching
<1> QED BY <1>10, <1>11, <1>12 DEF IInv

LEMMA StepInv ==
  ASSUME IInv, [Next]_vars
  PROVE  IInv'
<1>1. CASE DoRead
  BY <1>1, DoReadKeeps
<1>2. CASE ReadEnd
  BY <1>2, ReadEndKeeps
<1>3. CASE Search
  BY <1>3, SearchKeeps
<1>4. CASE ReadFails
  <2>1. errors' \in 0 .. MaxErrors
    BY <1>4, CapacityType DEF ReadFails, IInv, Reading
  <2> QED BY <1>4, <2>1 DEF ReadFails, reader, history, IInv, Reading, Room, Searching
<1>5. CASE Handle
  BY <1>5 DEF Handle, reader, IInv, Reading, Room, Searching
<1>6. CASE FinishRead
  BY <1>6 DEF FinishRead, Kept, reader, IInv, Reading, Room, Searching
<1>7. CASE DropDatagram
  <2>1. rest' \in Seq(Seq(Byte))
    BY <1>7, HeadTailProperties DEF DropDatagram, IInv, Reading
  <2> QED BY <1>7, <2>1 DEF DropDatagram, reader, history, IInv, Reading, Room, Searching
<1>8. CASE UNCHANGED vars
  BY <1>8 DEF vars, IInv, Reading, Room, Searching
<1> QED BY <1>1, <1>2, <1>3, <1>4, <1>5, <1>6, <1>7, <1>8 DEF Next

LEMMA Invariance == Spec => []IInv
<1>1. Init => IInv
  BY InitInv
<1>2. IInv /\ [Next]_vars => IInv'
  BY StepInv
<1> QED BY <1>1, <1>2, PTL DEF Spec

\* The input buffer, the Reader and what is still to be read are bytes, and
\* in_ never holds more than its capacity.
THEOREM TypeCorrect == Spec => []TypeOK
<1>1. IInv => TypeOK
  BY DEF IInv, Reading, Room, Searching, TypeOK
<1> QED BY <1>1, Invariance, PTL

\* Whatever arrives, however it is cut into reads: the read that is posted has
\* room, so the I/O thread never spins on reads of zero bytes.
THEOREM AlwaysRoomToRead == Spec => []RoomToRead
<1>1. IInv => RoomToRead
  BY DEF IInv, Room, RoomToRead
<1> QED BY <1>1, Invariance, PTL

\* The handler, which reads as many bytes as the header announces, reads them
\* inside the buffer.
FrameInsideBuffer ==
  pc = "handling" => FrameSize(buf) \in WrapperLength .. Len(buf)

\* Every frame a handler is given is whole.
THEOREM FramesLieInsideTheBuffer == Spec => []FrameInsideBuffer
<1>1. IInv => FrameInsideBuffer
  BY FoundFits DEF IInv, Searching, FrameInsideBuffer
<1> QED BY <1>1, Invariance, PTL

-----------------------------------------------------------------------------
(* Where what is delivered comes from.  On a stream what is held is always *)
(* the end of what has been read, so that a frame found in it lies in the  *)
(* line as it was sent.                                                    *)

\* The bytes behind the first m, up to the n-th.
Part(s, m, n) == SubSeq(s, m + 1, n)

LEMMA PartProperties ==
  ASSUME NEW s \in Seq(Byte), NEW m \in Nat, NEW n \in Nat, m <= n, n <= Len(s)
  PROVE  /\ Part(s, m, n) \in Seq(Byte)
         /\ Len(Part(s, m, n)) = n - m
         /\ \A i \in 1 .. n - m : Part(s, m, n)[i] = s[m + i]
<1>1. m + 1 \in Int /\ n \in Int /\ \A i \in m + 1 .. n : s[i] \in Byte
  OBVIOUS
<1>2. /\ Part(s, m, n) \in Seq(Byte)
      /\ Len(Part(s, m, n)) = IF m + 1 <= n THEN n - (m + 1) + 1 ELSE 0
      /\ \A i \in 1 .. n - (m + 1) + 1 : Part(s, m, n)[i] = s[m + 1 + i - 1]
  BY <1>1, SubSeqProperties DEF Part
<1>3. n - (m + 1) + 1 = n - m /\ \A i \in 1 .. n - m : m + 1 + i - 1 = m + i
  OBVIOUS
<1> QED BY <1>2, <1>3

\* t is the k bytes of s behind the m-th.
Takes(t, s, m, k) == t \in Seq(Byte) /\ Len(t) = k /\ \A i \in 1 .. k : t[i] = s[m + i]

LEMMA PartOfLength ==
  ASSUME NEW s \in Seq(Byte), NEW m \in Nat, NEW k \in Nat, NEW n, n = m + k, n <= Len(s),
         NEW t, t = Part(s, m, n)
  PROVE  Takes(t, s, m, k)
<1>1. n \in Nat /\ m <= n /\ n - m = k
  OBVIOUS
<1>2. /\ Part(s, m, n) \in Seq(Byte) /\ Len(Part(s, m, n)) = n - m
      /\ \A i \in 1 .. n - m : Part(s, m, n)[i] = s[m + i]
  BY <1>1, PartProperties
<1> QED BY <1>1, <1>2 DEF Takes

\* A part of a part is a part.
LEMMA PartOfPart ==
  ASSUME NEW s \in Seq(Byte), NEW m \in Nat, NEW n \in Nat, m <= n, n <= Len(s),
         NEW a \in Nat, NEW b \in Nat, a <= b, b <= n - m
  PROVE  Part(Part(s, m, n), a, b) = Part(s, m + a, m + b)
<1> DEFINE t == Part(s, m, n)
<1>1. t \in Seq(Byte) /\ Len(t) = n - m /\ \A i \in 1 .. n - m : t[i] = s[m + i]
  BY PartProperties
<1> HIDE DEF t
<1>2. /\ Part(t, a, b) \in Seq(Byte) /\ Len(Part(t, a, b)) = b - a
      /\ \A i \in 1 .. b - a : Part(t, a, b)[i] = t[a + i]
  BY <1>1, PartProperties
<1>3. /\ m + a \in Nat /\ m + b \in Nat /\ m + a <= m + b /\ m + b <= Len(s)
      /\ (m + b) - (m + a) = b - a
  OBVIOUS
<1>4. /\ Part(s, m + a, m + b) \in Seq(Byte) /\ Len(Part(s, m + a, m + b)) = b - a
      /\ \A i \in 1 .. b - a : Part(s, m + a, m + b)[i] = s[m + a + i]
  <2> DEFINE c == m + a
             d == m + b
  <2>1. c \in Nat /\ d \in Nat /\ c <= d /\ d <= Len(s) /\ d - c = b - a
    BY <1>3
  <2> HIDE DEF c, d
  <2>2. /\ Part(s, c, d) \in Seq(Byte) /\ Len(Part(s, c, d)) = d - c
        /\ \A i \in 1 .. d - c : Part(s, c, d)[i] = s[c + i]
    BY <2>1, PartProperties
  <2> QED BY <2>1, <2>2 DEF c, d
<1>5. \A i \in 1 .. b - a : a + i \in 1 .. n - m /\ m + (a + i) = m + a + i
  OBVIOUS
<1>6. \A i \in 1 .. b - a : Part(t, a, b)[i] = Part(s, m + a, m + b)[i]
  BY <1>1, <1>2, <1>4, <1>5
<1>7. Part(t, a, b) = Part(s, m + a, m + b)
  BY <1>2, <1>4, <1>6, SeqEqual
<1> QED BY <1>7 DEF t

LEMMA PartsJoin ==
  ASSUME NEW s \in Seq(Byte), NEW m \in Nat, NEW n \in Nat, NEW k \in Nat,
         m <= n, n <= k, k <= Len(s)
  PROVE  Part(s, m, n) \o Part(s, n, k) = Part(s, m, k)
<1>1. m + 1 \in 1 .. Len(s) + 1 /\ n \in (m + 1) - 1 .. Len(s) /\ k \in n .. Len(s)
  OBVIOUS
<1>2. SubSeq(s, m + 1, n) \o SubSeq(s, n + 1, k) = SubSeq(s, m + 1, k)
  BY <1>1, ConcatAdjacentSubSeq
<1> QED BY <1>2 DEF Part

LEMMA WholePart ==
  ASSUME NEW s \in Seq(Byte)
  PROVE  Part(s, 0, Len(s)) = s
<1>1. SubSeq(s, 1, Len(s)) = s
  BY SubSeqFull
<1> QED BY <1>1 DEF Part

\* What the receiver sends, and what the I/O thread holds of it.
Carried == FlattenSeq(PieceBytes(line))
Held == IF pc \in {"posted", "reading"} THEN in ELSE buf

\* The frames delivered are parts of the line, one behind the other, before
\* place end.
InPlaceUpTo(end) ==
  \E at \in [1 .. Len(delivered) -> Nat] :
    \A k \in 1 .. Len(delivered) :
      /\ at[k] + Len(delivered[k]) <= end
      /\ delivered[k] = Part(Carried, at[k], at[k] + Len(delivered[k]))
      /\ Accepts(delivered[k])
      /\ k > 1 => at[k - 1] + Len(delivered[k - 1]) <= at[k]

\* Of the bytes received, the first so many are done with when those at place
\* start are next: a frame that was handled is passed with the next search.
DoneWith(start) ==
  IF pc = "searching" /\ found THEN start + FrameSize(buf) ELSE start

StreamAt(received) ==
  /\ received \in Nat /\ received <= Len(Carried)
  /\ \/ rest = <<Part(Carried, received, Len(Carried))>>
     \/ rest = <<>> /\ received = Len(Carried)
  /\ Len(Held) <= received
  /\ Held = Part(Carried, received - Len(Held), received)
  /\ InPlaceUpTo(DoneWith(received - Len(Held)))

StreamInv ==
  transport = "stream" =>
    /\ Carried \in Seq(Byte)
    /\ delivered \in Seq(Seq(Byte))
    /\ \E received \in Nat : StreamAt(received)

\* Over a stream, whatever else is on the line and however it is cut: a handler
\* is only given frames that are on the line as they were sent, byte for byte,
\* intact and subscribed to; in the order sent, none twice and no two sharing
\* a byte.
DeliveredInPlace == transport = "stream" => InPlaceUpTo(Len(Carried))


LEMMA InPlaceLater ==
  ASSUME NEW m \in Nat, NEW n \in Nat, m <= n, delivered \in Seq(Seq(Byte)),
         InPlaceUpTo(m)
  PROVE  InPlaceUpTo(n)
<1>1. PICK at \in [1 .. Len(delivered) -> Nat] :
        \A k \in 1 .. Len(delivered) :
          /\ at[k] + Len(delivered[k]) <= m
          /\ delivered[k] = Part(Carried, at[k], at[k] + Len(delivered[k]))
          /\ Accepts(delivered[k])
          /\ k > 1 => at[k - 1] + Len(delivered[k - 1]) <= at[k]
  BY DEF InPlaceUpTo
<1>2. \A k \in 1 .. Len(delivered) : at[k] + Len(delivered[k]) <= n
  <2>1. \A k \in 1 .. Len(delivered) : at[k] \in Nat /\ Len(delivered[k]) \in Nat
    OBVIOUS
  <2> QED BY <1>1, <2>1
<1> QED BY <1>1, <1>2 DEF InPlaceUpTo

\* One more frame behind those delivered.
LEMMA InPlaceOneMore ==
  ASSUME NEW start \in Nat, NEW size \in Nat,
         Carried \in Seq(Byte), start + size <= Len(Carried),
         delivered \in Seq(Seq(Byte)), InPlaceUpTo(start),
         Accepts(Part(Carried, start, start + size)),
         delivered' = Append(delivered, Part(Carried, start, start + size)),
         UNCHANGED line
  PROVE  InPlaceUpTo(start + size)' /\ delivered' \in Seq(Seq(Byte))
<1> DEFINE frame == Part(Carried, start, start + size)
           n == Len(delivered)
<1>1. frame \in Seq(Byte) /\ Len(frame) = size
  <2> DEFINE end == start + size
  <2>1. end \in Nat /\ start <= end /\ end <= Len(Carried) /\ end - start = size
    OBVIOUS
  <2> HIDE DEF end
  <2>2. Part(Carried, start, end) \in Seq(Byte) /\ Len(Part(Carried, start, end)) = end - start
    BY <2>1, PartProperties
  <2> QED BY <2>1, <2>2 DEF end
<1>2. Carried' = Carried
  BY DEF Carried, PieceBytes
<1>3. Accepts(frame) /\ delivered' = Append(delivered, frame)
  OBVIOUS
<1>4. frame = Part(Carried, start, start + size)
  OBVIOUS
<1>5. PICK at \in [1 .. n -> Nat] :
        \A k \in 1 .. n :
          /\ at[k] + Len(delivered[k]) <= start
          /\ delivered[k] = Part(Carried, at[k], at[k] + Len(delivered[k]))
          /\ Accepts(delivered[k])
          /\ k > 1 => at[k - 1] + Len(delivered[k - 1]) <= at[k]
  BY DEF InPlaceUpTo
<1>11. \A k \in 1 .. n : Len(delivered[k]) \in Nat
  OBVIOUS
<1> HIDE DEF frame
<1>6. n \in Nat /\ Len(delivered') = n + 1 /\ delivered'[n + 1] = frame
        /\ \A k \in 1 .. n : delivered'[k] = delivered[k]
  BY <1>1, <1>3
<1>7. delivered' \in Seq(Seq(Byte))
  BY <1>1, <1>3
<1> HIDE DEF n
<1> DEFINE at2 == [k \in 1 .. n + 1 |-> IF k = n + 1 THEN start ELSE at[k]]
<1>8. at2 \in [1 .. n + 1 -> Nat] /\ at2[n + 1] = start
        /\ \A k \in 1 .. n : at2[k] = at[k]
  BY <1>5, <1>6
<1> HIDE DEF at2
<1>9. ASSUME NEW k \in 1 .. n + 1
      PROVE  /\ at2[k] + Len(delivered'[k]) <= start + size
             /\ delivered'[k] = Part(Carried, at2[k], at2[k] + Len(delivered'[k]))
             /\ Accepts(delivered'[k])
             /\ k > 1 => at2[k - 1] + Len(delivered'[k - 1]) <= at2[k]
  <2>1. CASE k = n + 1
    <3>1. at2[k] = start /\ delivered'[k] = frame
      BY <1>6, <1>8, <2>1
    <3>2. k > 1 => at2[k - 1] + Len(delivered'[k - 1]) <= at2[k]
      <4>1. SUFFICES ASSUME k > 1 PROVE at2[k - 1] + Len(delivered'[k - 1]) <= at2[k]
        OBVIOUS
      <4>2. k - 1 \in 1 .. n
        BY <1>6, <2>1, <4>1
      <4>3. at2[k - 1] = at[k - 1] /\ delivered'[k - 1] = delivered[k - 1]
              /\ at[k - 1] + Len(delivered[k - 1]) <= start
        BY <1>5, <1>6, <1>8, <4>2
      <4> QED BY <3>1, <4>3
    <3>5. at2[k] = start /\ Len(delivered'[k]) = size
      BY <1>1, <3>1
    <3>3. at2[k] + Len(delivered'[k]) <= start + size
      <4>1. start + size <= start + size
        OBVIOUS
      <4> QED BY <3>5, <4>1, Zenon
    <3>4. delivered'[k] = Part(Carried, at2[k], at2[k] + Len(delivered'[k]))
      BY <1>1, <1>4, <3>1
    <3> QED BY <1>3, <3>1, <3>2, <3>3, <3>4
  <2>2. CASE k # n + 1
    <3>1. k \in 1 .. n
      BY <1>6, <2>2
    <3>2. at2[k] = at[k] /\ delivered'[k] = delivered[k]
      BY <1>6, <1>8, <3>1
    <3>3. at[k] + Len(delivered[k]) <= start + size
      <4>1. at[k] \in Nat /\ Len(delivered[k]) \in Nat
        BY <1>5, <1>11, <3>1
      <4> QED BY <1>5, <3>1, <4>1
    <3>4. k > 1 => at2[k - 1] = at[k - 1] /\ delivered'[k - 1] = delivered[k - 1]
      <4>1. SUFFICES ASSUME k > 1
                     PROVE at2[k - 1] = at[k - 1] /\ delivered'[k - 1] = delivered[k - 1]
        OBVIOUS
      <4>2. k - 1 \in 1 .. n
        BY <1>6, <3>1, <4>1
      <4> QED BY <1>6, <1>8, <4>2
    <3> QED BY <1>5, <3>1, <3>2, <3>3, <3>4
  <2> QED BY <2>1, <2>2
<1>10. InPlaceUpTo(start + size)'
  <2>1. /\ Len(delivered') = n + 1 /\ at2 \in [1 .. n + 1 -> Nat]
        /\ \A k \in 1 .. n + 1 :
             /\ at2[k] + Len(delivered'[k]) <= start + size
             /\ delivered'[k] = Part(Carried', at2[k], at2[k] + Len(delivered'[k]))
             /\ Accepts(delivered'[k])
             /\ k > 1 => at2[k - 1] + Len(delivered'[k - 1]) <= at2[k]
    BY <1>2, <1>6, <1>8, <1>9
  <2> QED BY <2>1 DEF InPlaceUpTo
<1> QED BY <1>7, <1>10

LEMMA StreamInit ==
  ASSUME Init
  PROVE  StreamInv
<1>1. SUFFICES ASSUME transport = "stream"
               PROVE  /\ Carried \in Seq(Byte)
                      /\ delivered \in Seq(Seq(Byte))
                      /\ \E received \in Nat : StreamAt(received)
  BY DEF StreamInv
<1>2. Carried \in Seq(Byte)
  BY BytesOfLine, FlattenType DEF Carried, Init
<1>3. rest = <<Carried>> /\ pc = "posted" /\ in = <<>> /\ delivered = <<>> /\ found = FALSE
  BY <1>1 DEF Init, Carried
<1> HIDE DEF Carried
<1>4. Held = <<>> /\ Len(Held) = 0
  BY <1>3 DEF Held
<1>5. Part(Carried, 0, Len(Carried)) = Carried /\ Part(Carried, 0, 0) = <<>>
  <2>1. SubSeq(Carried, 0 + 1, 0) = <<>>
    BY SubSeqEmpty
  <2> QED BY <1>2, <2>1, WholePart DEF Part
<1>6. InPlaceUpTo(0)
  <2>1. Len(delivered) = 0 /\ 1 .. 0 = {}
    BY <1>3
  <2>2. [k \in 1 .. 0 |-> 0] \in [1 .. 0 -> Nat]
    OBVIOUS
  <2> QED BY <2>1, <2>2 DEF InPlaceUpTo
<1>7. DoneWith(0) = 0
  BY <1>3 DEF DoneWith
<1>8. StreamAt(0)
  <2>1. 0 - Len(Held) = 0
    <3> DEFINE n == Len(Held)
    <3>1. n = 0
      BY <1>4
    <3> HIDE DEF n
    <3>2. 0 - n = 0
      BY <3>1
    <3> QED BY <3>2 DEF n
  <2>2. 0 \in Nat /\ 0 <= Len(Carried)
    BY <1>2
  <2>3. rest = <<Part(Carried, 0, Len(Carried))>>
    BY <1>3, <1>5
  <2>4. Held = Part(Carried, 0 - Len(Held), 0)
    BY <1>4, <1>5, <2>1
  <2>5. InPlaceUpTo(DoneWith(0 - Len(Held)))
    BY <1>6, <1>7, <2>1
  <2> QED BY <1>4, <2>2, <2>3, <2>4, <2>5 DEF StreamAt
<1>9. delivered \in Seq(Seq(Byte))
  BY <1>3
<1> QED BY <1>2, <1>8, <1>9


\* What a step has to leave for the invariant to hold again.
LEMMA StreamGoesOn ==
  ASSUME NEW m \in Nat, NEW r \in Nat, m <= r, r <= Len(Carried),
         Carried \in Seq(Byte), UNCHANGED line,
         \/ rest' = <<Part(Carried, r, Len(Carried))>>
         \/ rest' = <<>> /\ r = Len(Carried),
         Held' = Part(Carried, m, r),
         delivered' \in Seq(Seq(Byte)), InPlaceUpTo(DoneWith(m))'
  PROVE  StreamInv'
<1>1. Carried' = Carried
  BY DEF Carried, PieceBytes
<1>2. Len(Part(Carried, m, r)) = r - m
  BY PartProperties
<1>3. r - (r - m) = m /\ r - m <= r
  OBVIOUS
<1>4. r - Len(Held') = m /\ Len(Held') <= r
  BY <1>2, <1>3
<1>5. StreamAt(r)'
  BY <1>1, <1>4 DEF StreamAt
<1> QED BY <1>1, <1>5 DEF StreamInv

\* The frames delivered stay where they are while nothing is delivered.
LEMMA StillInPlace ==
  ASSUME NEW m, NEW n, InPlaceUpTo(m), m = n, UNCHANGED <<line, delivered>>
  PROVE  InPlaceUpTo(n)'
<1>1. Carried' = Carried
  BY DEF Carried, PieceBytes
<1> QED BY <1>1 DEF InPlaceUpTo

LEMMA DoReadStream ==
  ASSUME IInv, StreamInv, DoRead, transport = "stream"
  PROVE  StreamInv'
<1>1. PICK r \in Nat : StreamAt(r)
  BY DEF StreamInv
<1>2. Carried \in Seq(Byte) /\ delivered \in Seq(Seq(Byte))
  BY DEF StreamInv
<1>3. pc = "posted" /\ pc' = "reading" /\ in' = MakeRoom(in)
        /\ UNCHANGED <<line, rest, delivered>>
  BY DEF DoRead, history
<1>4. Held = in /\ Held' = in'
  BY <1>3 DEF Held
<1>5. DoneWith(r - Len(in)) = r - Len(in) /\ \A m : DoneWith(m)' = m
  BY <1>3 DEF DoneWith
<1>6. /\ r <= Len(Carried) /\ Len(in) <= r /\ in = Part(Carried, r - Len(in), r)
      /\ InPlaceUpTo(r - Len(in))
      /\ \/ rest = <<Part(Carried, r, Len(Carried))>>
         \/ rest = <<>> /\ r = Len(Carried)
  BY <1>1, <1>4, <1>5 DEF StreamAt
<1>7. Len(in) \in Nat
  BY DEF IInv, Room
<1>8. PICK m \in Nat : m <= r /\ in' = Part(Carried, m, r) /\ InPlaceUpTo(m)
  <2>1. CASE Capacity - Len(in) = 0
    <3>1. in' = <<>>
      BY <1>3, <2>1 DEF MakeRoom
    <3>2. Part(Carried, r, r) = <<>>
      <4>1. SubSeq(Carried, r + 1, r) = <<>>
        BY SubSeqEmpty
      <4> QED BY <4>1 DEF Part
    <3>3. InPlaceUpTo(r)
      <4> DEFINE start == r - Len(in)
      <4>1. start \in Nat /\ start <= r /\ InPlaceUpTo(start)
        BY <1>6, <1>7
      <4> HIDE DEF start
      <4> QED BY <1>2, <4>1, InPlaceLater
    <3> QED BY <3>1, <3>2, <3>3
  <2>2. CASE Capacity - Len(in) # 0
    <3>1. in' = in
      BY <1>3, <2>2 DEF MakeRoom
    <3>2. r - Len(in) \in Nat /\ r - Len(in) <= r
      BY <1>6, <1>7
    <3> QED BY <1>6, <3>1, <3>2
  <2> QED BY <2>1, <2>2
<1>9. InPlaceUpTo(DoneWith(m))'
  <2>1. InPlaceUpTo(m)'
    BY <1>3, <1>8, StillInPlace
  <2>2. DoneWith(m)' = m
    BY <1>5
  <2> QED BY <2>1, <2>2 DEF InPlaceUpTo
<1>10. Held' = Part(Carried, m, r) /\ delivered' \in Seq(Seq(Byte)) /\ line' = line
  BY <1>2, <1>3, <1>4, <1>8
<1>11. \/ rest' = <<Part(Carried, r, Len(Carried))>>
       \/ rest' = <<>> /\ r = Len(Carried)
  BY <1>3, <1>6
<1> QED BY <1>2, <1>6, <1>8, <1>9, <1>10, <1>11, StreamGoesOn


LEMMA ReadEndStream ==
  ASSUME IInv, StreamInv, ReadEnd, transport = "stream"
  PROVE  StreamInv'
<1>1. PICK r \in Nat : StreamAt(r)
  BY DEF StreamInv
<1>2. Carried \in Seq(Byte) /\ delivered \in Seq(Seq(Byte))
  BY DEF StreamInv
<1>3. /\ pc = "reading" /\ rest # <<>> /\ pc' = "searching" /\ found' = FALSE
      /\ buf' = in' /\ UNCHANGED <<line, delivered>>
  BY DEF ReadEnd, history
<1>4. PICK n \in Transfers(Head(rest), Capacity - Len(in)) :
        in' = in \o SubSeq(Head(rest), 1, n) /\ rest' = Unread(Head(rest), n)
  BY DEF ReadEnd
<1>5. Held = in /\ Held' = in' /\ Len(in) \in Nat
  BY <1>3 DEF Held, IInv, Room
<1>17. r <= Len(Carried) /\ Len(in) <= r
  BY <1>1, <1>5 DEF StreamAt
<1>18. PICK m \in Nat, end \in Nat :
         m = r - Len(in) /\ m <= r /\ end = Len(Carried) /\ r <= end
  <2>1. Len(Carried) \in Nat /\ r - Len(in) \in Nat /\ r - Len(in) <= r
    BY <1>2, <1>5, <1>17
  <2> QED BY <1>17, <2>1
<1>6. in = Part(Carried, m, r) /\ InPlaceUpTo(m) /\ rest = <<Part(Carried, r, end)>>
  BY <1>1, <1>3, <1>5, <1>18 DEF StreamAt, DoneWith
<1>7. end <= Len(Carried)
  BY <1>18
<1> DEFINE h == Part(Carried, r, end)
<1>8. Head(rest) = h /\ Tail(rest) = <<>>
  BY <1>6
<1>9. h \in Seq(Byte) /\ Len(h) = end - r
  BY <1>2, <1>18, <1>7, PartProperties
<1> HIDE DEF h
<1>10. n \in 0 .. Len(h)
  <2> DEFINE room == Capacity - Len(in)
             most == IF Len(h) < room THEN Len(h) ELSE room
  <2>1. room \in Nat
    BY <1>3, CapacityType DEF IInv, Room
  <2>2. most \in 0 .. Len(h)
    <3> HIDE DEF room
    <3> QED BY <1>9, <2>1
  <2>3. n \in 1 .. most
    BY <1>4, <1>8 DEF Transfers
  <2> HIDE DEF most
  <2> QED BY <1>9, <2>2, <2>3
<1>11. PICK q \in Nat : q = r + n /\ r <= q /\ q <= end /\ n \in Nat /\ n <= end - r
  BY <1>9, <1>10, <1>18
<1>12. Part(h, 0, n) = Part(Carried, r, q) /\ Part(h, n, Len(h)) = Part(Carried, q, end)
  <2>1. r + 0 = r /\ r + (end - r) = end /\ end - r \in Nat /\ 0 <= n
    BY <1>11, <1>18
  <2> DEFINE size == end - r
  <2>4. size \in Nat /\ n <= size /\ size <= end - r
    BY <1>11, <2>1
  <2> HIDE DEF size
  <2>6. ASSUME NEW i \in Nat, NEW j \in Nat, i <= j, j <= end - r
        PROVE  Part(Part(Carried, r, end), i, j) = Part(Carried, r + i, r + j)
    <3>1. Carried \in Seq(Byte) /\ r <= end /\ end <= Len(Carried)
      BY <1>2, <1>7, <1>18
    <3> HIDE DEF Carried
    <3> QED BY <2>6, <3>1, PartOfPart
  <2>2. Part(Part(Carried, r, end), 0, n) = Part(Carried, r + 0, r + n)
    BY <1>11, <2>1, <2>6
  <2>3. Part(Part(Carried, r, end), n, size) = Part(Carried, r + n, r + size)
    BY <1>11, <2>4, <2>6
  <2>5. Len(h) = size /\ r + size = end /\ r + n = q
    BY <1>9, <1>11, <2>1 DEF size
  <2> QED BY <2>1, <2>2, <2>3, <2>5 DEF h
<1>13. in' = Part(Carried, m, q)
  <2>1. SubSeq(h, 1, n) = Part(Carried, r, q)
    <3>1. 0 + 1 = 1
      OBVIOUS
    <3> QED BY <1>12, <3>1 DEF Part
  <2>2. Part(Carried, m, r) \o Part(Carried, r, q) = Part(Carried, m, q)
    <3>1. /\ Carried \in Seq(Byte) /\ m \in Nat /\ r \in Nat /\ q \in Nat
          /\ m <= r /\ r <= q /\ q <= Len(Carried)
      BY <1>2, <1>7, <1>11, <1>18
    <3>2. PICK c \in Seq(Byte) : c = Carried
      BY <3>1
    <3>3. m <= r /\ r <= q /\ q <= Len(c)
      BY <3>1, <3>2
    <3>4. Part(c, m, r) \o Part(c, r, q) = Part(c, m, q)
      BY <3>1, <3>3, PartsJoin
    <3> QED BY <3>2, <3>4
  <2> QED BY <1>4, <1>6, <1>8, <2>1, <2>2
<1>14. \/ rest' = <<Part(Carried, q, end)>>
       \/ rest' = <<>> /\ q = end
  <2>1. CASE n < Len(h)
    <3>1. rest' = <<From(h, n)>> \o <<>>
      BY <1>4, <1>8, <2>1 DEF Unread
    <3>2. From(h, n) = Part(Carried, q, end)
      BY <1>12 DEF From, Part
    <3> QED BY <3>1, <3>2
  <2>2. CASE ~(n < Len(h))
    <3>1. rest' = <<>>
      BY <1>4, <1>8, <2>2 DEF Unread
    <3>2. q = end
      BY <1>9, <1>10, <1>11, <1>18, <2>2
    <3> QED BY <3>1, <3>2
  <2> QED BY <2>1, <2>2
<1>15. InPlaceUpTo(DoneWith(m))'
  <2>1. InPlaceUpTo(m)'
    BY <1>3, <1>6, StillInPlace
  <2>2. DoneWith(m)' = m
    BY <1>3 DEF DoneWith
  <2> QED BY <2>1, <2>2 DEF InPlaceUpTo
<1>16. m <= q /\ delivered' \in Seq(Seq(Byte)) /\ line' = line
  BY <1>2, <1>3, <1>11, <1>18
<1> QED BY <1>2, <1>5, <1>7, <1>11, <1>13, <1>14, <1>15, <1>16, <1>18, StreamGoesOn

LEMMA SearchStream ==
  ASSUME IInv, StreamInv, Search, transport = "stream"
  PROVE  StreamInv'
<1>1. PICK r \in Nat : StreamAt(r)
  BY DEF StreamInv
<1>2. Carried \in Seq(Byte) /\ delivered \in Seq(Seq(Byte)) /\ buf \in Seq(Byte)
  BY DEF StreamInv, IInv, Searching
<1> DEFINE b == Passed(buf)
           f == IF found THEN FrameSize(buf) ELSE 0
           n == Skipped(b)
<1>3. /\ pc = "searching" /\ pc' \in {"handling", "ending"}
      /\ buf' = From(b, n) /\ UNCHANGED <<line, rest, delivered>>
  BY DEF Search, history
<1>4. Held = buf /\ Held' = buf' /\ Len(buf) \in Nat
  BY <1>2, <1>3 DEF Held
<1>16. r <= Len(Carried) /\ Len(buf) <= r
  BY <1>1, <1>4 DEF StreamAt
<1>17. PICK m \in Nat : m = r - Len(buf) /\ m <= r
  BY <1>4, <1>16
<1>5. DoneWith(m) = m + f
  BY <1>3 DEF DoneWith
<1>6. /\ r <= Len(Carried) /\ Len(buf) <= r /\ buf = Part(Carried, m, r)
      /\ InPlaceUpTo(m + f)
      /\ \/ rest = <<Part(Carried, r, Len(Carried))>>
         \/ rest = <<>> /\ r = Len(Carried)
  BY <1>1, <1>4, <1>5, <1>16, <1>17 DEF StreamAt
<1>7. f \in 0 .. Len(buf) /\ b = Part(buf, f, Len(buf))
  <2>1. CASE found
    <3>1. FrameSize(buf) \in WrapperLength .. Len(buf)
      BY <2>1, FoundFits DEF IInv, Searching
    <3>2. WrapperLength = 8
      BY DEF WrapperLength, HeaderLength, ChecksumLength
    <3>3. PICK k \in Nat : k = FrameSize(buf) /\ k \in 0 .. Len(buf) /\ f = k
      BY <2>1, <3>1, <3>2
    <3>4. b = Part(buf, FrameSize(buf), Len(buf))
      BY <2>1 DEF Passed, From, Part
    <3> HIDE DEF b, f
    <3> QED BY <3>3, <3>4
  <2>2. CASE ~found
    BY <1>2, <1>4, <2>2, WholePart DEF Passed
  <2> QED BY <2>1, <2>2
<1>8. m \in Nat /\ m <= r /\ r - m = Len(buf)
  BY <1>4, <1>17
<1> HIDE DEF b, f
<1>9. b \in Seq(Byte) /\ Len(b) = Len(buf) - f
  <2>1. f \in Nat /\ f <= Len(buf) /\ Len(buf) \in Nat /\ Len(buf) <= Len(buf)
    BY <1>4, <1>7
  <2>2. Part(buf, f, Len(buf)) \in Seq(Byte) /\ Len(Part(buf, f, Len(buf))) = Len(buf) - f
    BY <1>2, <2>1, PartProperties
  <2> QED BY <1>7, <2>2
<1>10. n \in 0 .. Len(b)
  BY <1>9, SearchStops
<1> HIDE DEF n
<1>11. PICK q \in Nat : q = m + f + n /\ m + f \in Nat /\ m + f <= q /\ q <= r
  BY <1>4, <1>7, <1>8, <1>9, <1>10
<1>12. buf' = Part(Carried, q, r)
  <2>1. b = Part(Carried, m + f, r)
    <3>1. f \in Nat /\ Len(buf) \in Nat /\ f <= Len(buf) /\ Len(buf) <= r - m
            /\ m + Len(buf) = r
      BY <1>4, <1>7, <1>8
    <3>2. Part(Part(Carried, m, r), f, Len(buf)) = Part(Carried, m + f, m + Len(buf))
      BY <1>2, <1>6, <1>8, <3>1, PartOfPart
    <3> QED BY <1>6, <1>7, <3>1, <3>2
  <2> DEFINE p == m + f
  <2>2. p \in Nat /\ p <= r /\ q = p + n /\ Len(b) = r - p
    <3>1. Len(b) = r - (m + f)
      BY <1>4, <1>7, <1>8, <1>9
    <3> QED BY <1>11, <3>1
  <2>3. n \in Nat /\ Len(b) \in Nat /\ n <= Len(b) /\ p + Len(b) = r
    BY <1>9, <1>10, <2>2
  <2>5. b = Part(Carried, p, r)
    BY <2>1
  <2> HIDE DEF p
  <2>4. Part(Part(Carried, p, r), n, Len(b)) = Part(Carried, p + n, p + Len(b))
    BY <1>2, <1>6, <2>2, <2>3, PartOfPart
  <2>6. From(b, n) = Part(b, n, Len(b))
    BY DEF From, Part
  <2> QED BY <1>3, <2>2, <2>3, <2>4, <2>5, <2>6
<1>13. InPlaceUpTo(DoneWith(q))'
  <2>1. InPlaceUpTo(q)
    BY <1>2, <1>6, <1>11, InPlaceLater
  <2>2. InPlaceUpTo(q)'
    BY <1>3, <2>1, StillInPlace
  <2>3. DoneWith(q)' = q
    BY <1>3 DEF DoneWith
  <2> QED BY <2>2, <2>3 DEF InPlaceUpTo
<1>14. delivered' \in Seq(Seq(Byte)) /\ line' = line /\ Held' = Part(Carried, q, r)
  BY <1>2, <1>3, <1>4, <1>12
<1>15. \/ rest' = <<Part(Carried, r, Len(Carried))>>
       \/ rest' = <<>> /\ r = Len(Carried)
  BY <1>3, <1>6
<1> QED BY <1>2, <1>6, <1>11, <1>13, <1>14, <1>15, StreamGoesOn

LEMMA HandleStream ==
  ASSUME IInv, StreamInv, Handle, transport = "stream"
  PROVE  StreamInv'
<1>1. PICK r \in Nat : StreamAt(r)
  BY DEF StreamInv
<1>2. Carried \in Seq(Byte) /\ delivered \in Seq(Seq(Byte)) /\ buf \in Seq(Byte)
  BY DEF StreamInv, IInv, Searching
<1>3. /\ pc = "handling" /\ found /\ pc' = "searching"
      /\ UNCHANGED <<line, rest, buf, found>>
  BY DEF Handle, IInv, Searching, reader
<1>4. Held = buf /\ Held' = buf /\ Len(buf) \in Nat
  BY <1>2, <1>3 DEF Held
<1>16. r <= Len(Carried) /\ Len(buf) <= r
  BY <1>1, <1>4 DEF StreamAt
<1>17. PICK m \in Nat : m = r - Len(buf) /\ m <= r
  BY <1>4, <1>16
<1>5. /\ r <= Len(Carried) /\ Len(buf) <= r /\ buf = Part(Carried, m, r)
      /\ InPlaceUpTo(m)
      /\ \/ rest = <<Part(Carried, r, Len(Carried))>>
         \/ rest = <<>> /\ r = Len(Carried)
  BY <1>1, <1>3, <1>4, <1>16, <1>17 DEF StreamAt, DoneWith
<1>6. PICK size \in Nat : size = FrameSize(buf) /\ size <= Len(buf)
  <2>1. FrameSize(buf) \in WrapperLength .. Len(buf)
    BY <1>3, FoundFits DEF IInv, Searching
  <2>2. WrapperLength = 8
    BY DEF WrapperLength, HeaderLength, ChecksumLength
  <2> QED BY <1>4, <2>1, <2>2
<1>7. m \in Nat /\ m <= r /\ r - m = Len(buf)
  BY <1>4, <1>17
<1>8. DoneWith(m)' = m + size
  BY <1>3, <1>6 DEF DoneWith, FrameSize, PayloadLength
<1>13. Whole(buf) = Part(buf, 0, size)
  BY <1>6 DEF Whole, Part
<1>9. Whole(buf) = Part(Carried, m, m + size)
  <2>1. 0 \in Nat /\ 0 <= size /\ size <= r - m /\ m + 0 = m
    BY <1>6, <1>7
  <2>2. Part(Part(Carried, m, r), 0, size) = Part(Carried, m + 0, m + size)
    BY <1>2, <1>5, <1>6, <1>7, <2>1, PartOfPart
  <2> QED BY <1>5, <1>13, <2>1, <2>2
<1>10. m + size \in Nat /\ m <= m + size /\ m + size <= Len(Carried)
  BY <1>2, <1>4, <1>5, <1>6, <1>7
<1>11. InPlaceUpTo(m + size)' /\ delivered' \in Seq(Seq(Byte))
  <2>1. CASE Accepts(Whole(buf))
    <3>1. delivered' = Append(delivered, Part(Carried, m, m + size))
            /\ Accepts(Part(Carried, m, m + size))
      BY <1>9, <2>1 DEF Handle
    <3>2. line' = line
      BY <1>3
    <3> QED BY <1>2, <1>5, <1>6, <1>7, <1>10, <3>1, <3>2, InPlaceOneMore
  <2>2. CASE ~Accepts(Whole(buf))
    <3>1. delivered' = delivered
      BY <2>2 DEF Handle
    <3>2. PICK end \in Nat : end = m + size /\ m <= end
      BY <1>10
    <3>3. InPlaceUpTo(end)
      BY <1>2, <1>5, <1>7, <3>2, InPlaceLater
    <3>4. InPlaceUpTo(end)'
      BY <1>3, <3>1, <3>3, StillInPlace
    <3> QED BY <1>2, <3>1, <3>2, <3>4
  <2> QED BY <2>1, <2>2
<1>12. InPlaceUpTo(DoneWith(m))'
  BY <1>8, <1>11 DEF InPlaceUpTo
<1>14. line' = line /\ Held' = Part(Carried, m, r)
  BY <1>3, <1>4, <1>5
<1>15. \/ rest' = <<Part(Carried, r, Len(Carried))>>
       \/ rest' = <<>> /\ r = Len(Carried)
  BY <1>3, <1>5
<1> QED BY <1>2, <1>5, <1>7, <1>11, <1>12, <1>14, <1>15, StreamGoesOn

\* Steps that move nothing of the stream.
LEMMA StreamUnmoved ==
  ASSUME IInv, StreamInv, transport = "stream",
         UNCHANGED <<line, rest, delivered>>, Held' = Held,
         \A m : DoneWith(m)' = DoneWith(m)
  PROVE  StreamInv'
<1>1. Carried' = Carried
  BY DEF Carried, PieceBytes
<1>2. \A n : InPlaceUpTo(n) => InPlaceUpTo(n)'
  BY <1>1 DEF InPlaceUpTo
<1>3. PICK r \in Nat : StreamAt(r)
  BY DEF StreamInv
<1>4. InPlaceUpTo(DoneWith(r - Len(Held)))'
  <2>1. PICK place : place = DoneWith(r - Len(Held))
    OBVIOUS
  <2>2. InPlaceUpTo(place)
    BY <1>3, <2>1 DEF StreamAt
  <2>3. InPlaceUpTo(place)'
    BY <1>2, <2>2
  <2>4. DoneWith(r - Len(Held))' = place
    BY <2>1
  <2> QED BY <2>3, <2>4 DEF InPlaceUpTo
<1>5. StreamAt(r)'
  BY <1>1, <1>3, <1>4 DEF StreamAt
<1> QED BY <1>1, <1>5 DEF StreamInv

LEMMA StreamKeeps ==
  ASSUME IInv, StreamInv, [Next]_vars
  PROVE  StreamInv'
<1>1. transport' = transport
  BY DEF Next, DoRead, ReadEnd, ReadFails, Search, Handle, FinishRead, DropDatagram, vars
<1>2. CASE transport # "stream"
  BY <1>1, <1>2 DEF StreamInv
<1>3. CASE transport = "stream"
  <2>1. CASE DoRead
    BY <1>3, <2>1, DoReadStream
  <2>2. CASE ReadEnd
    BY <1>3, <2>2, ReadEndStream
  <2>3. CASE ReadFails
    <3>1. Held' = Held /\ \A m : DoneWith(m)' = DoneWith(m)
      BY <2>3 DEF ReadFails, reader, Held, DoneWith
    <3> QED BY <1>3, <2>3, <3>1, StreamUnmoved DEF ReadFails, history
  <2>4. CASE Search
    BY <1>3, <2>4, SearchStream
  <2>5. CASE Handle
    BY <1>3, <2>5, HandleStream
  <2>6. CASE FinishRead
    <3>1. Held' = Held /\ \A m : DoneWith(m)' = DoneWith(m)
      BY <2>6 DEF FinishRead, Kept, reader, Held, DoneWith
    <3> QED BY <1>3, <2>6, <3>1, StreamUnmoved DEF FinishRead
  <2>7. CASE DropDatagram
    BY <1>3, <2>7 DEF DropDatagram
  <2>8. CASE UNCHANGED vars
    <3>1. Held' = Held /\ \A m : DoneWith(m)' = DoneWith(m)
      BY <2>8 DEF vars, Held, DoneWith, FrameSize, PayloadLength
    <3> QED BY <1>3, <2>8, <3>1, StreamUnmoved DEF vars
  <2> QED BY <2>1, <2>2, <2>3, <2>4, <2>5, <2>6, <2>7, <2>8 DEF Next
<1> QED BY <1>2, <1>3

\* What a handler is given over a stream is on the line as it was sent,
\* whatever else the line carries and however the bytes fall into reads.
THEOREM AlwaysDeliveredInPlace == Spec => []DeliveredInPlace
<1>1. Init => IInv /\ StreamInv
  BY InitInv, StreamInit
<1>2. IInv /\ StreamInv /\ [Next]_vars => (IInv /\ StreamInv)'
  BY StepInv, StreamKeeps
<1>3. IInv /\ StreamInv => DeliveredInPlace
  <2>1. SUFFICES ASSUME IInv, StreamInv, transport = "stream"
                 PROVE  InPlaceUpTo(Len(Carried))
    BY DEF DeliveredInPlace
  <2>8. Carried \in Seq(Byte) /\ delivered \in Seq(Seq(Byte)) /\ \E r \in Nat : StreamAt(r)
    BY <2>1 DEF StreamInv
  <2>2. PICK r \in Nat : StreamAt(r)
    BY <2>8
  <2>3. Carried \in Seq(Byte) /\ delivered \in Seq(Seq(Byte))
    BY <2>8
  <2> DEFINE m == r - Len(Held)
  <2>4. Len(Held) \in Nat
    BY <2>1 DEF Held, IInv, Room, Searching
  <2>5. r <= Len(Carried) /\ m \in Nat /\ r = m + Len(Held) /\ InPlaceUpTo(DoneWith(m))
    BY <2>2, <2>4 DEF StreamAt
  <2> HIDE DEF m
  <2>6. DoneWith(m) \in Nat /\ DoneWith(m) <= r
    <3>1. CASE pc = "searching" /\ found
      <4>1. FrameSize(buf) \in WrapperLength .. Len(buf) /\ Held = buf
        BY <2>1, <3>1, FoundFits DEF IInv, Searching, Held
      <4>2. WrapperLength = 8
        BY DEF WrapperLength, HeaderLength, ChecksumLength
      <4>3. FrameSize(buf) \in Nat /\ FrameSize(buf) <= Len(Held)
        BY <2>4, <4>1, <4>2
      <4>4. DoneWith(m) = m + FrameSize(buf)
        BY <3>1 DEF DoneWith
      <4> QED BY <2>4, <2>5, <4>3, <4>4
    <3>2. CASE ~(pc = "searching" /\ found)
      <4>1. DoneWith(m) = m
        BY <3>2 DEF DoneWith
      <4> QED BY <2>4, <2>5, <4>1
    <3> QED BY <3>1, <3>2
  <2>7. Len(Carried) \in Nat /\ DoneWith(m) <= Len(Carried)
    BY <2>3, <2>5, <2>6
  <2> QED BY <2>3, <2>5, <2>6, <2>7, InPlaceLater
<1> QED BY <1>1, <1>2, <1>3, PTL DEF Spec

-----------------------------------------------------------------------------
(* Clean lines: where on the line the Reader stands when it has passed some *)
(* of the pieces, and what it can find there.                              *)

Pieces == PieceBytes(line)

SentFrame == [frame : Seq(Byte), sure : BOOLEAN]

\* Q[i] is the place behind the i-th piece, G[i] what handlers wait for up to there.
Laid(Q, G) ==
  /\ Lengths(Q, Pieces)
  /\ G[0] = <<>> /\ G[Len(line)] = Sent(line)
  /\ \A i \in 0 .. Len(line) : G[i] \in Seq(SentFrame)
  /\ \A i \in 1 .. Len(line) : G[i] = G[i - 1] \o Wanted(line, i)

\* What is built by appending sequences of a type has the type.
LEMMA StepsTyped ==
  ASSUME NEW S, NEW ss \in Seq(Seq(S)), NEW F, F[0] = <<>>,
         \A i \in 1 .. Len(ss) : F[i] = F[i - 1] \o ss[i]
  PROVE  \A i \in 0 .. Len(ss) : F[i] \in Seq(S)
<1> DEFINE N == Len(ss)
           T == {i \in 0 .. N : F[i] \notin Seq(S)}
<1>8. \A i \in 1 .. N : F[i] = F[i - 1] \o ss[i]
  OBVIOUS
<1>1. N \in Nat /\ \A i \in 1 .. N : ss[i] \in Seq(S)
  OBVIOUS
<1> HIDE DEF N
<1>2. SUFFICES ASSUME T # {} PROVE FALSE
  BY DEF N
<1>3. PICK m \in T : \A y \in T : m <= y
  <2>1. T \subseteq Nat
    OBVIOUS
  <2> HIDE DEF T
  <2> QED BY <1>2, <2>1, LeastNat
<1>4. m \in 0 .. N /\ F[m] \notin Seq(S)
  OBVIOUS
<1>5. m # 0
  <2>1. F[0] \in Seq(S)
    OBVIOUS
  <2> QED BY <1>4, <2>1
<1>6. m \in 1 .. N /\ m - 1 \in 0 .. N /\ m - 1 \notin T
  <2> HIDE DEF T
  <2> QED BY <1>1, <1>3, <1>4, <1>5
<1>7. F[m - 1] \in Seq(S) /\ ss[m] \in Seq(S) /\ F[m] = F[m - 1] \o ss[m]
  BY <1>1, <1>6, <1>8
<1> QED BY <1>4, <1>7, ConcatProperties

LEMMA WantedTyped ==
  ASSUME line \in Lines, NEW i \in 1 .. Len(line)
  PROVE  /\ Wanted(line, i) \in Seq(SentFrame)
         /\ [frame |-> line[i].bytes, sure |-> Sure(line, i)] \in SentFrame
<1> DEFINE Typed == [kind : Kinds, bytes : Seq(Byte)]
<1>1. line \in Seq(Typed)
  BY FramingAssumption
<1>2. line[i].bytes \in Seq(Byte)
  <2>1. line[i] \in Typed
    <3> HIDE DEF Typed
    <3> QED BY <1>1
  <2> QED BY <2>1
<1>3. Sure(line, i) \in BOOLEAN
  BY DEF Sure
<1>4. PICK w \in SentFrame : w = [frame |-> line[i].bytes, sure |-> Sure(line, i)]
  BY <1>2, <1>3 DEF SentFrame
<1>5. Wanted(line, i) = <<w>> \/ Wanted(line, i) = <<>>
  BY <1>4 DEF Wanted
<1>6. <<w>> \in Seq(SentFrame) /\ <<>> \in Seq(SentFrame)
  <2>1. PICK S : S = SentFrame
    OBVIOUS
  <2>2. w \in S
    BY <1>4, <2>1
  <2> QED BY <2>1, <2>2
<1> QED BY <1>4, <1>5, <1>6

LEMMA LineIsLaid ==
  ASSUME line \in Lines
  PROVE  \E Q, G : Laid(Q, G)
<1>1. Pieces \in Seq(Seq(Byte))
  BY BytesOfLine DEF Pieces
<1>2. PICK Q : Lengths(Q, Pieces)
  BY <1>1, LengthsExist
<1> DEFINE ss == [i \in 1 .. Len(line) |-> Wanted(line, i)]
<1>3. Len(line) \in Nat
  BY FramingAssumption
<1>4. ss \in Seq(Seq(SentFrame))
  <2>1. ASSUME NEW i \in 1 .. Len(line) PROVE Wanted(line, i) \in Seq(SentFrame)
    BY WantedTyped
  <2> HIDE DEF SentFrame
  <2> QED BY <1>3, <2>1
<1>5. Len(ss) = Len(line) /\ \A i \in 1 .. Len(line) : ss[i] = Wanted(line, i)
  BY <1>3
<1>6. Sent(line) = FlattenSeq(ss)
  BY DEF Sent
<1> HIDE DEF ss
<1>7. PICK G : /\ G[0] = <<>> /\ FlattenSeq(ss) = G[Len(ss)]
               /\ \A i \in 1 .. Len(ss) : G[i] = G[i - 1] \o ss[i]
  BY <1>4, FlattenSteps
<1>8. \A i \in 0 .. Len(ss) : G[i] \in Seq(SentFrame)
  BY <1>4, <1>7, StepsTyped
<1> QED BY <1>2, <1>5, <1>6, <1>7, <1>8 DEF Laid

\* What a piece of the line is, and where its bytes are.
PieceAt(i, Q) ==
  /\ line[i].bytes \in Seq(Byte) /\ Len(line[i].bytes) \in Nat
  /\ Q[i - 1] \in Nat /\ Q[i] \in Nat /\ Q[i] = Q[i - 1] + Len(line[i].bytes)
  /\ Q[i] <= Len(Carried)
  /\ \A b \in 1 .. Len(line[i].bytes) : Carried[Q[i - 1] + b] = line[i].bytes[b]

LEMMA PiecesLaid ==
  ASSUME line \in Lines, NEW Q, NEW G, Laid(Q, G)
  PROVE  /\ Len(line) \in Nat /\ Carried \in Seq(Byte) /\ Len(Carried) \in Nat
         /\ Q[0] = 0 /\ Q[Len(line)] = Len(Carried)
         /\ \A i \in 1 .. Len(line) : PieceAt(i, Q)
<1>1. Pieces \in Seq(Seq(Byte)) /\ Len(line) \in Nat
  BY BytesOfLine, FramingAssumption DEF Pieces
<1>2. Len(Pieces) = Len(line) /\ \A i \in 1 .. Len(line) : Pieces[i] = line[i].bytes
  BY <1>1 DEF Pieces, PieceBytes
<1>3. Lengths(Q, Pieces)
  BY DEF Laid
<1>4. Joined(Carried, Pieces, Q, Byte)
  BY <1>1, <1>3, FlattenPlaces DEF Carried, Pieces
<1>5. /\ Carried \in Seq(Byte) /\ Len(Carried) = Q[Len(line)]
      /\ \A i \in 1 .. Len(line) : \A b \in 1 .. Len(line[i].bytes) :
           /\ Q[i - 1] + b \in 1 .. Q[Len(line)]
           /\ Carried[Q[i - 1] + b] = line[i].bytes[b]
  <2>1. PICK P, N : P = Pieces /\ N = Len(line) /\ Len(P) = N
    BY <1>2
  <2>2. /\ Carried \in Seq(Byte) /\ Len(Carried) = Q[N]
        /\ \A i \in 1 .. N : \A b \in 1 .. Len(P[i]) :
             Q[i - 1] + b \in 1 .. Q[N] /\ Carried[Q[i - 1] + b] = P[i][b]
    BY <1>4, <2>1 DEF Joined
  <2>3. \A i \in 1 .. N : P[i] = line[i].bytes
    BY <1>2, <2>1
  <2> QED BY <2>1, <2>2, <2>3
<1>6. /\ Q \in [0 .. Len(line) -> Nat] /\ Q[0] = 0
      /\ \A i \in 1 .. Len(line) : Q[i] = Q[i - 1] + Len(line[i].bytes)
  BY <1>2, <1>3 DEF Lengths
<1> DEFINE N == Len(line)
<1>9. N \in Nat /\ Q \in [0 .. N -> Nat] /\ Len(Carried) = Q[N]
  BY <1>1, <1>5, <1>6
<1>7. ASSUME NEW i \in 1 .. N PROVE PieceAt(i, Q)
  <2>1. Q[i] \in Nat /\ Q[i - 1] \in Nat
    <3> HIDE DEF N
    <3>1. i \in 0 .. N /\ i - 1 \in 0 .. N
      BY <1>9
    <3> QED BY <1>9, <3>1
  <2>2. line[i].bytes \in Seq(Byte) /\ Len(line[i].bytes) \in Nat
    <3>1. Pieces[i] \in Seq(Byte)
      BY <1>1, <1>2
    <3>2. PICK bytes \in Seq(Byte) : bytes = line[i].bytes
      BY <1>2, <3>1
    <3> QED BY <3>2
  <2>3. Q[i] <= Len(Carried)
    <3> DEFINE T == {k \in i .. N : ~(Q[i] <= Q[k])}
    <3>1. SUFFICES ASSUME T # {} PROVE FALSE
      <4>1. N \in i .. N
        BY <1>9
      <4>2. T = {} => Q[i] <= Q[N]
        BY <4>1
      <4> QED BY <1>9, <4>2
    <3>2. PICK k \in T : \A y \in T : k <= y
      <4>1. T \subseteq Nat
        BY <1>9
      <4> HIDE DEF T
      <4> QED BY <3>1, <4>1, LeastNat
    <3>3. k \in i .. N /\ ~(Q[i] <= Q[k])
      OBVIOUS
    <3>4. k # i
      BY <2>1, <3>3
    <3>5. k \in 1 .. N /\ k - 1 \in i .. N /\ k - 1 \notin T
      <4> HIDE DEF T
      <4> HIDE DEF N
      <4> QED BY <1>9, <3>2, <3>3, <3>4
    <3>6. Q[i] <= Q[k - 1]
      BY <3>5
    <3>7. Q[k] = Q[k - 1] + Len(line[k].bytes) /\ Len(line[k].bytes) \in Nat
      <4>1. Pieces[k] \in Seq(Byte)
        BY <1>1, <1>2, <3>5
      <4>2. PICK bytes \in Seq(Byte) : bytes = line[k].bytes
        BY <1>2, <3>5, <4>1
      <4> QED BY <1>6, <3>5, <4>2
    <3>8. Q[k] \in Nat /\ Q[k - 1] \in Nat
      <4> HIDE DEF N
      <4>1. k \in 0 .. N /\ k - 1 \in 0 .. N
        BY <1>9, <3>5
      <4> QED BY <1>9, <4>1
    <3> QED BY <2>1, <3>3, <3>6, <3>7, <3>8
  <2>4. \A b \in 1 .. Len(line[i].bytes) : Carried[Q[i - 1] + b] = line[i].bytes[b]
    BY <1>5
  <2> QED BY <1>6, <2>1, <2>2, <2>3, <2>4 DEF PieceAt
<1>8. Len(Carried) \in Nat
  BY <1>5
<1> QED BY <1>1, <1>5, <1>6, <1>7, <1>8

\* The first i pieces are passed at place p, and of the next only bytes that
\* belong to no frame.
Passing(i, p, Q) ==
  /\ i \in 0 .. Len(line) /\ p \in Nat /\ p <= Len(Carried) /\ Q[i] <= p
  /\ p # Q[i] => i < Len(line) /\ ~Framed(line[i + 1]) /\ p <= Q[i + 1]

FramesOf(s) == [k \in 1 .. Len(s) |-> s[k].frame]

\* At place p the frames d of the pieces passed have been handed over.
Stands(p, d, Q, G) == \E i : Passing(i, p, Q) /\ d = FramesOf(G[i])

\* Place p is at the start of the j-th piece or inside it.
InPiece(j, p, Q) ==
  /\ j \in 1 .. Len(line) /\ Q[j - 1] <= p /\ p < Q[j]
  /\ p # Q[j - 1] => ~Framed(line[j])

\* No piece of a clean line is empty.
LEMMA PlacesRise ==
  ASSUME line \in Lines, Clean(line), NEW Q, NEW G, Laid(Q, G), NEW k \in 1 .. Len(line)
  PROVE  Q[k - 1] \in Nat /\ Q[k] \in Nat /\ Q[k - 1] < Q[k]
<1>1. PieceAt(k, Q)
  BY PiecesLaid
<1>2. PICK bytes \in Seq(Byte) : bytes = line[k].bytes
  BY <1>1 DEF PieceAt
<1>3. bytes # <<>>
  <2>1. CASE Framed(line[k])
    <3>1. Len(bytes) >= 8
      BY <1>2, <2>1 DEF Clean, WellFramed, Found, WrapperLength, HeaderLength, ChecksumLength
    <3> QED BY <3>1
  <2>2. CASE ~Framed(line[k])
    BY <1>2, <2>2 DEF Clean, Silent
  <2> QED BY <2>1, <2>2
<1>4. Len(bytes) \in Nat /\ Len(bytes) # 0
  BY <1>3, EmptySeq
<1> QED BY <1>1, <1>2, <1>4 DEF PieceAt

\* A place with bytes behind it is in some piece.
LEMMA NextPiece ==
  ASSUME line \in Lines, Clean(line), NEW Q, NEW G, Laid(Q, G), NEW p, NEW d,
         Stands(p, d, Q, G), p < Len(Carried)
  PROVE  \E j : InPiece(j, p, Q) /\ d = FramesOf(G[j - 1])
<1>1. PICK i : Passing(i, p, Q) /\ d = FramesOf(G[i])
  BY DEF Stands
<1>2. /\ Len(line) \in Nat /\ Len(Carried) \in Nat /\ Q[0] = 0 /\ Q[Len(line)] = Len(Carried)
      /\ \A k \in 1 .. Len(line) : PieceAt(k, Q)
  BY PiecesLaid
<1>3. \A k \in 1 .. Len(line) : Q[k - 1] \in Nat /\ Q[k] \in Nat /\ Q[k - 1] < Q[k]
  BY PlacesRise
<1>4. i \in 0 .. Len(line) /\ p \in Nat /\ Q[i] <= p
  BY <1>1 DEF Passing
<1>5. CASE p = Q[i]
  <2>1. PICK j \in 1 .. Len(line) : j - 1 = i
    <3>1. i # Len(line)
      BY <1>2, <1>5
    <3>2. i + 1 \in 1 .. Len(line) /\ (i + 1) - 1 = i
      BY <1>2, <1>4, <3>1
    <3> QED BY <1>2, <1>4, <3>1
  <2>2. InPiece(j, p, Q)
    BY <1>3, <1>4, <1>5, <2>1 DEF InPiece
  <2> QED BY <1>1, <2>1, <2>2
<1>6. CASE p # Q[i]
  <2>1. PICK j \in 1 .. Len(line) : j - 1 = i /\ j = i + 1
    <3>1. i < Len(line)
      BY <1>1, <1>6 DEF Passing
    <3>2. i + 1 \in 1 .. Len(line) /\ (i + 1) - 1 = i
      BY <1>2, <1>4, <3>1
    <3> QED BY <1>2, <1>4, <3>1
  <2>2. ~Framed(line[j]) /\ p <= Q[j]
    BY <1>1, <1>6, <2>1 DEF Passing
  <2>3. CASE p # Q[j]
    <3>1. Q[j] \in Nat
      BY <1>3, <2>1
    <3>2. InPiece(j, p, Q)
      BY <1>4, <2>1, <2>2, <2>3, <3>1 DEF InPiece
    <3> QED BY <1>1, <2>1, <3>2
  <2>4. CASE p = Q[j]
    <3>1. PICK k \in 1 .. Len(line) : k - 1 = j
      <4>1. j # Len(line)
        BY <1>2, <2>4
      <4>2. j + 1 \in 1 .. Len(line) /\ j + 1 - 1 = j
        BY <1>2, <2>1, <4>1
      <4> QED BY <4>2
    <3>2. InPiece(k, p, Q)
      <4>1. Q[j] <= p /\ p < Q[k]
        BY <1>3, <1>4, <2>4, <3>1
      <4> QED BY <2>4, <3>1, <4>1 DEF InPiece
    <3>3. G[j] = G[i]
      <4>1. Wanted(line, j) = <<>>
        BY <2>2 DEF Wanted, IsFrame, Framed
      <4>2. G[j] = G[i] \o <<>> /\ G[i] \in Seq(SentFrame)
        BY <1>4, <2>1, <4>1 DEF Laid
      <4> QED BY <4>2, ConcatEmptySeq
    <3> QED BY <1>1, <3>1, <3>2, <3>3
  <2> QED BY <2>3, <2>4
<1> QED BY <1>5, <1>6

\* Both sync bytes stand behind place p.
SyncAt(p) == Carried[p + 1] = SyncA /\ Carried[p + 2] = SyncB

\* A framed piece starts with both, and is found when it is held whole.
LEMMA FrameStarts ==
  ASSUME line \in Lines, Clean(line), NEW Q, NEW G, Laid(Q, G),
         NEW j \in 1 .. Len(line), Framed(line[j])
  PROVE  Q[j - 1] + WrapperLength <= Q[j] /\ SyncAt(Q[j - 1])
<1>1. PieceAt(j, Q)
  BY PiecesLaid
<1>2. /\ Len(line[j].bytes) >= 8 /\ line[j].bytes[1] = SyncA /\ line[j].bytes[2] = SyncB
  BY DEF Clean, WellFramed, Found, WrapperLength, HeaderLength, ChecksumLength
<1>3. PICK n \in Nat : n = Len(line[j].bytes)
  BY <1>1 DEF PieceAt
<1>4. 1 \in 1 .. n /\ 2 \in 1 .. n
  BY <1>2, <1>3
<1>5. Carried[Q[j - 1] + 1] = SyncA /\ Carried[Q[j - 1] + 2] = SyncB
  BY <1>1, <1>2, <1>3, <1>4 DEF PieceAt
<1>6. Q[j - 1] + 8 <= Q[j]
  BY <1>1, <1>2, <1>3 DEF PieceAt
<1> QED BY <1>5, <1>6 DEF SyncAt, WrapperLength, HeaderLength, ChecksumLength

\* No frame starts between the frames.
LEMMA NoSyncBetween ==
  ASSUME line \in Lines, Clean(line), NEW Q, NEW G, Laid(Q, G), NEW p \in Nat,
         NEW j, InPiece(j, p, Q), ~Framed(line[j]), p + 2 <= Len(Carried)
  PROVE  ~SyncAt(p)
<1>1. j \in 1 .. Len(line) /\ Q[j - 1] <= p /\ p < Q[j]
  BY DEF InPiece
<1>2. /\ Len(line) \in Nat /\ Q[Len(line)] = Len(Carried) /\ Len(Carried) \in Nat
      /\ \A k \in 1 .. Len(line) : PieceAt(k, Q)
  BY PiecesLaid
<1>3. PICK n \in Nat : n = Len(line[j].bytes) /\ Q[j] = Q[j - 1] + n /\ Q[j - 1] \in Nat
  BY <1>1, <1>2 DEF PieceAt
<1>4. PICK b \in 1 .. n : p = Q[j - 1] + b - 1
  <2>1. PICK a \in Nat : a = Q[j - 1]
    BY <1>3
  <2>2. PICK c : c = Q[j]
    OBVIOUS
  <2>3. c = a + n
    BY <1>3, <2>1, <2>2
  <2>4. a <= p
    BY <1>1, <2>1
  <2>5. p < c
    BY <1>1, <2>2
  <2>6. p + 1 - a \in 1 .. n /\ p = a + (p + 1 - a) - 1
    BY <2>3, <2>4, <2>5
  <2> QED BY <2>1, <2>6
<1>5. Carried[p + 1] = line[j].bytes[b]
  <2>1. Carried[Q[j - 1] + b] = line[j].bytes[b]
    BY <1>1, <1>2, <1>3, <1>4 DEF PieceAt
  <2>2. p + 1 = Q[j - 1] + b
    BY <1>3, <1>4
  <2> QED BY <2>1, <2>2
<1>6. CASE b # n
  <2>1. PICK c \in 1 .. n : c = b + 1 /\ b \in 1 .. n - 1
    BY <1>3, <1>4, <1>6
  <2>2. Carried[Q[j - 1] + c] = line[j].bytes[c]
    BY <1>1, <1>2, <1>3, <2>1 DEF PieceAt
  <2>3. p + 2 = Q[j - 1] + c
    <3>1. PICK q \in Nat : q = Q[j - 1] /\ p = q + b - 1
      BY <1>3, <1>4
    <3>2. q + b - 1 + 2 = q + (b + 1)
      BY <1>4
    <3> QED BY <2>1, <3>1, <3>2
  <2>4. ~(line[j].bytes[b] = SyncA /\ line[j].bytes[b + 1] = SyncB)
    BY <1>1, <1>3, <2>1 DEF Clean, Silent
  <2> QED BY <1>5, <2>1, <2>2, <2>3, <2>4 DEF SyncAt
<1>7. CASE b = n
  <2>1. p + 1 = Q[j]
    BY <1>3, <1>4, <1>7
  <2>2. PICK k \in 1 .. Len(line) : k - 1 = j
    <3>1. j # Len(line)
      BY <1>2, <2>1
    <3> QED BY <1>1, <1>2, <3>1
  <2>3. Len(line[k].bytes) >= 1 /\ line[k].bytes[1] # SyncB
    <3>1. CASE Framed(line[k])
      <4>1. Len(line[k].bytes) >= 8 /\ line[k].bytes[1] = SyncA
        BY <3>1 DEF Clean, WellFramed, Found, WrapperLength, HeaderLength, ChecksumLength
      <4>2. Len(line[k].bytes) \in Nat
        BY <1>2 DEF PieceAt
      <4> QED BY <4>1, <4>2 DEF SyncA, SyncB
    <3>2. CASE ~Framed(line[k])
      <4>1. line[k].bytes # <<>> /\ line[k].bytes[1] # SyncB
        BY <3>2 DEF Clean, Silent
      <4>2. PICK bytes \in Seq(Byte) : bytes = line[k].bytes
        BY <1>2 DEF PieceAt
      <4> QED BY <4>1, <4>2, EmptySeq
    <3> QED BY <3>1, <3>2
  <2>4. Carried[Q[j] + 1] = line[k].bytes[1]
    <3>1. PICK m \in Nat : m = Len(line[k].bytes)
      BY <1>2 DEF PieceAt
    <3>2. 1 \in 1 .. m
      BY <2>3, <3>1
    <3> QED BY <1>2, <2>2, <3>1, <3>2 DEF PieceAt
  <2>5. p + 2 = Q[j] + 1
    BY <1>2, <1>3, <2>1
  <2> QED BY <2>3, <2>4, <2>5 DEF SyncAt
<1> QED BY <1>6, <1>7

\* b is what the line carries between places m and r.
Holds(b, m, r) ==
  /\ m \in Nat /\ r \in Nat /\ m <= r /\ r <= Len(Carried)
  /\ b = Part(Carried, m, r)

LEMMA HoldsBytes ==
  ASSUME line \in Lines, NEW b, NEW m, NEW r, Holds(b, m, r)
  PROVE  /\ b \in Seq(Byte) /\ Len(b) = r - m /\ Len(b) \in Nat
         /\ \A i \in 1 .. Len(b) : b[i] = Carried[m + i]
<1>1. Carried \in Seq(Byte)
  BY BytesOfLine, FlattenType DEF Carried
<1>2. m \in Nat /\ r \in Nat /\ m <= r /\ r <= Len(Carried) /\ b = Part(Carried, m, r)
  BY DEF Holds
<1>3. /\ Part(Carried, m, r) \in Seq(Byte) /\ Len(Part(Carried, m, r)) = r - m
      /\ \A i \in 1 .. r - m : Part(Carried, m, r)[i] = Carried[m + i]
  BY <1>1, <1>2, PartProperties
<1> QED BY <1>2, <1>3

\* The byte behind place p is between the frames.
Between(p, Q) == \E j : InPiece(j, p, Q) /\ ~Framed(line[j])

\* A byte at which no frame may start can be passed.
LEMMA PassOne ==
  ASSUME line \in Lines, Clean(line), NEW Q, NEW G, Laid(Q, G), NEW d,
         NEW b, NEW m, NEW r, Holds(b, m, r),
         NEW n \in 1 .. Len(b), Stands(m + n - 1, d, Q, G), ~Starts(b, n)
  PROVE  Stands(m + n, d, Q, G) /\ Between(m + n - 1, Q)
<1>1. /\ b \in Seq(Byte) /\ Len(b) = r - m /\ Len(b) \in Nat
      /\ \A i \in 1 .. Len(b) : b[i] = Carried[m + i]
  BY HoldsBytes
<1>2. m \in Nat /\ r \in Nat /\ m <= r /\ r <= Len(Carried) /\ Len(Carried) \in Nat
  BY PiecesLaid DEF Holds
<1>3. PICK p \in Nat : p = m + n - 1 /\ p < Len(Carried) /\ p + 1 = m + n
  BY <1>1, <1>2
<1>4. PICK j : InPiece(j, p, Q) /\ d = FramesOf(G[j - 1])
  BY <1>3, NextPiece
<1>5. j \in 1 .. Len(line) /\ Q[j - 1] <= p /\ p < Q[j]
  BY <1>4 DEF InPiece
<1>6. ~Framed(line[j])
  <2>1. SUFFICES ASSUME Framed(line[j]) PROVE FALSE
    OBVIOUS
  <2>2. p = Q[j - 1]
    BY <1>4, <2>1 DEF InPiece
  <2>3. Carried[p + 1] = SyncA /\ Carried[p + 2] = SyncB
    BY <1>5, <2>1, <2>2, FrameStarts DEF SyncAt
  <2>4. b[n] = SyncA
    BY <1>1, <1>3, <2>3
  <2>5. n # Len(b) => b[n + 1] = SyncB
    <3>1. n # Len(b) => n + 1 \in 1 .. Len(b) /\ m + (n + 1) = p + 2
      BY <1>1, <1>2, <1>3
    <3> QED BY <1>1, <2>3, <3>1
  <2> QED BY <2>4, <2>5 DEF Starts
<1>7. PICK i : i = j - 1 /\ i \in 0 .. Len(line) /\ i + 1 = j /\ i < Len(line)
  <2>1. Len(line) \in Nat
    BY PiecesLaid
  <2> QED BY <1>5, <2>1
<1>8. Q[i] \in Nat /\ Q[j] \in Nat /\ Q[i] <= p + 1 /\ p + 1 <= Q[j] /\ Q[j] <= Len(Carried)
  <2>1. PieceAt(j, Q)
    BY <1>5, PiecesLaid
  <2>2. Q[i] \in Nat /\ Q[j] \in Nat /\ Q[j] <= Len(Carried)
    BY <1>7, <2>1 DEF PieceAt
  <2> QED BY <1>3, <1>5, <1>7, <2>2
<1>9. Passing(i, p + 1, Q)
  BY <1>2, <1>3, <1>6, <1>7, <1>8 DEF Passing
<1> QED BY <1>3, <1>4, <1>6, <1>7, <1>9 DEF Stands, Between

\* What search() skips belongs to no frame.
LEMMA PassSkipped ==
  ASSUME line \in Lines, Clean(line), NEW Q, NEW G, Laid(Q, G), NEW d,
         NEW b, NEW m, NEW r, Holds(b, m, r), Stands(m, d, Q, G)
  PROVE  /\ Stands(m + Skipped(b), d, Q, G)
         /\ \A n \in 1 .. Skipped(b) : Between(m + n - 1, Q)
<1>1. b \in Seq(Byte) /\ Len(b) \in Nat /\ m \in Nat
  BY HoldsBytes DEF Holds
<1>2. PICK s : s = Skipped(b) /\ s \in 0 .. Len(b) /\ \A i \in 1 .. s : ~Starts(b, i)
  BY <1>1, SearchStops
<1> DEFINE T == {n \in 0 .. s : ~Stands(m + n, d, Q, G)}
<1>3. T = {}
  <2>1. SUFFICES ASSUME T # {} PROVE FALSE
    OBVIOUS
  <2>2. PICK n \in T : \A y \in T : n <= y
    <3>1. T \subseteq Nat
      OBVIOUS
    <3> HIDE DEF T
    <3> QED BY <2>1, <3>1, LeastNat
  <2>3. n \in 0 .. s /\ ~Stands(m + n, d, Q, G)
    OBVIOUS
  <2>4. n # 0
    <3>1. m + 0 = m
      BY <1>1
    <3> QED BY <2>3, <3>1
  <2>5. n \in 1 .. s /\ n \in 1 .. Len(b) /\ n - 1 \in 0 .. s /\ n - 1 \notin T
    <3> HIDE DEF T
    <3> QED BY <1>1, <1>2, <2>2, <2>3, <2>4
  <2>6. Stands(m + n - 1, d, Q, G)
    <3>1. Stands(m + (n - 1), d, Q, G)
      BY <2>5
    <3>2. m + (n - 1) = m + n - 1
      BY <1>1, <2>5
    <3> QED BY <3>1, <3>2
  <2>7. ~Starts(b, n)
    BY <1>2, <2>5
  <2> QED BY <2>3, <2>5, <2>6, <2>7, PassOne
<1>4. \A n \in 0 .. s : Stands(m + n, d, Q, G)
  BY <1>3
<1>5. ASSUME NEW n \in 1 .. s PROVE Between(m + n - 1, Q)
  <2>1. n \in 1 .. Len(b) /\ n - 1 \in 0 .. s /\ m + (n - 1) = m + n - 1
    BY <1>1, <1>2
  <2>2. Stands(m + (n - 1), d, Q, G)
    BY <1>4, <2>1
  <2>3. Stands(m + n - 1, d, Q, G) /\ ~Starts(b, n)
    BY <1>2, <2>1, <2>2
  <2> QED BY <2>1, <2>3, PassOne
<1>6. s \in 0 .. s
  BY <1>2
<1> QED BY <1>2, <1>4, <1>5, <1>6

\* What is found is a piece of the line, whole.
LEMMA FoundOnLine ==
  ASSUME line \in Lines, Clean(line), NEW Q, NEW G, Laid(Q, G), NEW d,
         NEW b, NEW m, NEW r, Holds(b, m, r), Stands(m, d, Q, G), Found(b)
  PROVE  \E j \in 1 .. Len(line) :
           /\ Q[j - 1] = m /\ Framed(line[j]) /\ d = FramesOf(G[j - 1])
           /\ Whole(b) = line[j].bytes /\ m + FrameSize(b) = Q[j]
<1>1. /\ b \in Seq(Byte) /\ Len(b) = r - m /\ Len(b) \in Nat
      /\ \A i \in 1 .. Len(b) : b[i] = Carried[m + i]
  BY HoldsBytes
<1>2. m \in Nat /\ r \in Nat /\ m <= r /\ r <= Len(Carried) /\ Len(Carried) \in Nat
  BY PiecesLaid DEF Holds
<1>3. Len(b) >= 8 /\ b[1] = SyncA /\ b[2] = SyncB /\ FrameSize(b) \in 8 .. Len(b)
  BY FoundFits, <1>1 DEF Found, WrapperLength, HeaderLength, ChecksumLength
<1>4. m + 2 <= Len(Carried) /\ m < Len(Carried) /\ SyncAt(m)
  <2>1. 1 \in 1 .. Len(b) /\ 2 \in 1 .. Len(b)
    BY <1>1, <1>3
  <2>2. m + 8 <= Len(Carried)
    BY <1>1, <1>2, <1>3
  <2>3. SyncAt(m)
    BY <1>1, <1>3, <2>1 DEF SyncAt
  <2>4. PICK c \in Nat : c = Len(Carried) /\ m + 8 <= c
    BY <1>2, <2>2
  <2>5. m + 2 <= c /\ m < c
    BY <1>2, <2>4
  <2> QED BY <2>3, <2>4, <2>5
<1>5. PICK j : InPiece(j, m, Q) /\ d = FramesOf(G[j - 1])
  BY <1>4, NextPiece
<1>6. j \in 1 .. Len(line) /\ Framed(line[j]) /\ m = Q[j - 1]
  BY <1>2, <1>4, <1>5, NoSyncBetween DEF InPiece
<1>7. PieceAt(j, Q) /\ Q[j - 1] + 8 <= Q[j]
  BY <1>6, PiecesLaid, FrameStarts DEF WrapperLength, HeaderLength, ChecksumLength
<1>8. PICK bytes \in Seq(Byte), n \in Nat :
        bytes = line[j].bytes /\ n = Len(bytes) /\ Q[j] = m + n /\ n >= 8
  <2>1. line[j].bytes \in Seq(Byte) /\ Q[j] = Q[j - 1] + Len(line[j].bytes)
    BY <1>7 DEF PieceAt
  <2>2. PICK bytes \in Seq(Byte), n \in Nat : bytes = line[j].bytes /\ n = Len(bytes)
    BY <2>1
  <2>3. Q[j] = m + n /\ m + 8 <= Q[j]
    BY <1>6, <1>7, <2>1, <2>2
  <2>4. n >= 8
    BY <1>2, <2>3
  <2> QED BY <2>2, <2>3, <2>4
<1>9. \A i \in 1 .. n : Carried[m + i] = bytes[i]
  BY <1>6, <1>7, <1>8 DEF PieceAt
<1>10. FrameSize(b) = n
  <2>1. b[5] = bytes[5] /\ b[6] = bytes[6]
    <3>1. 5 \in 1 .. n /\ 6 \in 1 .. n /\ 5 \in 1 .. Len(b) /\ 6 \in 1 .. Len(b)
      BY <1>1, <1>3, <1>8
    <3> QED BY <1>1, <1>9, <3>1
  <2>2. n = FrameSize(bytes)
    BY <1>6, <1>8 DEF Clean, WellFramed
  <2> QED BY <2>1, <2>2 DEF FrameSize, PayloadLength
<1>11. Whole(b) = bytes
  <2>1. Whole(b) = Part(b, 0, n) /\ n \in 0 .. Len(b)
    BY <1>3, <1>8, <1>10 DEF Whole, Part
  <2>6. 0 \in Nat /\ n \in Nat /\ 0 <= n /\ n <= Len(b)
    BY <1>1, <2>1
  <2>2. /\ Part(b, 0, n) \in Seq(Byte) /\ Len(Part(b, 0, n)) = n - 0
        /\ \A i \in 1 .. n - 0 : Part(b, 0, n)[i] = b[0 + i]
    BY <1>1, <2>6, PartProperties
  <2>3. n - 0 = n /\ \A i \in 1 .. n : 0 + i = i /\ i \in 1 .. Len(b)
    BY <1>1, <2>1
  <2>4. \A i \in 1 .. n : Part(b, 0, n)[i] = bytes[i]
    BY <1>1, <1>9, <2>2, <2>3
  <2>5. Part(b, 0, n) = bytes
    BY <1>8, <2>2, <2>3, <2>4, SeqEqual
  <2> QED BY <2>1, <2>5
<1> QED BY <1>5, <1>6, <1>8, <1>10, <1>11

\* What search() stops at, and has not found whole, the buffer has room for.
LEMMA RoomForFrame ==
  ASSUME line \in Lines, Clean(line), NEW Q, NEW G, Laid(Q, G), NEW d,
         NEW b, NEW m, NEW r, Holds(b, m, r), Stands(m, d, Q, G),
         Len(b) >= 2, Starts(b, 1), ~Found(b)
  PROVE  Len(b) < Capacity /\ r < Len(Carried)
<1>1. /\ b \in Seq(Byte) /\ Len(b) = r - m /\ Len(b) \in Nat
      /\ \A i \in 1 .. Len(b) : b[i] = Carried[m + i]
  BY HoldsBytes
<1>2. m \in Nat /\ r \in Nat /\ m <= r /\ r <= Len(Carried) /\ Len(Carried) \in Nat
  BY PiecesLaid DEF Holds
<1>3. b[1] = SyncA /\ b[2] = SyncB
  <2>1. 1 # Len(b) /\ 1 + 1 = 2
    BY <1>1
  <2> QED BY <2>1 DEF Starts
<1>4. m + 2 <= Len(Carried) /\ m < Len(Carried) /\ SyncAt(m)
  <2>1. 1 \in 1 .. Len(b) /\ 2 \in 1 .. Len(b) /\ m + 2 <= Len(Carried)
    BY <1>1, <1>2
  <2> QED BY <1>1, <1>2, <1>3, <2>1 DEF SyncAt
<1>5. PICK j : InPiece(j, m, Q)
  BY <1>4, NextPiece
<1>6. j \in 1 .. Len(line) /\ Framed(line[j]) /\ m = Q[j - 1]
  BY <1>2, <1>4, <1>5, NoSyncBetween DEF InPiece
<1>7. PieceAt(j, Q) /\ WellFramed(line[j])
  BY <1>6, PiecesLaid DEF Clean
<1>8. PICK bytes \in Seq(Byte), n \in Nat :
        /\ bytes = line[j].bytes /\ n = Len(bytes) /\ Q[j] = m + n /\ n <= Capacity
        /\ n >= 8 /\ n = FrameSize(bytes) /\ m + n <= Len(Carried)
  BY <1>2, <1>6, <1>7 DEF PieceAt, WellFramed, Found, WrapperLength, HeaderLength, ChecksumLength
<1>9. \A i \in 1 .. n : Carried[m + i] = bytes[i]
  BY <1>6, <1>7, <1>8 DEF PieceAt
<1>10. Len(b) < n
  <2>1. SUFFICES ASSUME Len(b) >= n PROVE FALSE
    BY <1>1, <1>8
  <2>2. b[5] = bytes[5] /\ b[6] = bytes[6]
    <3>1. 5 \in 1 .. n /\ 6 \in 1 .. n /\ 5 \in 1 .. Len(b) /\ 6 \in 1 .. Len(b)
      BY <1>1, <1>8, <2>1
    <3> QED BY <1>1, <1>9, <3>1
  <2>3. FrameSize(b) = n
    BY <1>8, <2>2 DEF FrameSize, PayloadLength
  <2>4. Found(b)
    BY <1>1, <1>3, <1>8, <2>1, <2>3 DEF Found, WrapperLength, HeaderLength, ChecksumLength
  <2> QED BY <2>4
<1>11. Len(b) < Capacity
  BY <1>1, <1>8, <1>10, CapacityType
<1>12. r < Len(Carried)
  BY <1>1, <1>2, <1>8, <1>10
<1> QED BY <1>11, <1>12

\* At the end of the line, but for a last byte that may start a frame, all of it
\* has been handed over.
LEMMA AllPassed ==
  ASSUME line \in Lines, Clean(line), NEW Q, NEW G, Laid(Q, G), NEW d,
         NEW m, Stands(m, d, Q, G), Len(Carried) <= m + 1
  PROVE  d = FramesOf(Sent(line))
<1>1. /\ Len(line) \in Nat /\ Len(Carried) \in Nat /\ Q[0] = 0 /\ Q[Len(line)] = Len(Carried)
      /\ \A k \in 1 .. Len(line) : PieceAt(k, Q)
  BY PiecesLaid
<1>2. \A k \in 1 .. Len(line) : Q[k - 1] \in Nat /\ Q[k] \in Nat /\ Q[k - 1] < Q[k]
  BY PlacesRise
<1>3. ASSUME NEW j \in 1 .. Len(line), Q[j] = Len(Carried) PROVE j = Len(line)
  <2>1. SUFFICES ASSUME j # Len(line) PROVE FALSE
    OBVIOUS
  <2>2. PICK k \in 1 .. Len(line) : k - 1 = j
    BY <1>1, <2>1
  <2>3. Q[j] < Q[k] /\ Q[k] <= Len(Carried)
    BY <1>1, <1>2, <2>2 DEF PieceAt
  <2> QED BY <1>1, <1>2, <1>3, <2>3
\* The last piece, when it is not a frame, adds nothing to hand over.
<1>4. ASSUME NEW j \in 1 .. Len(line), Q[j] = Len(Carried), ~Framed(line[j]),
             d = FramesOf(G[j - 1])
      PROVE  d = FramesOf(Sent(line))
  <2>1. Wanted(line, j) = <<>>
    BY <1>4 DEF Wanted, IsFrame, Framed
  <2>2. j - 1 \in 0 .. Len(line)
    BY <1>1
  <2>3. G[j] = G[j - 1] \o <<>> /\ G[j - 1] \in Seq(SentFrame)
    BY <2>1, <2>2 DEF Laid
  <2>4. G[j] = G[j - 1]
    BY <2>3, ConcatEmptySeq
  <2>5. j = Len(line)
    BY <1>3, <1>4
  <2> QED BY <1>4, <2>4, <2>5 DEF Laid
<1>5. PICK i : Passing(i, m, Q) /\ d = FramesOf(G[i])
  BY DEF Stands
<1>6. i \in 0 .. Len(line) /\ m \in Nat /\ m <= Len(Carried) /\ Q[i] <= m
  BY <1>5 DEF Passing
<1>7. CASE m = Len(Carried) /\ Q[i] = m
  <2>1. i = Len(line)
    <3>1. CASE i = 0
      <4>1. SUFFICES ASSUME Len(line) # 0 PROVE FALSE
        BY <3>1
      <4>2. 1 \in 1 .. Len(line) /\ 1 - 1 = 0
        BY <1>1, <4>1
      <4>3. Q[0] < Q[1] /\ Q[1] \in Nat /\ Q[1] <= Len(Carried)
        BY <1>1, <1>2, <4>2 DEF PieceAt
      <4> QED BY <1>1, <1>7, <3>1, <4>3
    <3>2. CASE i # 0
      <4>1. i \in 1 .. Len(line)
        BY <1>6, <3>2
      <4> QED BY <1>3, <1>7, <4>1
    <3> QED BY <3>1, <3>2
  <2> QED BY <1>5, <2>1 DEF Laid
<1>8. CASE m = Len(Carried) /\ Q[i] # m
  <2>1. PICK j \in 1 .. Len(line) : j - 1 = i /\ j = i + 1
    <3>1. i < Len(line)
      BY <1>5, <1>8 DEF Passing
    <3> QED BY <1>1, <1>6, <3>1
  <2>2. ~Framed(line[j]) /\ m <= Q[j]
    BY <1>5, <1>8, <2>1 DEF Passing
  <2>3. Q[j] = Len(Carried)
    <3>1. Q[j] \in Nat /\ Q[j] <= Len(Carried)
      BY <1>1, <2>1 DEF PieceAt
    <3> QED BY <1>1, <1>8, <2>2, <3>1
  <2> QED BY <1>4, <1>5, <2>1, <2>2, <2>3
<1>9. CASE m # Len(Carried)
  <2>1. m < Len(Carried) /\ m + 1 = Len(Carried)
    BY <1>1, <1>6, <1>9
  <2>2. PICK j : InPiece(j, m, Q) /\ d = FramesOf(G[j - 1])
    BY <2>1, NextPiece
  <2>3. j \in 1 .. Len(line) /\ Q[j - 1] <= m /\ m < Q[j]
    BY <2>2 DEF InPiece
  <2>4. Q[j] \in Nat /\ Q[j] <= Len(Carried) /\ Q[j - 1] \in Nat
    BY <1>1, <2>3 DEF PieceAt
  <2>5. Q[j] = Len(Carried)
    BY <1>6, <2>1, <2>3, <2>4
  <2>6. ~Framed(line[j])
    <3>1. SUFFICES ASSUME Framed(line[j]) PROVE FALSE
      OBVIOUS
    <3>2. Q[j - 1] + 8 <= Q[j] /\ Q[j - 1] = m
      BY <2>2, <2>3, <3>1, FrameStarts DEF InPiece, WrapperLength, HeaderLength, ChecksumLength
    <3> QED BY <1>6, <2>1, <2>5, <3>2
  <2> QED BY <1>4, <2>2, <2>3, <2>5, <2>6
<1> QED BY <1>7, <1>8, <1>9

\* How much of the line has been read, and where what is held of it starts.
Received == IF rest = <<>> THEN Len(Carried) ELSE Len(Carried) - Len(Head(rest))
Offset == Received - Len(Held)

LEMMA Located ==
  ASSUME IInv, StreamInv, transport = "stream"
  PROVE  /\ Carried \in Seq(Byte) /\ Len(Carried) \in Nat
         /\ Received \in Nat /\ Received <= Len(Carried)
         /\ Holds(Held, Offset, Received) /\ Received - Offset = Len(Held)
         /\ rest # <<>> => rest = <<Part(Carried, Received, Len(Carried))>>
         /\ rest = <<>> => Received = Len(Carried)
<1>1. Carried \in Seq(Byte) /\ Len(Carried) \in Nat
  BY DEF StreamInv
<1>2. PICK r \in Nat : StreamAt(r)
  BY DEF StreamInv
<1>3. /\ r <= Len(Carried) /\ Len(Held) <= r /\ Held = Part(Carried, r - Len(Held), r)
      /\ rest = <<Part(Carried, r, Len(Carried))>> \/ (rest = <<>> /\ r = Len(Carried))
  BY <1>2 DEF StreamAt
<1>4. Received = r
  <2>1. CASE rest = <<>>
    BY <1>3, <2>1 DEF Received
  <2>2. CASE rest # <<>>
    <3>1. Head(rest) = Part(Carried, r, Len(Carried))
      BY <1>3, <2>2
    <3>4. PICK end \in Nat : end = Len(Carried) /\ r <= end /\ end <= Len(Carried)
      BY <1>1, <1>3
    <3>2. Len(Part(Carried, r, Len(Carried))) = Len(Carried) - r
      BY <1>1, <3>4, PartProperties
    <3>3. Len(Carried) - (Len(Carried) - r) = r
      BY <1>1
    <3> QED BY <2>2, <3>1, <3>2, <3>3 DEF Received
  <2> QED BY <2>1, <2>2
<1>5. Len(Held) \in Nat
  BY DEF Held, IInv, Room, Searching
<1>6. PICK m \in Nat : m = r - Len(Held) /\ m <= r /\ r - m = Len(Held)
  BY <1>3, <1>5
<1>7. Offset = m
  BY <1>4, <1>6 DEF Offset
<1>8. Holds(Held, Offset, Received)
  BY <1>3, <1>4, <1>6, <1>7 DEF Holds
<1>9. Received \in Nat /\ Received <= Len(Carried) /\ Received - Offset = Len(Held)
  BY <1>3, <1>4, <1>6, <1>7
<1>10. /\ rest # <<>> => rest = <<Part(Carried, Received, Len(Carried))>>
       /\ rest = <<>> => Received = Len(Carried)
  BY <1>3, <1>4
<1> QED BY <1>1, <1>8, <1>9, <1>10

\* The Reader has stopped where a frame may start that is not whole yet.
Waits == Held # <<>> => Starts(Held, 1) /\ ~Found(Held)

\* The j-th piece is the frame found.
AtPiece(j, m, d, Q, G) ==
  /\ j \in 1 .. Len(line) /\ Framed(line[j]) /\ Q[j - 1] = m
  /\ Q[j] = m + FrameSize(buf) /\ Whole(buf) = line[j].bytes
  /\ d = FramesOf(G[j - 1])

CleanAt(Q, G) ==
  /\ Laid(Q, G)
  /\ pc = "handling" => \E j : AtPiece(j, Offset, delivered, Q, G)
  /\ pc # "handling" => Stands(DoneWith(Offset), delivered, Q, G)
  /\ pc \in {"posted", "reading", "ending"} => Waits

CleanInv ==
  transport = "stream" /\ Clean(line) => line \in Lines /\ \E Q, G : CleanAt(Q, G)

LEMMA LineStays ==
  ASSUME UNCHANGED <<line, transport>>
  PROVE  /\ Carried' = Carried /\ Clean(line)' = Clean(line)
         /\ \A Q, G : Laid(Q, G) => Laid(Q, G)'
         /\ \A p, d, Q, G : Stands(p, d, Q, G) => Stands(p, d, Q, G)'
<1>1. Carried' = Carried /\ Pieces' = Pieces
  BY DEF Carried, PieceBytes, Pieces
<1>2. ASSUME NEW i PROVE Wanted(line, i)' = Wanted(line, i)
  BY DEF Wanted, Sure, IsFrame, Key, Reaches, Reach, StartOf, PieceBytes, FrameSize, PayloadLength
<1>3. Sent(line)' = Sent(line)
  BY <1>2 DEF Sent
<1>4. ASSUME NEW Q, NEW G, Laid(Q, G) PROVE Laid(Q, G)'
  BY <1>1, <1>2, <1>3, <1>4 DEF Laid, Lengths
<1>5. ASSUME NEW p, NEW d, NEW Q, NEW G, Stands(p, d, Q, G) PROVE Stands(p, d, Q, G)'
  <2>1. PICK i : Passing(i, p, Q) /\ d = FramesOf(G[i])
    BY <1>5 DEF Stands
  <2>2. Passing(i, p, Q)'
    BY <1>1, <2>1 DEF Passing, Framed
  <2> QED BY <2>1, <2>2 DEF Stands
<1>6. Clean(line)' = Clean(line)
  BY DEF Clean
<1> QED BY <1>1, <1>4, <1>5, <1>6

\* What a step has to leave for the invariant to hold again.
LEMMA CleanGoesOn ==
  ASSUME UNCHANGED <<line, transport>>, line \in Lines, NEW Q, NEW G, Laid(Q, G),
         NEW p, NEW d, Stands(p, d, Q, G), delivered' = d, pc' # "handling",
         DoneWith(Offset)' = p, (pc \in {"posted", "reading", "ending"} => Waits)'
  PROVE  CleanInv'
<1>1. Laid(Q, G)' /\ Stands(p, d, Q, G)'
  BY LineStays
<1>2. Stands(DoneWith(Offset), delivered, Q, G)'
  BY <1>1 DEF Stands
<1>3. CleanAt(Q, G)'
  BY <1>1, <1>2 DEF CleanAt
<1>4. line' \in Lines
  OBVIOUS
<1> QED BY <1>3, <1>4 DEF CleanInv

LEMMA CleanInit ==
  ASSUME Init
  PROVE  CleanInv
<1>1. SUFFICES ASSUME transport = "stream", Clean(line)
               PROVE  line \in Lines /\ \E Q, G : CleanAt(Q, G)
  BY DEF CleanInv
<1>2. line \in Lines /\ pc = "posted" /\ in = <<>> /\ delivered = <<>> /\ rest = <<Carried>>
  BY <1>1 DEF Init, Carried
<1>3. PICK Q, G : Laid(Q, G)
  BY <1>2, LineIsLaid
<1>4. Len(line) \in Nat /\ Len(Carried) \in Nat /\ Q[0] = 0 /\ G[0] = <<>>
  BY <1>2, <1>3, PiecesLaid DEF Laid
<1>5. Held = <<>> /\ Offset = 0 /\ DoneWith(Offset) = 0
  <2>1. Held = <<>> /\ Len(Held) = 0
    BY <1>2 DEF Held
  <2>2. Received = Len(Carried) - Len(Carried)
    <3>1. rest # <<>> /\ Head(rest) = Carried
      BY <1>2
    <3> QED BY <3>1 DEF Received
  <2>3. Received = 0
    BY <1>4, <2>2
  <2>4. Offset = 0
    <3>1. PICK n \in Nat : n = Len(Held) /\ n = 0
      BY <2>1
    <3>2. 0 - n = 0
      BY <3>1
    <3> QED BY <2>3, <3>1, <3>2 DEF Offset
  <2>5. \A m : DoneWith(m) = m
    BY <1>2 DEF DoneWith
  <2> QED BY <2>1, <2>4, <2>5
<1>6. Passing(0, 0, Q)
  BY <1>4 DEF Passing
<1>7. FramesOf(G[0]) = <<>>
  BY <1>4 DEF FramesOf
<1>8. Stands(0, <<>>, Q, G)
  BY <1>6, <1>7 DEF Stands
<1>9. CleanAt(Q, G)
  <2>1. pc # "handling" /\ Waits
    BY <1>2, <1>5 DEF Waits
  <2>2. Stands(DoneWith(Offset), delivered, Q, G)
    BY <1>2, <1>5, <1>8
  <2> QED BY <1>3, <2>1, <2>2 DEF CleanAt
<1> QED BY <1>2, <1>9

\* The buffer is never full of the start of a frame: nothing is thrown away.
\* A clean line never fills the buffer with the start of a frame: nothing held
\* is given up when a read is posted.
LEMMA DoReadStays ==
  ASSUME IInv, StreamInv, CleanInv, DoRead, transport = "stream", Clean(line)
  PROVE  /\ in' = in /\ Held = in /\ Held' = in' /\ DoneWith(Offset) = Offset
         /\ DoneWith(Offset)' = Offset
<1>1. line \in Lines /\ \E Q, G : CleanAt(Q, G)
  BY DEF CleanInv
<1>2. PICK Q, G : CleanAt(Q, G)
  BY <1>1
<1>3. /\ pc = "posted" /\ pc' = "reading" /\ in' = MakeRoom(in)
      /\ UNCHANGED <<line, transport, rest, delivered>>
  BY DEF DoRead, history
<1>10. DoneWith(Offset) = Offset
  BY <1>3 DEF DoneWith
<1>4. Laid(Q, G) /\ Stands(Offset, delivered, Q, G) /\ Waits
  BY <1>2, <1>3, <1>10 DEF CleanAt
<1>5. Held = in /\ Held' = in' /\ Holds(in, Offset, Received) /\ Len(in) \in Nat
  BY <1>3, Located DEF Held, IInv, Room
<1>6. Len(in) < Capacity
  <2>1. CASE Len(in) < 2
    BY <1>5, <2>1, CapacityType
  <2>2. CASE ~(Len(in) < 2)
    <3>1. in # <<>> /\ Len(in) >= 2
      BY <1>5, <2>2
    <3>2. Starts(in, 1) /\ ~Found(in)
      BY <1>4, <1>5, <3>1 DEF Waits
    <3> QED BY <1>1, <1>4, <1>5, <3>1, <3>2, RoomForFrame
  <2> QED BY <2>1, <2>2
<1>7. in' = in
  BY <1>3, <1>5, <1>6, CapacityType DEF MakeRoom
<1>8. Held' = Held /\ Received' = Received
  <2>1. Carried' = Carried
    BY <1>3, LineStays
  <2> QED BY <1>3, <1>5, <1>7, <2>1 DEF Received
<1>9. DoneWith(Offset)' = Offset
  <2>1. Offset' = Offset
    BY <1>8 DEF Offset
  <2> QED BY <1>3, <2>1 DEF DoneWith
<1> QED BY <1>5, <1>7, <1>9, <1>10

LEMMA DoReadClean ==
  ASSUME IInv, StreamInv, IInv', StreamInv', CleanInv, DoRead, transport = "stream", Clean(line)
  PROVE  CleanInv'
<1>1. line \in Lines /\ \E Q, G : CleanAt(Q, G)
  BY DEF CleanInv
<1>2. PICK Q, G : CleanAt(Q, G)
  BY <1>1
<1>3. pc = "posted" /\ pc' = "reading" /\ UNCHANGED <<line, transport, delivered>>
  BY DEF DoRead, history
<1>5. /\ in' = in /\ Held = in /\ Held' = in' /\ DoneWith(Offset) = Offset
      /\ DoneWith(Offset)' = Offset
  BY DoReadStays
<1>4. Laid(Q, G) /\ Stands(Offset, delivered, Q, G) /\ Waits
  BY <1>2, <1>3, <1>5 DEF CleanAt
<1>10. Waits'
  BY <1>4, <1>5 DEF Waits, Starts, Found, FrameSize, PayloadLength
<1>11. PICK p, d : p = Offset /\ d = delivered
  OBVIOUS
<1> QED BY <1>1, <1>3, <1>4, <1>5, <1>10, <1>11, CleanGoesOn

\* What a read adds is behind what is held.
LEMMA ReadEndStays ==
  ASSUME IInv, StreamInv, IInv', ReadEnd, transport = "stream"
  PROVE  DoneWith(Offset) = Offset /\ DoneWith(Offset)' = Offset
<1>3. /\ pc = "reading" /\ rest # <<>> /\ pc' = "searching" /\ found' = FALSE
      /\ buf' = in' /\ UNCHANGED <<line, transport, delivered>>
  BY DEF ReadEnd, history
<1>4. PICK n \in Transfers(Head(rest), Capacity - Len(in)) :
        in' = in \o SubSeq(Head(rest), 1, n) /\ rest' = Unread(Head(rest), n)
  BY DEF ReadEnd
<1>5. DoneWith(Offset) = Offset
  BY <1>3 DEF DoneWith
<1>6. Held = in /\ Held' = in' /\ Len(in) \in Nat /\ in \in Seq(Byte) /\ in' \in Seq(Byte)
  BY <1>3 DEF Held, IInv, Room
<1> DEFINE h == Head(rest)
<1>7. /\ Carried \in Seq(Byte) /\ Len(Carried) \in Nat /\ Received \in Nat /\ Received <= Len(Carried)
      /\ rest = <<Part(Carried, Received, Len(Carried))>>
  BY <1>3, Located
<1>8. h \in Seq(Byte) /\ Len(h) \in Nat /\ Len(h) = Len(Carried) - Received /\ Tail(rest) = <<>>
  <2>1. PICK s \in Seq(Byte) : s = Carried
    BY <1>7
  <2>2. PICK r \in Nat : r = Received
    BY <1>7
  <2>3. PICK end \in Nat : end = Len(s)
    OBVIOUS
  <2>4. r <= end /\ end <= Len(s) /\ rest = <<Part(s, r, end)>>
    BY <1>7, <2>1, <2>2, <2>3
  <2>5. Part(s, r, end) \in Seq(Byte) /\ Len(Part(s, r, end)) = end - r
    BY <2>4, PartProperties
  <2>6. h = Part(s, r, end) /\ Tail(rest) = <<>>
    BY <2>4
  <2> QED BY <2>1, <2>2, <2>3, <2>5, <2>6
<1> HIDE DEF h
<1>9. n \in 0 .. Len(h)
  <2> DEFINE room == Capacity - Len(in)
             most == IF Len(h) < room THEN Len(h) ELSE room
  <2>1. room \in Nat
    BY <1>3, CapacityType DEF IInv, Room
  <2>2. most \in 0 .. Len(h)
    <3> HIDE DEF room
    <3> QED BY <1>8, <2>1
  <2>3. n \in 1 .. most
    BY <1>4 DEF Transfers, h
  <2> HIDE DEF most
  <2> QED BY <1>8, <2>2, <2>3
<1>10. SubSeq(h, 1, n) \in Seq(Byte) /\ Len(SubSeq(h, 1, n)) = n
  BY <1>8, <1>9, PrefixType
<1>11. in' = in \o SubSeq(h, 1, n) /\ rest' = Unread(h, n)
  BY <1>4 DEF h
<1>12. Len(in') = Len(in) + n
  BY <1>6, <1>10, <1>11, ConcatProperties
<1>13. Received' = Received + n
  <2>1. Carried' = Carried
    BY <1>3, LineStays
  <2>2. CASE n < Len(h)
    <3>1. rest' = <<From(h, n)>> \o <<>>
      BY <1>8, <1>11, <2>2 DEF Unread
    <3>2. rest' # <<>> /\ Head(rest') = From(h, n) /\ Len(From(h, n)) = Len(h) - n
      BY <1>8, <1>9, <3>1, FromType
    <3>3. Received' = Len(Carried) - (Len(h) - n)
      BY <2>1, <3>2 DEF Received
    <3> QED BY <1>7, <1>8, <1>9, <3>3
  <2>3. CASE ~(n < Len(h))
    <3>1. rest' = <<>>
      BY <1>8, <1>11, <2>3 DEF Unread
    <3>2. Received' = Len(Carried)
      BY <2>1, <3>1 DEF Received
    <3> QED BY <1>7, <1>8, <1>9, <2>3, <3>2
  <2> QED BY <2>2, <2>3
<1>14. DoneWith(Offset)' = Offset
  <2>1. Offset' = Offset
    <3>1. Offset = Received - Len(in) /\ Offset' = (Received + n) - (Len(in) + n)
      BY <1>6, <1>12, <1>13 DEF Offset
    <3> QED BY <1>6, <1>7, <1>9, <3>1
  <2> QED BY <1>3, <2>1 DEF DoneWith
<1> QED BY <1>5, <1>14

LEMMA ReadEndClean ==
  ASSUME IInv, StreamInv, IInv', StreamInv', CleanInv, ReadEnd, transport = "stream", Clean(line)
  PROVE  CleanInv'
<1>1. line \in Lines /\ \E Q, G : CleanAt(Q, G)
  BY DEF CleanInv
<1>2. PICK Q, G : CleanAt(Q, G)
  BY <1>1
<1>3. pc = "reading" /\ pc' = "searching" /\ UNCHANGED <<line, transport, delivered>>
  BY DEF ReadEnd, history
<1>4. DoneWith(Offset) = Offset /\ DoneWith(Offset)' = Offset
  BY ReadEndStays
<1>5. Laid(Q, G) /\ Stands(Offset, delivered, Q, G)
  BY <1>2, <1>3, <1>4 DEF CleanAt
<1>6. PICK p, d : p = Offset /\ d = delivered
  OBVIOUS
<1> QED BY <1>1, <1>3, <1>4, <1>5, <1>6, CleanGoesOn

\* Where the Reader stands on the line before and after a search: q is behind the
\* frame it passed and what it skipped.
Moves(b, p, q, r) ==
  /\ b = Passed(buf) /\ p = DoneWith(Offset) /\ q = p + Skipped(b) /\ r = Received
  /\ Holds(b, p, r)

LEMMA SearchMoves ==
  ASSUME IInv, StreamInv, IInv', Search, transport = "stream"
  PROVE  \E b, p, q, r :
           /\ Moves(b, p, q, r) /\ Offset' = q /\ Holds(buf', q, r) /\ buf' = From(b, Skipped(b))
           /\ b \in Seq(Byte) /\ Skipped(b) \in 0 .. Len(b) /\ r - q = Len(b) - Skipped(b)
           /\ Len(buf') = r - q
<1> DEFINE b == Passed(buf)
           f == IF found THEN FrameSize(buf) ELSE 0
           n == Skipped(b)
<1>3. /\ pc = "searching" /\ pc' = (IF found' THEN "handling" ELSE "ending")
      /\ buf' = From(b, n) /\ found' = Found(buf') /\ UNCHANGED <<line, transport, rest, delivered>>
  BY DEF Search, history
<1>4. /\ Held = buf /\ Held' = buf' /\ buf \in Seq(Byte) /\ Len(buf) \in Nat
      /\ buf' \in Seq(Byte) /\ found \in BOOLEAN
  BY <1>3 DEF Held, IInv, Searching
<1>5. PICK m \in Nat, r \in Nat :
        /\ m = Offset /\ r = Received /\ Holds(buf, m, r) /\ r - m = Len(buf) /\ m <= r
        /\ r <= Len(Carried)
  <2>1. Holds(Held, Offset, Received) /\ Received - Offset = Len(Held)
    BY Located
  <2> QED BY <1>4, <2>1 DEF Holds
<1>6. Carried \in Seq(Byte) /\ Len(Carried) \in Nat /\ Carried' = Carried
  BY <1>3, LineStays, Located
<1>7. DoneWith(m) = m + f
  BY <1>3, <1>5 DEF DoneWith
<1>8. f \in 0 .. Len(buf) /\ b = Part(buf, f, Len(buf))
  <2>1. CASE found
    <3>1. FrameSize(buf) \in WrapperLength .. Len(buf)
      BY <2>1, FoundFits DEF IInv, Searching
    <3>2. WrapperLength = 8
      BY DEF WrapperLength, HeaderLength, ChecksumLength
    <3>3. PICK k \in Nat : k = FrameSize(buf) /\ k \in 0 .. Len(buf) /\ f = k
      BY <2>1, <3>1, <3>2
    <3>4. b = Part(buf, FrameSize(buf), Len(buf))
      BY <2>1 DEF Passed, From, Part
    <3> HIDE DEF b, f
    <3> QED BY <3>3, <3>4
  <2>2. CASE ~found
    BY <1>4, <2>2, WholePart DEF Passed
  <2> QED BY <2>1, <2>2
<1>17. b = Passed(buf)
  OBVIOUS
<1> HIDE DEF b, f
<1>9. PICK p \in Nat : p = m + f /\ p <= r /\ Holds(b, p, r)
  <2>1. f \in Nat /\ f <= Len(buf) /\ Len(buf) <= r - m /\ m + Len(buf) = r /\ m + f <= r
    BY <1>4, <1>5, <1>8
  <2>2. Part(Part(Carried, m, r), f, Len(buf)) = Part(Carried, m + f, m + Len(buf))
    BY <1>4, <1>5, <1>6, <2>1, PartOfPart
  <2>3. b = Part(Carried, m + f, r)
    BY <1>5, <1>8, <2>1, <2>2 DEF Holds
  <2> QED BY <1>5, <2>1, <2>3 DEF Holds
<1>10. b \in Seq(Byte) /\ Len(b) = r - p /\ Len(b) \in Nat
  <2>1. Part(Carried, p, r) \in Seq(Byte) /\ Len(Part(Carried, p, r)) = r - p
    BY <1>5, <1>6, <1>9, PartProperties
  <2> QED BY <1>5, <1>9, <2>1 DEF Holds
<1>11. n \in 0 .. Len(b) /\ n = Skipped(b)
  BY <1>10, SearchStops
<1> HIDE DEF n
<1>13. PICK q \in Nat : q = p + n /\ q <= r /\ r - q = Len(b) - n
  BY <1>9, <1>10, <1>11
<1>14. buf' = Part(b, n, Len(b)) /\ Len(buf') = r - q
  <2>1. From(b, n) = Part(b, n, Len(b)) /\ Len(From(b, n)) = Len(b) - n
    BY <1>10, <1>11, FromType DEF From, Part
  <2> QED BY <1>3, <1>13, <2>1
<1>15. Holds(buf', q, r)
  <2>1. n \in Nat /\ Len(b) \in Nat /\ n <= Len(b) /\ Len(b) <= r - p /\ p + Len(b) = r
    BY <1>9, <1>10, <1>11
  <2>2. Part(Part(Carried, p, r), n, Len(b)) = Part(Carried, p + n, p + Len(b))
    <3>1. PICK size \in Nat : size = Len(b) /\ n <= size /\ size <= r - p
      BY <2>1
    <3>2. n \in Nat /\ p \in Nat /\ r \in Nat /\ p <= r /\ r <= Len(Carried)
      BY <1>5, <1>9, <2>1
    <3>4. PICK a \in Nat : a = n /\ a <= size
      BY <3>1, <3>2
    <3>5. PICK s \in Seq(Byte) : s = Carried
      BY <1>6
    <3>3. Part(Part(s, p, r), a, size) = Part(s, p + a, p + size)
      <4>1. s \in Seq(Byte) /\ p <= r /\ r <= Len(s) /\ 0 <= a /\ a <= size /\ size <= r - p
        BY <3>1, <3>2, <3>4, <3>5
      <4> QED BY <4>1, PartOfPart
    <3> QED BY <3>1, <3>3, <3>4, <3>5
  <2> QED BY <1>5, <1>9, <1>13, <1>14, <2>1, <2>2 DEF Holds
<1>16. Offset' = q
  <2>1. Received' = r
    BY <1>3, <1>5, <1>6 DEF Received
  <2>2. Offset' = r - (r - q)
    BY <1>4, <1>14, <2>1 DEF Offset
  <2> QED BY <1>13, <2>2
<1>18. Moves(b, p, q, r)
  BY <1>5, <1>7, <1>9, <1>11, <1>13, <1>17 DEF Moves
<1>19. buf' = From(b, Skipped(b)) /\ Skipped(b) \in 0 .. Len(b) /\ r - q = Len(b) - Skipped(b)
  BY <1>3, <1>11, <1>13
<1> QED BY <1>10, <1>14, <1>15, <1>16, <1>18, <1>19

LEMMA SearchClean ==
  ASSUME IInv, StreamInv, IInv', StreamInv', CleanInv, Search, transport = "stream", Clean(line)
  PROVE  CleanInv'
<1>1. line \in Lines /\ \E Q, G : CleanAt(Q, G)
  BY DEF CleanInv
<1>2. PICK Q, G : CleanAt(Q, G)
  BY <1>1
<1>3. /\ pc = "searching" /\ pc' = (IF found' THEN "handling" ELSE "ending")
      /\ found' = Found(buf') /\ UNCHANGED <<line, transport, delivered>>
  BY DEF Search, history
<1>4. Held' = buf' /\ buf' \in Seq(Byte)
  BY <1>3 DEF Held, IInv, Searching
<1>5. PICK b, p, q, r :
        /\ Moves(b, p, q, r) /\ Offset' = q /\ Holds(buf', q, r) /\ buf' = From(b, Skipped(b))
        /\ b \in Seq(Byte) /\ Skipped(b) \in 0 .. Len(b) /\ r - q = Len(b) - Skipped(b)
        /\ Len(buf') = r - q
  BY SearchMoves
<1>6. Holds(b, p, r) /\ p = DoneWith(Offset) /\ q = p + Skipped(b)
  BY <1>5 DEF Moves
<1>7. PICK d : d = delivered
  OBVIOUS
<1>8. Laid(Q, G) /\ Stands(p, d, Q, G)
  BY <1>2, <1>3, <1>6, <1>7 DEF CleanAt
<1>9. PICK n \in 0 .. Len(b) : n = Skipped(b) /\ Len(b) \in Nat /\ (n < Len(b) => Starts(b, n + 1))
  BY <1>5, SearchStops
<1>10. Stands(q, d, Q, G)
  BY <1>1, <1>6, <1>8, PassSkipped
<1>14. buf' = Part(b, n, Len(b)) /\ Len(buf') = Len(b) - n
  BY <1>5, <1>9 DEF From, Part
<1>17. Laid(Q, G)' /\ line' \in Lines
  BY <1>1, <1>3, <1>8, LineStays
<1>18. CASE found'
  <2>1. PICK c : c = buf'
    OBVIOUS
  <2>2. Found(c) /\ Holds(c, q, r)
    BY <1>3, <1>5, <1>18, <2>1
  <2>3. \E j \in 1 .. Len(line) :
         /\ Q[j - 1] = q /\ Framed(line[j]) /\ d = FramesOf(G[j - 1])
         /\ Whole(c) = line[j].bytes /\ q + FrameSize(c) = Q[j]
    BY <1>1, <1>8, <1>10, <2>2, FoundOnLine
  <2>4. PICK j \in 1 .. Len(line) :
          /\ Q[j - 1] = q /\ Framed(line[j]) /\ d = FramesOf(G[j - 1])
          /\ Whole(c) = line[j].bytes /\ q + FrameSize(c) = Q[j]
    BY <2>3
  <2>5. Whole(buf)' = Whole(c) /\ FrameSize(buf)' = FrameSize(c)
    BY <2>1 DEF Whole, FrameSize, PayloadLength
  <2>6. AtPiece(j, Offset, delivered, Q, G)'
    BY <1>3, <1>5, <1>7, <2>4, <2>5 DEF AtPiece, Framed
  <2>7. CleanAt(Q, G)'
    BY <1>3, <1>17, <1>18, <2>6 DEF CleanAt
  <2> QED BY <1>17, <2>7 DEF CleanInv
<1>19. CASE ~found'
  <2>1. pc' = "ending" /\ ~Found(buf')
    BY <1>3, <1>19
  <2>2. DoneWith(Offset)' = q
    BY <1>5, <2>1 DEF DoneWith
  <2>3. Waits'
    <3>1. ASSUME Held' # <<>> PROVE Starts(Held', 1) /\ ~Found(Held')
      <4>1. n < Len(b)
        <5>1. Len(buf') # 0
          BY <1>4, <3>1, EmptySeq
        <5> QED BY <1>9, <1>14, <5>1
      <4>2. Starts(b, n + 1)
        BY <1>9, <4>1
      <4>3. PICK k \in Nat : k = Len(b) - n /\ Len(buf') = k /\ k >= 1 /\ n + k = Len(b)
        BY <1>9, <1>14, <4>1
      <4>4. \A i \in 1 .. k : buf'[i] = b[n + i]
        <5>1. PICK a \in Nat, c \in Nat, s \in Seq(Byte) :
                a = n /\ c = Len(b) /\ s = b /\ a <= c /\ c <= Len(s) /\ c - a = k
          BY <1>5, <1>9, <4>3
        <5>2. \A i \in 1 .. c - a : Part(s, a, c)[i] = s[a + i]
          <6>1. a <= c /\ c <= Len(s)
            BY <5>1
          <6> QED BY <6>1, PartProperties
        <5> QED BY <1>14, <5>1, <5>2
      <4>5. buf'[1] = SyncA
        BY <4>2, <4>3, <4>4 DEF Starts
      <4>6. k # 1 => buf'[1 + 1] = SyncB
        <5>1. SUFFICES ASSUME k # 1 PROVE buf'[2] = SyncB
          OBVIOUS
        <5>0. PICK c \in Nat : c = Len(b)
          BY <1>9
        <5>4. n \in Nat /\ k \in Nat /\ k >= 1 /\ n + k = c
          BY <1>9, <4>3, <5>0
        <5>5. n + 1 # c /\ 2 \in 1 .. k /\ n + 1 + 1 = n + 2
          BY <5>1, <5>4
        <5>2. n + 1 # Len(b) /\ 2 \in 1 .. k /\ n + 1 + 1 = n + 2
          BY <5>0, <5>5
        <5>3. b[n + 2] = SyncB
          BY <4>2, <5>2 DEF Starts
        <5> QED BY <4>4, <5>2, <5>3
      <4>7. Starts(buf', 1)
        BY <4>3, <4>5, <4>6 DEF Starts
      <4> QED BY <1>4, <2>1, <4>7
    <3> QED BY <3>1 DEF Waits, Starts, Found, FrameSize, PayloadLength
  <2>4. delivered' = d /\ pc' # "handling"
    BY <1>3, <1>7, <2>1
  <2> QED BY <1>1, <1>3, <1>8, <1>10, <2>2, <2>3, <2>4, CleanGoesOn
<1> QED BY <1>18, <1>19

LEMMA FramesAppend ==
  ASSUME NEW s \in Seq(SentFrame), NEW w \in SentFrame
  PROVE  FramesOf(s \o <<w>>) = Append(FramesOf(s), w.frame)
<1> DEFINE n == Len(s)
           t == s \o <<w>>
<1>1. n \in Nat /\ t \in Seq(SentFrame) /\ Len(t) = n + 1
  OBVIOUS
<1>2. t[n + 1] = w /\ \A k \in 1 .. n : t[k] = s[k]
  OBVIOUS
<1> HIDE DEF t
<1>3. FramesOf(t) = [k \in 1 .. n + 1 |-> t[k].frame] /\ FramesOf(s) = [k \in 1 .. n |-> s[k].frame]
  BY <1>1 DEF FramesOf
<1>4. \A k \in 1 .. n + 1 : t[k].frame = IF k = n + 1 THEN w.frame ELSE s[k].frame
  BY <1>1, <1>2
<1>5. Append(FramesOf(s), w.frame) = [k \in 1 .. n + 1 |-> IF k = n + 1 THEN w.frame ELSE s[k].frame]
  <2>1. Len(FramesOf(s)) = n
    BY <1>1, <1>3
  <2> HIDE DEF n
  <2> QED BY <1>1, <1>3, <2>1
<1> QED BY <1>3, <1>4, <1>5 DEF t

\* A frame is handed over when, and only when, a handler waits for it.
LEMMA HandleClean ==
  ASSUME IInv, StreamInv, IInv', StreamInv', CleanInv, Handle, transport = "stream", Clean(line)
  PROVE  CleanInv'
<1>1. line \in Lines /\ \E Q, G : CleanAt(Q, G)
  BY DEF CleanInv
<1>2. PICK Q, G : CleanAt(Q, G)
  BY <1>1
<1>3. /\ pc = "handling" /\ found /\ pc' = "searching"
      /\ UNCHANGED <<line, transport, rest, buf, found>>
  BY DEF Handle, IInv, Searching, reader
<1>4. Laid(Q, G) /\ \E j : AtPiece(j, Offset, delivered, Q, G)
  BY <1>2, <1>3 DEF CleanAt
<1>5. PICK j : AtPiece(j, Offset, delivered, Q, G)
  BY <1>4
<1>6. /\ j \in 1 .. Len(line) /\ Framed(line[j]) /\ Q[j - 1] = Offset
      /\ Q[j] = Offset + FrameSize(buf) /\ Whole(buf) = line[j].bytes
      /\ delivered = FramesOf(G[j - 1])
  BY <1>5 DEF AtPiece
<1>7. DoneWith(Offset)' = Q[j]
  <2>1. Offset' = Offset
    BY <1>3, LineStays DEF Offset, Received, Held
  <2> QED BY <1>3, <1>6, <2>1 DEF DoneWith, FrameSize, PayloadLength
<1>8. Key(Whole(buf)) = Key(line[j].bytes) /\ (Intact(Whole(buf)) <=> IsFrame(line[j]))
  BY <1>6 DEF Clean, WellFramed
<1>9. PieceAt(j, Q) /\ Len(line) \in Nat
  BY <1>1, <1>4, <1>6, PiecesLaid
<1>10. G[j] = G[j - 1] \o Wanted(line, j) /\ G[j - 1] \in Seq(SentFrame) /\ G[j] \in Seq(SentFrame)
  <2>1. j - 1 \in 0 .. Len(line) /\ j \in 0 .. Len(line)
    BY <1>6, <1>9
  <2> QED BY <1>4, <1>6, <2>1 DEF Laid
<1>11. delivered' = FramesOf(G[j])
  <2>1. CASE Accepts(Whole(buf))
    <3>1. delivered' = Append(delivered, line[j].bytes)
      BY <1>6, <2>1 DEF Handle
    <3>2. PICK w : w = [frame |-> line[j].bytes, sure |-> Sure(line, j)]
      OBVIOUS
    <3>3. Wanted(line, j) = <<w>> /\ w.frame = line[j].bytes
      BY <1>8, <2>1, <3>2 DEF Accepts, Wanted
    <3>4. PICK s \in Seq(SentFrame) : s = G[j - 1] /\ G[j] = s \o <<w>>
      BY <1>10, <3>3
    <3>5. w \in SentFrame
      BY <1>1, <1>6, <3>2, WantedTyped
    <3>6. FramesOf(s \o <<w>>) = Append(FramesOf(s), w.frame)
      BY <3>5, FramesAppend
    <3> QED BY <1>6, <3>1, <3>3, <3>4, <3>6
  <2>2. CASE ~Accepts(Whole(buf))
    <3>1. delivered' = delivered
      BY <2>2 DEF Handle
    <3>2. Wanted(line, j) = <<>>
      BY <1>8, <2>2 DEF Accepts, Wanted
    <3>3. G[j] = G[j - 1]
      BY <1>10, <3>2, ConcatEmptySeq
    <3> QED BY <1>6, <3>1, <3>3
  <2> QED BY <2>1, <2>2
<1>12. PICK d, p : d = delivered' /\ p = Q[j]
  OBVIOUS
<1>13. Stands(p, d, Q, G)
  <2>1. Passing(j, p, Q)
    <3>1. j \in 0 .. Len(line) /\ Q[j] \in Nat /\ Q[j] <= Len(Carried)
      BY <1>6, <1>9 DEF PieceAt
    <3> QED BY <1>12, <3>1 DEF Passing
  <2> QED BY <1>11, <1>12, <2>1 DEF Stands
<1> QED BY <1>1, <1>3, <1>4, <1>7, <1>12, <1>13, CleanGoesOn

\* Steps that leave the stream, and what is held of it, where they are.
LEMMA CleanUnmoved ==
  ASSUME CleanInv, transport = "stream", Clean(line),
         UNCHANGED <<line, transport, rest, delivered>>, Held' = Held,
         pc # "handling", pc' # "handling", DoneWith(Offset) = Offset,
         \A m : DoneWith(m)' = m,
         pc' \in {"posted", "reading", "ending"} => pc \in {"posted", "reading", "ending"}
  PROVE  CleanInv'
<1>1. line \in Lines /\ \E Q, G : CleanAt(Q, G)
  BY DEF CleanInv
<1>2. PICK Q, G : CleanAt(Q, G)
  BY <1>1
<1>3. Laid(Q, G) /\ Stands(Offset, delivered, Q, G)
  BY <1>2 DEF CleanAt
<1>4. Received' = Received /\ Offset' = Offset
  BY LineStays DEF Received, Offset
<1>5. DoneWith(Offset)' = Offset
  BY <1>4
<1>6. (pc \in {"posted", "reading", "ending"} => Waits)'
  <2>1. Waits => Waits'
    BY DEF Waits, Starts, Found, FrameSize, PayloadLength
  <2> QED BY <1>2, <2>1 DEF CleanAt
<1>7. PICK p, d : p = Offset /\ d = delivered
  OBVIOUS
<1> QED BY <1>1, <1>3, <1>5, <1>6, <1>7, CleanGoesOn

LEMMA CleanStutters ==
  ASSUME CleanInv, transport = "stream", Clean(line), UNCHANGED vars
  PROVE  CleanInv'
<1>1. line \in Lines /\ \E Q, G : CleanAt(Q, G)
  BY DEF CleanInv
<1>2. PICK Q, G : CleanAt(Q, G)
  BY <1>1
<1>3. UNCHANGED <<line, transport, rest, in, pc, buf, found, delivered>>
  BY DEF vars
<1>4. Laid(Q, G)' /\ Carried' = Carried /\ \A p, d : Stands(p, d, Q, G) => Stands(p, d, Q, G)'
  BY <1>2, <1>3, LineStays DEF CleanAt
<1>5. Held' = Held /\ Offset' = Offset /\ DoneWith(Offset)' = DoneWith(Offset)
  BY <1>3, <1>4 DEF Held, Offset, Received, DoneWith, FrameSize, PayloadLength
<1>6. CASE pc = "handling"
  <2>1. PICK j : AtPiece(j, Offset, delivered, Q, G)
    BY <1>2, <1>6 DEF CleanAt
  <2>2. AtPiece(j, Offset, delivered, Q, G)'
    BY <1>3, <1>5, <2>1 DEF AtPiece, Framed, Whole, FrameSize, PayloadLength
  <2>3. CleanAt(Q, G)'
    BY <1>3, <1>4, <1>6, <2>2 DEF CleanAt
  <2> QED BY <1>1, <1>3, <2>3 DEF CleanInv
<1>7. CASE pc # "handling"
  <2>1. PICK p, d : p = DoneWith(Offset) /\ d = delivered
    OBVIOUS
  <2>2. Stands(p, d, Q, G) /\ Laid(Q, G)
    BY <1>2, <1>7, <2>1 DEF CleanAt
  <2>3. (pc \in {"posted", "reading", "ending"} => Waits)'
    BY <1>2, <1>3, <1>5 DEF CleanAt, Waits, Starts, Found, FrameSize, PayloadLength
  <2>4. DoneWith(Offset)' = p /\ delivered' = d /\ pc' # "handling"
    BY <1>3, <1>5, <1>7, <2>1
  <2> QED BY <1>1, <1>3, <2>2, <2>3, <2>4, CleanGoesOn
<1> QED BY <1>6, <1>7

LEMMA CleanKeeps ==
  ASSUME IInv, StreamInv, IInv', StreamInv', CleanInv, [Next]_vars
  PROVE  CleanInv'
<1>1. UNCHANGED <<line, transport>>
  BY DEF Next, DoRead, ReadEnd, ReadFails, Search, Handle, FinishRead, DropDatagram, vars
<1>2. CASE ~(transport = "stream" /\ Clean(line))
  BY <1>1, <1>2, LineStays DEF CleanInv
<1>3. CASE transport = "stream" /\ Clean(line)
  <2>1. CASE DoRead
    BY <1>3, <2>1, DoReadClean
  <2>2. CASE ReadEnd
    BY <1>3, <2>2, ReadEndClean
  <2>3. CASE ReadFails
    <3>1. /\ pc = "reading" /\ pc' = "posted" /\ Held' = Held
          /\ UNCHANGED <<line, transport, rest, delivered>>
      BY <2>3 DEF ReadFails, Held, history
    <3>2. DoneWith(Offset) = Offset /\ \A m : DoneWith(m)' = m
      BY <3>1 DEF DoneWith
    <3> QED BY <1>3, <3>1, <3>2, CleanUnmoved
  <2>4. CASE Search
    BY <1>3, <2>4, SearchClean
  <2>5. CASE Handle
    BY <1>3, <2>5, HandleClean
  <2>6. CASE FinishRead
    <3>1. /\ pc = "ending" /\ pc' = "posted" /\ Held' = Held
          /\ UNCHANGED <<line, transport, rest, delivered>>
      BY <2>6 DEF FinishRead, Kept, Held
    <3>2. DoneWith(Offset) = Offset /\ \A m : DoneWith(m)' = m
      BY <3>1 DEF DoneWith
    <3> QED BY <1>3, <3>1, <3>2, CleanUnmoved
  <2>7. CASE DropDatagram
    BY <1>3, <2>7 DEF DropDatagram
  <2>8. CASE UNCHANGED vars
    BY <1>3, <2>8, CleanStutters
  <2> QED BY <2>1, <2>2, <2>3, <2>4, <2>5, <2>6, <2>7, <2>8 DEF Next
<1> QED BY <1>2, <1>3

\* A clean line that came in over a stream, and has been read to its end, has
\* been handed over to the last frame, however its bytes fell into reads.
NothingLost ==
  transport = "stream" /\ Clean(line) /\ rest = <<>> /\ pc = "posted"
    => delivered = FramesOf(Sent(line))

\* No frame of a clean line is lost over a stream, whatever the cut of the line
\* into reads: once everything has been read, everything waited for has been
\* handed over, in order and nothing else.
THEOREM NothingEverLost == Spec => []NothingLost
<1>1. Init => IInv /\ StreamInv /\ CleanInv
  BY InitInv, StreamInit, CleanInit
<1>2. IInv /\ StreamInv /\ CleanInv /\ [Next]_vars => (IInv /\ StreamInv /\ CleanInv)'
  BY StepInv, StreamKeeps, CleanKeeps
<1>3. IInv /\ StreamInv /\ CleanInv => NothingLost
  <2> SUFFICES ASSUME IInv, StreamInv, CleanInv, transport = "stream", Clean(line),
                      rest = <<>>, pc = "posted"
               PROVE  delivered = FramesOf(Sent(line))
    BY DEF NothingLost
  <2>1. line \in Lines /\ \E Q, G : CleanAt(Q, G)
    BY DEF CleanInv
  <2>2. PICK Q, G : CleanAt(Q, G)
    BY <2>1
  <2>3. Laid(Q, G) /\ Stands(Offset, delivered, Q, G) /\ Waits
    <3>1. DoneWith(Offset) = Offset
      BY DEF DoneWith
    <3> QED BY <2>2, <3>1 DEF CleanAt
  <2>4. /\ Held = in /\ Holds(in, Offset, Received) /\ Len(in) \in Nat
        /\ Received = Len(Carried) /\ Received - Offset = Len(in) /\ Len(Carried) \in Nat
        /\ Offset \in Nat
    BY Located DEF Held, IInv, Room, Holds
  <2>5. ~(Len(in) >= 2)
    <3>1. SUFFICES ASSUME Len(in) >= 2 PROVE FALSE
      OBVIOUS
    <3>2. in # <<>>
      BY <3>1
    <3>3. Starts(in, 1) /\ ~Found(in)
      BY <2>3, <2>4, <3>2 DEF Waits
    <3>4. Received < Len(Carried)
      BY <2>1, <2>3, <2>4, <3>1, <3>3, RoomForFrame
    <3> QED BY <2>4, <3>4
  <2>6. PICK m \in Nat : m = Offset /\ Len(Carried) <= m + 1
    BY <2>4, <2>5
  <2> QED BY <2>1, <2>3, <2>6, AllPassed
<1> QED BY <1>1, <1>2, <1>3, PTL DEF Spec

\* What is waited for up to some piece begins the list of all that is.
LEMMA SentGrows ==
  ASSUME line \in Lines, NEW Q, NEW G, Laid(Q, G), NEW i \in 0 .. Len(line)
  PROVE  /\ Len(G[i]) <= Len(Sent(line))
         /\ \A k \in 1 .. Len(G[i]) : Sent(line)[k] = G[i][k]
<1> DEFINE N == Len(line)
           Begins(n) == /\ Len(G[i]) <= Len(G[n])
                        /\ \A k \in 1 .. Len(G[i]) : G[n][k] = G[i][k]
           T == {n \in i .. N : ~Begins(n)}
<1>1. N \in Nat /\ G[N] = Sent(line)
  BY PiecesLaid DEF Laid
<1>2. ASSUME NEW n \in 0 .. N PROVE G[n] \in Seq(SentFrame) /\ Len(G[n]) \in Nat
  <2>1. G[n] \in Seq(SentFrame)
    BY DEF Laid
  <2> QED BY <2>1
<1>3. ASSUME NEW n \in 1 .. N PROVE Wanted(line, n) \in Seq(SentFrame) /\ G[n] = G[n - 1] \o Wanted(line, n)
  BY WantedTyped DEF Laid
<1> HIDE DEF N
<1>4. i \in 0 .. N /\ N \in i .. N
  BY <1>1 DEF N
<1>5. SUFFICES ASSUME T # {} PROVE FALSE
  <2>1. N \in T \/ Begins(N)
    BY <1>4
  <2> QED BY <1>1, <2>1
<1>6. PICK n \in T : \A y \in T : n <= y
  <2>1. T \subseteq Nat
    BY <1>4
  <2> HIDE DEF T
  <2> QED BY <1>5, <2>1, LeastNat
<1>7. n \in i .. N /\ ~Begins(n)
  OBVIOUS
<1>8. n # i
  BY <1>2, <1>4, <1>7
<1>9. n \in 1 .. N /\ n - 1 \in 0 .. N /\ n - 1 \in i .. N /\ n - 1 \notin T
  <2> HIDE DEF T, Begins
  <2> QED BY <1>1, <1>4, <1>6, <1>7, <1>8
<1>10. Begins(n - 1)
  <2> HIDE DEF Begins
  <2> QED BY <1>9
<1>11. PICK s \in Seq(SentFrame), w \in Seq(SentFrame) : s = G[n - 1] /\ G[n] = s \o w
  BY <1>2, <1>3, <1>9
<1>12. /\ Len(s \o w) = Len(s) + Len(w) /\ Len(s) \in Nat /\ Len(w) \in Nat
       /\ \A k \in 1 .. Len(s) : (s \o w)[k] = s[k]
  BY ConcatProperties
<1>13. Len(G[i]) \in Nat
  BY <1>2, <1>4
<1>14. Begins(n)
  BY <1>10, <1>11, <1>12, <1>13
<1> QED BY <1>7, <1>14

\* Where what is waited for comes from; no two are the same.
Distinct(i, G) ==
  /\ \A k \in 1 .. Len(G[i]) : \E j \in 1 .. i : IsFrame(line[j]) /\ G[i][k].frame = line[j].bytes
  /\ \A k, n \in 1 .. Len(G[i]) : G[i][k].frame = G[i][n].frame => k = n

LEMMA SentDistinct ==
  ASSUME line \in Lines, FramesDiffer(line), NEW Q, NEW G, Laid(Q, G)
  PROVE  Distinct(Len(line), G)
<1> DEFINE N == Len(line)
           T == {n \in 0 .. N : ~Distinct(n, G)}
<1>1. N \in Nat /\ G[0] = <<>>
  BY PiecesLaid DEF Laid
<1>2. ASSUME NEW n \in 0 .. N PROVE G[n] \in Seq(SentFrame) /\ Len(G[n]) \in Nat
  <2>1. G[n] \in Seq(SentFrame)
    BY DEF Laid
  <2> QED BY <2>1
<1>3. ASSUME NEW n \in 1 .. N PROVE G[n] = G[n - 1] \o Wanted(line, n)
  BY DEF Laid
<1>4. ASSUME NEW i \in 1 .. N, NEW j \in 1 .. N, IsFrame(line[i]), IsFrame(line[j]),
             line[i].bytes = line[j].bytes
      PROVE  i = j
  BY <1>4 DEF FramesDiffer
<1>5. ASSUME NEW n \in 1 .. N PROVE
        \/ Wanted(line, n) = <<>>
        \/ \E w \in SentFrame : Wanted(line, n) = <<w>> /\ IsFrame(line[n]) /\ w.frame = line[n].bytes
  <2>1. PICK w \in SentFrame : w = [frame |-> line[n].bytes, sure |-> Sure(line, n)]
    BY WantedTyped
  <2> QED BY <2>1 DEF Wanted
<1> HIDE DEF N
<1>6. SUFFICES ASSUME T # {} PROVE FALSE
  <2>1. N \in 0 .. N
    BY <1>1
  <2> QED BY <2>1 DEF N
<1>7. PICK n \in T : \A y \in T : n <= y
  <2>1. T \subseteq Nat
    OBVIOUS
  <2> HIDE DEF T
  <2> QED BY <1>6, <2>1, LeastNat
<1>8. n \in 0 .. N /\ ~Distinct(n, G)
  OBVIOUS
<1>9. n # 0
  <2>1. Len(G[0]) = 0 /\ 1 .. 0 = {}
    BY <1>1
  <2> QED BY <1>8, <2>1 DEF Distinct
<1>10. n \in 1 .. N /\ n - 1 \in 0 .. N /\ n - 1 \notin T
  <2> HIDE DEF T
  <2> QED BY <1>1, <1>7, <1>8, <1>9
<1>11. Distinct(n - 1, G)
  BY <1>10
<1>12. PICK s \in Seq(SentFrame), m \in Nat : s = G[n - 1] /\ m = Len(s)
  BY <1>2, <1>10
<1>13. /\ \A k \in 1 .. m : \E j \in 1 .. n - 1 : IsFrame(line[j]) /\ s[k].frame = line[j].bytes
       /\ \A k, l \in 1 .. m : s[k].frame = s[l].frame => k = l
  BY <1>11, <1>12 DEF Distinct
<1>14. \A j \in 1 .. n - 1 : j \in 1 .. n /\ j \in 1 .. N /\ j # n
  BY <1>1, <1>10
<1>15. CASE Wanted(line, n) = <<>>
  <2>1. G[n] = s
    BY <1>3, <1>10, <1>12, <1>15, ConcatEmptySeq
  <2>2. \A k \in 1 .. m : \E j \in 1 .. n : IsFrame(line[j]) /\ s[k].frame = line[j].bytes
    BY <1>13, <1>14
  <2>3. Distinct(n, G)
    BY <1>12, <1>13, <2>1, <2>2 DEF Distinct
  <2> QED BY <1>8, <2>3
<1>16. CASE Wanted(line, n) # <<>>
  <2>1. PICK w \in SentFrame : Wanted(line, n) = <<w>> /\ IsFrame(line[n]) /\ w.frame = line[n].bytes
    BY <1>5, <1>10, <1>16
  <2>2. PICK t : t = G[n] /\ t = s \o <<w>>
    BY <1>3, <1>10, <1>12, <2>1
  <2>3. Len(t) = m + 1 /\ t[m + 1] = w /\ \A k \in 1 .. m : t[k] = s[k]
    <3>1. PICK S : S = SentFrame /\ s \in Seq(S) /\ w \in S
      OBVIOUS
    <3> QED BY <1>12, <2>2, <3>1
  <2>4. \A k \in 1 .. m + 1 : k = m + 1 \/ k \in 1 .. m
    BY <1>12
  <2>5. \A k \in 1 .. m + 1 : \E j \in 1 .. n : IsFrame(line[j]) /\ t[k].frame = line[j].bytes
    <3>1. n \in 1 .. n
      BY <1>1, <1>10
    <3> QED BY <1>13, <1>14, <2>1, <2>3, <2>4, <3>1
  <2>6. \A k \in 1 .. m : t[k].frame # t[m + 1].frame
    <3>1. SUFFICES ASSUME NEW k \in 1 .. m, s[k].frame = w.frame PROVE FALSE
      BY <2>3
    <3>2. PICK j \in 1 .. n - 1 : IsFrame(line[j]) /\ s[k].frame = line[j].bytes
      BY <1>13
    <3>3. j \in 1 .. N /\ j # n
      BY <1>14
    <3> QED BY <1>4, <1>10, <2>1, <3>1, <3>2, <3>3
  <2>7. \A k, l \in 1 .. m + 1 : t[k].frame = t[l].frame => k = l
    BY <1>13, <2>3, <2>4, <2>6
  <2>8. Distinct(n, G)
    <3>1. PICK c : c = m + 1 /\ Len(t) = c
      BY <2>3
    <3>2. /\ \A k \in 1 .. c : \E j \in 1 .. n : IsFrame(line[j]) /\ t[k].frame = line[j].bytes
          /\ \A k, l \in 1 .. c : t[k].frame = t[l].frame => k = l
      BY <2>5, <2>7, <3>1
    <3> QED BY <2>2, <3>1, <3>2 DEF Distinct
  <2> QED BY <1>8, <2>8
<1> QED BY <1>15, <1>16

\* The refinement mapping: pending are the frames behind those handed over.
PendingAfter(d) ==
  LET sent == Sent(line)
      done == {k \in 1 .. Len(sent) : d # <<>> /\ sent[k].frame = Last(d)}
      last == IF done = {} THEN 0 ELSE CHOOSE k \in done : TRUE
  IN  SubSeq(sent, last + 1, Len(sent))

LEMMA PendingIs ==
  ASSUME line \in Lines, FramesDiffer(line), NEW Q, NEW G, Laid(Q, G),
         NEW i \in 0 .. Len(line), NEW d, d = FramesOf(G[i])
  PROVE  PendingAfter(d) = SubSeq(Sent(line), Len(G[i]) + 1, Len(Sent(line)))
<1>1. Len(line) \in Nat /\ G[Len(line)] = Sent(line)
  BY PiecesLaid DEF Laid
<1>2. PICK sent \in Seq(SentFrame), n \in Nat : sent = Sent(line) /\ n = Len(sent)
  <2>1. Len(line) \in 0 .. Len(line)
    BY <1>1
  <2> QED BY <1>1, <2>1 DEF Laid
<1>3. PICK s \in Seq(SentFrame), m \in Nat : s = G[i] /\ m = Len(s)
  BY DEF Laid
<1>4. m <= n /\ \A k \in 1 .. m : sent[k] = s[k]
  BY <1>2, <1>3, SentGrows
<1>5. \A k, l \in 1 .. n : sent[k].frame = sent[l].frame => k = l
  <2>1. Distinct(Len(line), G)
    BY SentDistinct
  <2>2. \A k, l \in 1 .. Len(G[Len(line)]) :
          G[Len(line)][k].frame = G[Len(line)][l].frame => k = l
    BY <2>1 DEF Distinct
  <2>3. G[Len(line)] = sent
    BY <1>1, <1>2
  <2> QED BY <1>2, <2>2, <2>3
<1>6. d = [k \in 1 .. m |-> s[k].frame] /\ Len(d) = m
  BY <1>3 DEF FramesOf
<1> DEFINE done == {k \in 1 .. n : d # <<>> /\ sent[k].frame = Last(d)}
           last == IF done = {} THEN 0 ELSE CHOOSE k \in done : TRUE
<1>7. last = m
  <2>1. CASE m = 0
    <3>1. d = <<>>
      BY <1>6, <2>1
    <3>2. done = {}
      BY <3>1
    <3> QED BY <2>1, <3>2
  <2>2. CASE m # 0
    <3>1. m \in 1 .. m /\ m \in 1 .. n
      BY <1>2, <1>3, <1>4, <2>2
    <3>2. d # <<>> /\ Last(d) = sent[m].frame
      <4>1. Last(d) = d[m] /\ d[m] = s[m].frame
        BY <1>6, <3>1 DEF Last
      <4>2. d # <<>>
        BY <1>6, <2>2
      <4> QED BY <1>4, <3>1, <4>1, <4>2
    <3>3. done = {m}
      BY <1>5, <3>1, <3>2
    <3> HIDE DEF done
    <3> QED BY <3>3
  <2> QED BY <2>1, <2>2
<1>8. PendingAfter(d) = SubSeq(sent, last + 1, Len(sent))
  BY <1>2 DEF PendingAfter
<1> HIDE DEF last
<1> QED BY <1>2, <1>3, <1>7, <1>8

\* A clean line whose frames differ, over a stream.
Plain == transport = "stream" /\ Clean(line) /\ FramesDiffer(line)

LEMMA SentStays ==
  ASSUME UNCHANGED <<line, transport>>
  PROVE  Sent(line)' = Sent(line)
<1>1. ASSUME NEW i PROVE Wanted(line, i)' = Wanted(line, i)
  BY DEF Wanted, Sure, IsFrame, Key, Reaches, Reach, StartOf, PieceBytes, FrameSize, PayloadLength
<1> QED BY <1>1 DEF Sent

LEMMA PendingStays ==
  ASSUME UNCHANGED <<line, transport, delivered>>
  PROVE  Pending' = Pending
BY SentStays DEF Pending

LEMMA PendingMoves ==
  ASSUME UNCHANGED <<line, transport>>
  PROVE  Pending = PendingAfter(delivered) /\ Pending' = PendingAfter(delivered')
BY SentStays DEF Pending, PendingAfter

\* The rest of a sequence: its first item, and what is behind that.
LEMMA RestAndNext ==
  ASSUME NEW S, NEW s \in Seq(S), NEW m \in Nat, m + 1 <= Len(s)
  PROVE  LET p == SubSeq(s, m + 1, Len(s))
             n == Len(s)
         IN  /\ p \in Seq(S) /\ Len(p) = n - m /\ p[1] = s[m + 1]
             /\ SubSeq(p, 2, n - m) = SubSeq(s, m + 2, n)
<1> DEFINE n == Len(s)
           p == SubSeq(s, m + 1, n)
           t == SubSeq(s, m + 2, n)
           u == SubSeq(p, 2, n - m)
<1>1. n \in Nat /\ m + 1 <= n /\ \A i \in 1 .. n : s[i] \in S
  OBVIOUS
<1> HIDE DEF n
<1>2. p \in Seq(S) /\ Len(p) = n - m /\ \A i \in 1 .. n - m : p[i] = s[m + i]
  <2>1. m + 1 \in Int /\ n \in Int /\ \A i \in m + 1 .. n : s[i] \in S
    BY <1>1
  <2>2. /\ p \in Seq(S) /\ Len(p) = (IF m + 1 <= n THEN n - (m + 1) + 1 ELSE 0)
        /\ \A i \in 1 .. n - (m + 1) + 1 : p[i] = s[(m + 1) + i - 1]
    BY <2>1, SubSeqProperties
  <2>3. n - (m + 1) + 1 = n - m /\ \A i \in 1 .. n - m : (m + 1) + i - 1 = m + i
    BY <1>1
  <2> QED BY <1>1, <2>2, <2>3
<1>3. t \in Seq(S) /\ Len(t) = n - m - 1 /\ \A i \in 1 .. n - m - 1 : t[i] = s[m + 1 + i]
  <2>1. m + 2 \in Int /\ n \in Int /\ \A i \in m + 2 .. n : s[i] \in S
    BY <1>1
  <2>2. /\ t \in Seq(S) /\ Len(t) = (IF m + 2 <= n THEN n - (m + 2) + 1 ELSE 0)
        /\ \A i \in 1 .. n - (m + 2) + 1 : t[i] = s[(m + 2) + i - 1]
    BY <2>1, SubSeqProperties
  <2>3. /\ n - (m + 2) + 1 = n - m - 1 /\ \A i \in 1 .. n - m - 1 : (m + 2) + i - 1 = m + 1 + i
        /\ ~(m + 2 <= n) => n - m - 1 = 0
    BY <1>1
  <2> QED BY <1>1, <2>2, <2>3
<1> HIDE DEF p, t
<1>4. PICK k \in Nat : k = n - m /\ k >= 1 /\ n - m - 1 = k - 1
  BY <1>1
<1>5. u \in Seq(S) /\ Len(u) = k - 1 /\ \A i \in 1 .. k - 1 : u[i] = p[1 + i]
  <2>1. 2 \in Int /\ k \in Int /\ \A i \in 2 .. k : p[i] \in S
    BY <1>2, <1>4
  <2>2. /\ SubSeq(p, 2, k) \in Seq(S) /\ Len(SubSeq(p, 2, k)) = (IF 2 <= k THEN k - 2 + 1 ELSE 0)
        /\ \A i \in 1 .. k - 2 + 1 : SubSeq(p, 2, k)[i] = p[2 + i - 1]
    BY <2>1, SubSeqProperties
  <2>3. k - 2 + 1 = k - 1 /\ (\A i \in 1 .. k - 1 : 2 + i - 1 = 1 + i) /\ (~(2 <= k) => k - 1 = 0)
    BY <1>4
  <2>4. u = SubSeq(p, 2, k)
    BY <1>4
  <2> HIDE DEF u
  <2> QED BY <2>2, <2>3, <2>4
<1> HIDE DEF u
<1>6. \A i \in 1 .. k - 1 : u[i] = t[i]
  <2>1. SUFFICES ASSUME NEW i \in 1 .. k - 1 PROVE u[i] = t[i]
    OBVIOUS
  <2>2. PICK c : c = 1 + i /\ c \in 1 .. n - m /\ m + c = m + 1 + i
    BY <1>4
  <2>3. u[i] = p[c] /\ p[c] = s[m + c]
    BY <1>2, <1>5, <2>2
  <2>4. t[i] = s[m + 1 + i]
    BY <1>3, <1>4
  <2> QED BY <2>2, <2>3, <2>4
<1>7. u = t
  BY <1>3, <1>4, <1>5, <1>6, SeqEqual
<1>8. p[1] = s[m + 1]
  <2>1. 1 \in 1 .. n - m
    BY <1>4
  <2> QED BY <1>2, <2>1
<1> QED BY <1>2, <1>7, <1>8 DEF p, t, u, n

\* A frame that is handed over is the next one pending.
LEMMA HandleDelivers ==
  ASSUME IInv, CleanInv, Plain, Handle
  PROVE  Channel!Deliver \/ UNCHANGED Channel!vars
<1>1. line \in Lines /\ \E Q, G : CleanAt(Q, G)
  BY DEF CleanInv, Plain
<1>2. PICK Q, G : CleanAt(Q, G)
  BY <1>1
<1>3. pc = "handling" /\ UNCHANGED <<line, transport>>
  BY DEF Handle
<1>4. Laid(Q, G) /\ \E j : AtPiece(j, Offset, delivered, Q, G)
  BY <1>2, <1>3 DEF CleanAt
<1>5. PICK j : AtPiece(j, Offset, delivered, Q, G)
  BY <1>4
<1>6. /\ j \in 1 .. Len(line) /\ Framed(line[j]) /\ Whole(buf) = line[j].bytes
      /\ delivered = FramesOf(G[j - 1])
  BY <1>5 DEF AtPiece
<1>7. Key(Whole(buf)) = Key(line[j].bytes) /\ (Intact(Whole(buf)) <=> IsFrame(line[j]))
  BY <1>6 DEF Plain, Clean, WellFramed
<1>8. PICK i \in 0 .. Len(line) : i = j - 1 /\ j \in 0 .. Len(line)
  <2>1. Len(line) \in Nat
    BY <1>1, <1>4, PiecesLaid
  <2> QED BY <1>6, <2>1
<1>9. Pending = SubSeq(Sent(line), Len(G[i]) + 1, Len(Sent(line)))
  <2>1. PICK d : d = delivered
    OBVIOUS
  <2>2. PendingAfter(d) = SubSeq(Sent(line), Len(G[i]) + 1, Len(Sent(line)))
    BY <1>1, <1>4, <1>6, <1>8, <2>1, PendingIs DEF Plain
  <2> QED BY <1>3, <2>1, <2>2, PendingMoves
<1>10. CASE ~Accepts(Whole(buf))
  <2>1. delivered' = delivered
    BY <1>10 DEF Handle
  <2> QED BY <1>3, <2>1, PendingStays DEF Channel!vars
<1>11. CASE Accepts(Whole(buf))
  <2>1. delivered' = Append(delivered, line[j].bytes)
    BY <1>6, <1>11 DEF Handle
  <2>2. PICK w \in SentFrame : w = [frame |-> line[j].bytes, sure |-> Sure(line, j)]
    BY <1>1, <1>6, WantedTyped
  <2>3. Wanted(line, j) = <<w>> /\ w.frame = line[j].bytes
    BY <1>7, <1>11, <2>2 DEF Accepts, Wanted
  <2>4. PICK s \in Seq(SentFrame), m \in Nat : s = G[i] /\ m = Len(s) /\ G[j] = s \o <<w>>
    <3>1. G[i] \in Seq(SentFrame)
      BY <1>4 DEF Laid
    <3>2. G[j] = G[j - 1] \o Wanted(line, j)
      BY <1>4, <1>6 DEF Laid
    <3>3. PICK s \in Seq(SentFrame) : s = G[i]
      BY <3>1
    <3>4. Len(s) \in Nat
      OBVIOUS
    <3> QED BY <1>8, <2>3, <3>2, <3>3, <3>4
  <2>5. PICK t \in Seq(SentFrame) :
          t = G[j] /\ Len(t) = m + 1 /\ t[m + 1] = w
    <3>1. PICK S : S = SentFrame
      OBVIOUS
    <3>2. s \in Seq(S) /\ w \in S /\ Len(s) = m
      BY <2>4, <3>1
    <3>3. s \o <<w>> \in Seq(S) /\ Len(s \o <<w>>) = m + 1 /\ (s \o <<w>>)[m + 1] = w
      BY <3>2
    <3> QED BY <2>4, <3>1, <3>3
  <2>6. PICK sent \in Seq(SentFrame), n \in Nat : sent = Sent(line) /\ n = Len(sent)
    <3>1. Len(line) \in 0 .. Len(line) /\ G[Len(line)] = Sent(line)
      BY <1>1, <1>4, PiecesLaid DEF Laid
    <3> QED BY <1>4, <3>1 DEF Laid
  <2>7. m + 1 <= n /\ sent[m + 1] = w
    <3>1. Len(t) <= Len(sent) /\ \A k \in 1 .. Len(t) : sent[k] = t[k]
      BY <1>1, <1>4, <1>8, <2>5, <2>6, SentGrows
    <3> QED BY <2>5, <2>6, <3>1
  <2>8. delivered' = FramesOf(G[j])
    <3>1. FramesOf(s \o <<w>>) = Append(FramesOf(s), w.frame)
      BY FramesAppend
    <3> QED BY <1>6, <1>8, <2>1, <2>3, <2>4, <3>1
  <2>9. Pending' = SubSeq(sent, m + 2, n)
    <3>1. PICK d : d = delivered' /\ d = FramesOf(G[j])
      BY <2>8
    <3>2. PendingAfter(d) = SubSeq(Sent(line), Len(G[j]) + 1, Len(Sent(line)))
      BY <1>1, <1>4, <1>8, <3>1, PendingIs DEF Plain
    <3>3. Len(G[j]) + 1 = m + 2
      BY <2>5
    <3> QED BY <1>3, <2>6, <3>1, <3>2, <3>3, PendingMoves
  <2>10. Pending = SubSeq(sent, m + 1, n)
    BY <1>9, <2>4, <2>6
  <2>11. PICK p \in Seq(SentFrame) :
           /\ p = SubSeq(sent, m + 1, n) /\ Len(p) = n - m /\ p[1] = w
           /\ SubSeq(p, 2, n - m) = SubSeq(sent, m + 2, n)
    BY <2>6, <2>7, RestAndNext
  <2>12. /\ 1 \in 1 .. Len(p)
         /\ \A k \in 1 .. 1 - 1 : ~p[k].sure
    BY <2>4, <2>6, <2>7, <2>11
  <2>13. /\ delivered' = Append(delivered, p[1].frame)
         /\ Pending' = SubSeq(p, 1 + 1, Len(p))
    <3>1. Len(p) = n - m /\ 1 + 1 = 2
      BY <2>11
    <3> QED BY <2>1, <2>3, <2>9, <2>11, <3>1
  <2>14. Channel!Deliver
    BY <2>10, <2>11, <2>12, <2>13 DEF Channel!Deliver
  <2> QED BY <2>14
<1> QED BY <1>10, <1>11

LEMMA StepDelivers ==
  ASSUME IInv, CleanInv, Plain, [Next]_vars
  PROVE  Channel!Deliver \/ UNCHANGED Channel!vars
<1>1. CASE Handle
  BY <1>1, HandleDelivers
<1>2. CASE ~Handle
  <2>1. UNCHANGED <<line, transport, delivered>>
    BY <1>2 DEF Next, DoRead, ReadEnd, ReadFails, Search, FinishRead, DropDatagram, vars, history
  <2> QED BY <2>1, PendingStays DEF Channel!vars
<1> QED BY <1>1, <1>2

\* Over a stream and a clean line whose frames differ, the read loop implements
\* FrameDelivery, however the line is cut into reads: its initial state is one of
\* FrameDelivery, and its every step hands over the next frame pending or nothing.
THEOREM ImplementsFrameDelivery ==
  Spec /\ Plain => Channel!Init /\ [][Channel!Deliver]_(Channel!vars)
<1>1. Init => IInv /\ StreamInv /\ CleanInv /\ Channel!Init
  BY InitInv, StreamInit, CleanInit DEF Init, Channel!Init
<1>2. IInv /\ StreamInv /\ CleanInv /\ Plain /\ [Next]_vars
        => (IInv /\ StreamInv /\ CleanInv /\ Plain)'
  <2>1. [Next]_vars => UNCHANGED <<line, transport>>
    BY DEF Next, DoRead, ReadEnd, ReadFails, Search, Handle, FinishRead, DropDatagram, vars
  <2>2. UNCHANGED <<line, transport>> /\ Plain => Plain'
    BY LineStays DEF Plain, FramesDiffer
  <2> QED BY <2>1, <2>2, StepInv, StreamKeeps, CleanKeeps
<1>3. IInv /\ CleanInv /\ Plain /\ [Next]_vars => [Channel!Deliver]_(Channel!vars)
  BY StepDelivers
<1> QED BY <1>1, <1>2, <1>3, PTL DEF Spec

-----------------------------------------------------------------------------
(* Sentences: what search() skips on a clean line is the line without its   *)
(* frames, in order, and handle_nmea() cuts the sentences sent out of it.   *)

\* Places never go back.
LEMMA LengthsRise ==
  ASSUME NEW S, NEW ss \in Seq(Seq(S)), NEW Q, Lengths(Q, ss),
         NEW i \in 0 .. Len(ss), NEW j \in 0 .. Len(ss), i <= j
  PROVE  Q[i] \in Nat /\ Q[j] \in Nat /\ Q[i] <= Q[j]
<1> DEFINE N == Len(ss)
<1>1. N \in Nat /\ \A k \in 1 .. N : Len(ss[k]) \in Nat
  <2>1. N \in Nat /\ \A k \in 1 .. N : ss[k] \in Seq(S)
    OBVIOUS
  <2> HIDE DEF N
  <2> QED BY <2>1
<1>2. Q \in [0 .. N -> Nat] /\ \A k \in 1 .. N : Q[k] = Q[k - 1] + Len(ss[k])
  BY DEF Lengths
<1>3. i \in 0 .. N /\ j \in 0 .. N
  OBVIOUS
<1> HIDE DEF N
<1> DEFINE T == {k \in i .. N : ~(Q[i] <= Q[k])}
<1>4. T = {}
  <2>1. SUFFICES ASSUME T # {} PROVE FALSE
    OBVIOUS
  <2>2. PICK k \in T : \A y \in T : k <= y
    <3>1. T \subseteq Nat
      BY <1>1, <1>3
    <3> HIDE DEF T
    <3> QED BY <2>1, <3>1, LeastNat
  <2>3. k \in i .. N /\ ~(Q[i] <= Q[k])
    OBVIOUS
  <2>4. k # i
    <3>1. Q[i] \in Nat
      BY <1>2, <1>3
    <3>2. PICK c \in Nat : c = Q[i] /\ c <= c
      BY <3>1
    <3> QED BY <2>3, <3>2
  <2>5. k \in 1 .. N /\ k - 1 \in i .. N /\ k - 1 \notin T
    <3> HIDE DEF T
    <3> QED BY <1>1, <1>3, <2>2, <2>3, <2>4
  <2>6. Q[i] <= Q[k - 1]
    BY <2>5
  <2>7. Q[k] = Q[k - 1] + Len(ss[k]) /\ Len(ss[k]) \in Nat /\ Q[k - 1] \in Nat /\ Q[i] \in Nat
    BY <1>1, <1>2, <1>3, <2>5
  <2> QED BY <2>3, <2>6, <2>7
<1>5. j \in i .. N
  BY <1>1, <1>3
<1> QED BY <1>2, <1>3, <1>4, <1>5

\* There is one way to lay sequences one behind the other.
LEMMA LengthsSame ==
  ASSUME NEW S, NEW ss \in Seq(Seq(S)), NEW Q, Lengths(Q, ss), NEW P, Lengths(P, ss)
  PROVE  Q = P
<1> DEFINE N == Len(ss)
           T == {k \in 0 .. N : Q[k] # P[k]}
<1>1. N \in Nat
  OBVIOUS
<1>2. /\ Q \in [0 .. N -> Nat] /\ Q[0] = 0 /\ \A k \in 1 .. N : Q[k] = Q[k - 1] + Len(ss[k])
      /\ P \in [0 .. N -> Nat] /\ P[0] = 0 /\ \A k \in 1 .. N : P[k] = P[k - 1] + Len(ss[k])
  BY DEF Lengths
<1> HIDE DEF N
<1>3. T = {}
  <2>1. SUFFICES ASSUME T # {} PROVE FALSE
    OBVIOUS
  <2>2. PICK k \in T : \A y \in T : k <= y
    <3>1. T \subseteq Nat
      OBVIOUS
    <3> HIDE DEF T
    <3> QED BY <2>1, <3>1, LeastNat
  <2>3. k \in 0 .. N /\ Q[k] # P[k]
    OBVIOUS
  <2>4. k # 0
    BY <1>2, <2>3
  <2>5. k \in 1 .. N /\ k - 1 \in 0 .. N /\ k - 1 \notin T
    <3> HIDE DEF T
    <3> QED BY <1>1, <2>2, <2>3, <2>4
  <2>6. Q[k - 1] = P[k - 1]
    BY <2>5
  <2> QED BY <1>2, <2>3, <2>5, <2>6
<1>4. \A k \in 0 .. N : Q[k] = P[k]
  BY <1>3
<1>5. Q = [k \in 0 .. N |-> Q[k]] /\ P = [k \in 0 .. N |-> P[k]]
  BY <1>2
<1>6. [k \in 0 .. N |-> Q[k]] = [k \in 0 .. N |-> P[k]]
  BY <1>4
<1> QED BY <1>5, <1>6

\* The line without its frames.
Fillers == [i \in 1 .. Len(line) |-> IF Framed(line[i]) THEN <<>> ELSE line[i].bytes]
Fill == FlattenSeq(Fillers)

\* The i-th piece lies in Fill behind R[i - 1] bytes, or is left out.
FilledAt(i, R) ==
  /\ R[i - 1] \in Nat /\ R[i] \in Nat /\ R[i - 1] <= R[i] /\ R[i] <= Len(Fill)
  /\ Framed(line[i]) => R[i] = R[i - 1]
  /\ ~Framed(line[i]) =>
       /\ R[i] = R[i - 1] + Len(line[i].bytes)
       /\ \A b \in 1 .. Len(line[i].bytes) : Fill[R[i - 1] + b] = line[i].bytes[b]

LEMMA FillersTyped ==
  ASSUME line \in Lines
  PROVE  /\ Fillers \in Seq(Seq(Byte)) /\ Len(line) \in Nat /\ Len(Fillers) = Len(line)
         /\ Fill \in Seq(Byte) /\ Len(Fill) \in Nat
<1>1. PieceBytes(line) \in Seq(Seq(Byte)) /\ Len(line) \in Nat
  BY BytesOfLine, FramingAssumption
<1> DEFINE N == Len(line)
<1>2. N \in Nat /\ \A i \in 1 .. N : line[i].bytes \in Seq(Byte)
  <2>1. Len(PieceBytes(line)) = N /\ \A i \in 1 .. N : PieceBytes(line)[i] = line[i].bytes
    BY <1>1 DEF PieceBytes
  <2>2. \A i \in 1 .. N : PieceBytes(line)[i] \in Seq(Byte)
    BY <1>1, <2>1
  <2> QED BY <1>1, <2>1, <2>2
<1>3. Fillers = [i \in 1 .. N |-> IF Framed(line[i]) THEN <<>> ELSE line[i].bytes]
  BY DEF Fillers
<1>4. \A i \in 1 .. N : (IF Framed(line[i]) THEN <<>> ELSE line[i].bytes) \in Seq(Byte)
  BY <1>2
<1> HIDE DEF N
<1>5. Fillers \in Seq(Seq(Byte)) /\ Len(Fillers) = N
  BY <1>2, <1>3, <1>4
<1>6. Fill \in Seq(Byte)
  BY <1>5, FlattenType DEF Fill
<1>7. Len(Fill) \in Nat
  BY <1>6
<1> QED BY <1>1, <1>5, <1>6, <1>7 DEF N

LEMMA FillLaid ==
  ASSUME line \in Lines, NEW R, Lengths(R, Fillers)
  PROVE  /\ R[0] = 0 /\ R[Len(line)] = Len(Fill)
         /\ \A i \in 1 .. Len(line) : FilledAt(i, R)
         /\ \A i, j \in 0 .. Len(line) : i <= j => R[i] <= R[j]
         /\ \A i \in 0 .. Len(line) : R[i] \in Nat
<1> DEFINE N == Len(line)
<1>1. Fillers \in Seq(Seq(Byte)) /\ N \in Nat /\ Len(Fillers) = N /\ Len(Fill) \in Nat
  BY FillersTyped
<1>2. \A i \in 1 .. N : Fillers[i] = IF Framed(line[i]) THEN <<>> ELSE line[i].bytes
  BY DEF Fillers
<1>3. Joined(Fill, Fillers, R, Byte)
  BY <1>1, FlattenPlaces DEF Fill
<1>4. /\ R \in [0 .. N -> Nat] /\ R[0] = 0 /\ R[N] = Len(Fill)
      /\ \A i \in 1 .. N : R[i] = R[i - 1] + Len(Fillers[i])
      /\ \A i \in 1 .. N : \A b \in 1 .. Len(Fillers[i]) : Fill[R[i - 1] + b] = Fillers[i][b]
  BY <1>1, <1>3 DEF Lengths, Joined
<1>5. \A i, j \in 0 .. N : i <= j => R[i] \in Nat /\ R[j] \in Nat /\ R[i] <= R[j]
  BY <1>1, LengthsRise
<1> HIDE DEF N
<1>6. ASSUME NEW i \in 1 .. N PROVE FilledAt(i, R)
  <2>1. i \in 0 .. N /\ i - 1 \in 0 .. N /\ N \in 0 .. N /\ i - 1 <= i /\ i <= N
    BY <1>1
  <2>2. /\ R[i - 1] \in Nat /\ R[i] \in Nat /\ R[i - 1] <= R[i] /\ R[i] <= Len(Fill)
    BY <1>4, <1>5, <2>1
  <2>3. CASE Framed(line[i])
    <3>1. Fillers[i] = <<>> /\ Len(<<>>) = 0
      BY <1>2, <2>3
    <3>2. R[i] = R[i - 1]
      BY <1>4, <2>2, <3>1
    <3> QED BY <2>2, <2>3, <3>2 DEF FilledAt
  <2>4. CASE ~Framed(line[i])
    <3>1. Fillers[i] = line[i].bytes
      BY <1>2, <2>4
    <3> QED BY <1>4, <2>2, <2>4, <3>1 DEF FilledAt
  <2> QED BY <2>3, <2>4
<1>7. \A i \in 0 .. N : i <= i
  BY <1>1
<1> QED BY <1>4, <1>5, <1>6, <1>7 DEF N

\* Place x of Fill is place p of the line.
Maps(p, x, Q, R) == \E i : Passing(i, p, Q) /\ x = R[i] + (p - Q[i])

\* Every place on the way through the line has its place in Fill.
LEMMA MapsInPiece ==
  ASSUME line \in Lines, Clean(line), NEW Q, NEW G, Laid(Q, G), NEW R, Lengths(R, Fillers),
         NEW p, NEW x, Maps(p, x, Q, R), NEW j, InPiece(j, p, Q)
  PROVE  p \in Nat /\ Q[j - 1] \in Nat /\ x = R[j - 1] + (p - Q[j - 1])
<1>1. PICK i : Passing(i, p, Q) /\ x = R[i] + (p - Q[i])
  BY DEF Maps
<1>2. i \in 0 .. Len(line) /\ p \in Nat /\ Q[i] <= p
  BY <1>1 DEF Passing
<1>3. j \in 1 .. Len(line) /\ Q[j - 1] <= p /\ p < Q[j]
  BY DEF InPiece
<1>4. Len(line) \in Nat
  BY PiecesLaid
<1>5. \A k, m \in 0 .. Len(line) : k <= m => Q[k] \in Nat /\ Q[m] \in Nat /\ Q[k] <= Q[m]
  <2>1. Pieces \in Seq(Seq(Byte)) /\ Len(Pieces) = Len(line)
    BY <1>4, BytesOfLine DEF Pieces, PieceBytes
  <2>2. Lengths(Q, Pieces)
    BY DEF Laid
  <2> QED BY <2>1, <2>2, LengthsRise
<1>6. PICK h : h = j - 1 /\ h \in 0 .. Len(line) /\ j \in 0 .. Len(line) /\ h + 1 = j
  BY <1>3, <1>4
<1>7. Q[h] \in Nat /\ Q[j] \in Nat /\ Q[i] \in Nat
  BY <1>2, <1>4, <1>5, <1>6
<1>8. i <= h
  <2>1. SUFFICES ASSUME ~(i <= h) PROVE FALSE
    OBVIOUS
  <2>2. j <= i
    BY <1>2, <1>6, <2>1
  <2>3. Q[j] <= Q[i]
    BY <1>2, <1>5, <1>6, <2>2
  <2> QED BY <1>2, <1>3, <1>7, <2>3
<1>9. CASE i = h
  BY <1>1, <1>2, <1>6, <1>7, <1>9
<1>10. CASE i # h
  <2>1. PICK k : k = i + 1 /\ k \in 1 .. Len(line) /\ k - 1 = i /\ k <= h /\ k \in 0 .. Len(line)
    BY <1>2, <1>4, <1>6, <1>8, <1>10
  <2>2. Q[k - 1] < Q[k] /\ Q[k] \in Nat
    BY <2>1, PlacesRise
  <2>3. Q[k] <= Q[h]
    BY <1>5, <1>6, <2>1
  <2>4. p # Q[i]
    BY <1>2, <1>3, <1>6, <1>7, <2>1, <2>2, <2>3
  <2>5. ~Framed(line[k]) /\ p <= Q[k]
    BY <1>1, <2>1, <2>4 DEF Passing
  <2>6. p = Q[k] /\ p = Q[h]
    BY <1>2, <1>3, <1>6, <1>7, <2>2, <2>3, <2>5
  <2>7. k = h
    <3>1. SUFFICES ASSUME k # h PROVE FALSE
      OBVIOUS
    <3>2. PICK m : m = k + 1 /\ m \in 1 .. Len(line) /\ m - 1 = k /\ m <= h /\ m \in 0 .. Len(line)
      BY <1>4, <1>6, <2>1, <3>1
    <3>3. Q[m - 1] < Q[m] /\ Q[m] \in Nat /\ Q[m] <= Q[h]
      BY <1>5, <1>6, <3>2, PlacesRise
    <3>4. PICK c \in Nat : c = Q[h] /\ c = Q[k]
      BY <1>7, <2>6
    <3>5. Q[m] > c /\ Q[m] <= c
      BY <3>2, <3>3, <3>4
    <3> QED BY <3>3, <3>4, <3>5
  <2>8. R[k] = R[i] + Len(line[k].bytes) /\ R[i] \in Nat /\ R[k] \in Nat
    <3>1. FilledAt(k, R)
      BY <2>1, FillLaid
    <3> QED BY <2>1, <2>5, <3>1 DEF FilledAt
  <2>9. Q[k] = Q[i] + Len(line[k].bytes) /\ Len(line[k].bytes) \in Nat
    BY <2>1, PiecesLaid DEF PieceAt
  <2>10. PICK c \in Nat : c = Len(line[k].bytes)
    BY <2>9
  <2>11. x = R[i] + c /\ R[k] = R[i] + c
    <3>1. PICK a \in Nat : a = Q[i]
      BY <1>7
    <3>3. p = a + c
      BY <2>6, <2>9, <2>10, <3>1
    <3>4. p - a = c
      BY <3>1, <3>3, <2>10
    <3>2. p - Q[i] = c
      BY <3>1, <3>4
    <3> QED BY <1>1, <2>8, <2>10, <3>2
  <2>12. p - Q[h] = 0 /\ R[h] + 0 = R[h]
    BY <1>7, <2>6, <2>7, <2>8
  <2> QED BY <1>2, <1>6, <1>7, <2>7, <2>11, <2>12
<1> QED BY <1>9, <1>10

\* The byte at place p of the line is the byte at place x of Fill, and both lead on.
Advances(p, x, Q, R) ==
  /\ Maps(p + 1, x + 1, Q, R) /\ p + 1 <= Len(Carried)
  /\ p \in Nat /\ x \in Nat /\ x + 1 <= Len(Fill) /\ Carried[p + 1] = Fill[x + 1]

\* One byte between the frames: it is the next byte of Fill.
LEMMA MapsOne ==
  ASSUME line \in Lines, Clean(line), NEW Q, NEW G, Laid(Q, G), NEW R, Lengths(R, Fillers),
         NEW p, NEW x, Maps(p, x, Q, R), Between(p, Q)
  PROVE  Advances(p, x, Q, R)
<1>1. PICK j : InPiece(j, p, Q) /\ ~Framed(line[j])
  BY DEF Between
<1>2. j \in 1 .. Len(line) /\ Q[j - 1] <= p /\ p < Q[j]
  BY <1>1 DEF InPiece
<1>3. p \in Nat /\ Q[j - 1] \in Nat /\ x = R[j - 1] + (p - Q[j - 1])
  BY <1>1, MapsInPiece
<1>4. PICK n \in Nat : n = Len(line[j].bytes)
  BY <1>2, PiecesLaid DEF PieceAt
<1>5. /\ Q[j] \in Nat /\ Q[j] = Q[j - 1] + n /\ Q[j] <= Len(Carried) /\ Len(Carried) \in Nat
      /\ \A b \in 1 .. n : Carried[Q[j - 1] + b] = line[j].bytes[b]
  BY <1>2, <1>4, PiecesLaid DEF PieceAt
<1>6. /\ R[j - 1] \in Nat /\ R[j] \in Nat /\ R[j] = R[j - 1] + n /\ R[j] <= Len(Fill)
      /\ \A b \in 1 .. n : Fill[R[j - 1] + b] = line[j].bytes[b]
  BY <1>1, <1>2, <1>4, FillLaid DEF FilledAt
<1>7. PICK k : k = p - Q[j - 1] /\ k \in 0 .. n - 1 /\ k + 1 \in 1 .. n /\ p = Q[j - 1] + k
  <2>1. PICK a \in Nat, c \in Nat : a = Q[j - 1] /\ c = Q[j]
    BY <1>3, <1>5
  <2>2. a <= p /\ p < c /\ c = a + n
    BY <1>2, <1>5, <2>1
  <2>3. p - a \in 0 .. n - 1 /\ p - a + 1 \in 1 .. n /\ p = a + (p - a)
    BY <1>3, <2>2
  <2> QED BY <2>1, <2>3
<1>8. PICK a \in Nat : a = Q[j - 1]
  BY <1>3
<1>9. PICK c \in Nat : c = R[j - 1]
  BY <1>6
<1>10. PICK cl \in Nat, fl \in Nat : cl = Len(Carried) /\ fl = Len(Fill)
  BY <1>5, FillersTyped
<1>11. p = a + k /\ x = c + k /\ k \in Nat /\ k + 1 <= n
  <2>1. p = a + k
    BY <1>7, <1>8
  <2>2. p - a = k
    BY <1>7, <1>8
  <2> QED BY <1>3, <1>7, <1>8, <1>9, <2>1, <2>2
<1>12. p + 1 = a + (k + 1) /\ x + 1 = c + (k + 1) /\ x \in Nat /\ x + 1 = c + (p + 1 - a)
  BY <1>11
<1>13. a + n <= cl /\ c + n <= fl
  BY <1>5, <1>6, <1>8, <1>9, <1>10
<1>14. p + 1 <= cl /\ x + 1 <= fl /\ a <= p + 1 /\ p + 1 <= a + n
  BY <1>11, <1>13
<1>15. Carried[p + 1] = Fill[x + 1]
  <2>1. Carried[a + (k + 1)] = line[j].bytes[k + 1] /\ Fill[c + (k + 1)] = line[j].bytes[k + 1]
    BY <1>5, <1>6, <1>7, <1>8, <1>9
  <2> QED BY <1>12, <2>1
<1>16. Maps(p + 1, x + 1, Q, R)
  <2>1. PICK i : i = j - 1 /\ i \in 0 .. Len(line) /\ i + 1 = j /\ i < Len(line)
    BY <1>2, PiecesLaid
  <2>2. PICK t \in Nat : t = p + 1 /\ t <= Len(Carried) /\ Q[i] <= t /\ t <= Q[j]
    <3>1. Q[i] = a /\ Q[j] = a + n /\ Len(Carried) = cl
      BY <1>5, <1>8, <1>10, <2>1
    <3>2. p + 1 \in Nat
      BY <1>3
    <3> QED BY <1>14, <3>1, <3>2
  <2>3. Passing(i, t, Q)
    BY <1>1, <2>1, <2>2 DEF Passing
  <2>4. x + 1 = R[i] + (t - Q[i])
    <3>1. Q[i] = a /\ R[i] = c
      BY <1>8, <1>9, <2>1
    <3>2. x + 1 = c + (t - a)
      BY <1>3, <1>12, <2>2
    <3> QED BY <3>1, <3>2
  <2> QED BY <2>2, <2>3, <2>4 DEF Maps
<1> QED BY <1>3, <1>10, <1>12, <1>14, <1>15, <1>16 DEF Advances

\* The s bytes from place p are bytes no frame holds.
AllBetween(p, s, Q) == \A n \in 1 .. s : Between(p + n - 1, Q)

\* All that a search skips is the next part of Fill.
LEMMA MapsSkipped ==
  ASSUME line \in Lines, Clean(line), NEW Q, NEW G, Laid(Q, G), NEW R, Lengths(R, Fillers),
         NEW p \in Nat, NEW x \in Nat, Maps(p, x, Q, R), x <= Len(Fill), p <= Len(Carried),
         NEW s \in Nat, AllBetween(p, s, Q)
  PROVE  /\ Maps(p + s, x + s, Q, R) /\ x + s <= Len(Fill)
         /\ Part(Carried, p, p + s) = Part(Fill, x, x + s)
<1>5. ASSUME NEW a, NEW c, Maps(a, c, Q, R), Between(a, Q)
      PROVE  /\ Maps(a + 1, c + 1, Q, R) /\ a + 1 <= Len(Carried)
             /\ c + 1 <= Len(Fill) /\ Carried[a + 1] = Fill[c + 1]
  <2>1. Maps(a, c, Q, R) /\ Between(a, Q)
    BY <1>5
  <2>2. Advances(a, c, Q, R)
    BY <2>1, MapsOne
  <2> QED BY <2>2 DEF Advances
<1> DEFINE Good(n) == /\ Maps(p + n, x + n, Q, R) /\ p + n <= Len(Carried) /\ x + n <= Len(Fill)
                      /\ n # 0 => Carried[p + n] = Fill[x + n]
           T == {n \in 0 .. s : ~Good(n)}
<1>0. Good(0)
  BY DEF Good
<1>1. ASSUME NEW n \in 1 .. s, Good(n - 1) PROVE Good(n)
  <2>1. PICK a, c : a = p + (n - 1) /\ c = x + (n - 1) /\ a + 1 = p + n
                                    /\ c + 1 = x + n /\ a = p + n - 1
    OBVIOUS
  <2>2. Maps(a, c, Q, R) /\ Between(a, Q)
    <3>1. Between(p + n - 1, Q)
      BY DEF AllBetween
    <3>2. Maps(p + (n - 1), x + (n - 1), Q, R)
      BY <1>1
    <3> QED BY <2>1, <3>1, <3>2
  <2>3. /\ Maps(a + 1, c + 1, Q, R) /\ a + 1 <= Len(Carried)
        /\ c + 1 <= Len(Fill) /\ Carried[a + 1] = Fill[c + 1]
    BY <2>2, <1>5
  <2> QED BY <2>1, <2>3
<1> HIDE DEF Good
<1>2. T = {}
  <2>1. SUFFICES ASSUME T # {} PROVE FALSE
    OBVIOUS
  <2>2. PICK n \in T : \A y \in T : n <= y
    <3>1. T \subseteq Nat
      OBVIOUS
    <3> HIDE DEF T
    <3> QED BY <2>1, <3>1, LeastNat
  <2>3. n \in 0 .. s /\ ~Good(n)
    OBVIOUS
  <2>4. n # 0
    BY <1>0, <2>3
  <2>5. n \in 1 .. s /\ n - 1 \in 0 .. s /\ n - 1 \notin T
    <3> HIDE DEF T
    <3> QED BY <2>2, <2>3, <2>4
  <2>6. Good(n - 1)
    BY <2>5
  <2> QED BY <1>1, <2>3, <2>5, <2>6
<1>3. \A n \in 0 .. s : Good(n)
  BY <1>2
<1>4. /\ Maps(p + s, x + s, Q, R) /\ p + s <= Len(Carried) /\ x + s <= Len(Fill)
      /\ \A n \in 1 .. s : Carried[p + n] = Fill[x + n]
  <2>1. s \in 0 .. s /\ \A n \in 1 .. s : n \in 0 .. s /\ n # 0
    OBVIOUS
  <2> QED BY <1>3, <2>1 DEF Good
<1>6. Part(Carried, p, p + s) = Part(Fill, x, x + s)
  <2>1. PICK c \in Seq(Byte), f \in Seq(Byte) : c = Carried /\ f = Fill
    BY PiecesLaid, FillersTyped
  <2>2. PICK q \in Nat, y \in Nat : q = p + s /\ y = x + s /\ p <= q /\ x <= y /\ q - p = s /\ y - x = s
    OBVIOUS
  <2>3. q <= Len(c) /\ y <= Len(f)
    BY <1>4, <2>1, <2>2
  <2>4. /\ Part(c, p, q) \in Seq(Byte) /\ Len(Part(c, p, q)) = q - p
        /\ \A n \in 1 .. q - p : Part(c, p, q)[n] = c[p + n]
    <3>1. p <= q /\ q <= Len(c)
      BY <2>2, <2>3
    <3> QED BY <3>1, PartProperties
  <2>5. /\ Part(f, x, y) \in Seq(Byte) /\ Len(Part(f, x, y)) = y - x
        /\ \A n \in 1 .. y - x : Part(f, x, y)[n] = f[x + n]
    <3>1. x <= y /\ y <= Len(f)
      BY <2>2, <2>3
    <3> QED BY <3>1, PartProperties
  <2>6. PICK u \in Seq(Byte), v \in Seq(Byte) : u = Part(c, p, q) /\ v = Part(f, x, y)
    BY <2>4, <2>5
  <2>7. Len(u) = s /\ Len(v) = s /\ \A n \in 1 .. s : u[n] = v[n]
    BY <1>4, <2>1, <2>2, <2>4, <2>5, <2>6
  <2>8. u = v
    BY <2>7, SeqEqual
  <2> QED BY <2>1, <2>2, <2>6, <2>8
<1> QED BY <1>4, <1>6

\* A frame adds nothing to Fill.
LEMMA MapsFrame ==
  ASSUME line \in Lines, Clean(line), NEW Q, NEW G, Laid(Q, G), NEW R, Lengths(R, Fillers),
         NEW j \in 1 .. Len(line), Framed(line[j]), NEW x, Maps(Q[j - 1], x, Q, R)
  PROVE  Maps(Q[j], x, Q, R)
<1>1. Q[j - 1] \in Nat /\ Q[j] \in Nat /\ Q[j - 1] < Q[j]
  BY PlacesRise
<1>2. InPiece(j, Q[j - 1], Q)
  BY <1>1 DEF InPiece
<1>3. PICK p : p = Q[j - 1]
  OBVIOUS
<1>4. x = R[j - 1] + (Q[j - 1] - Q[j - 1])
  <2>1. Maps(p, x, Q, R) /\ InPiece(j, p, Q)
    BY <1>2, <1>3
  <2>2. x = R[j - 1] + (p - Q[j - 1])
    BY <2>1, MapsInPiece
  <2> QED BY <1>3, <2>2
<1>5. R[j] = R[j - 1] /\ R[j] \in Nat
  BY FillLaid DEF FilledAt
<1>6. x = R[j] + (Q[j] - Q[j])
  BY <1>1, <1>4, <1>5
<1>7. Q[j] <= Len(Carried) /\ j \in 0 .. Len(line)
  BY PiecesLaid DEF PieceAt
<1>8. Passing(j, Q[j], Q)
  BY <1>1, <1>7 DEF Passing
<1> QED BY <1>6, <1>8 DEF Maps

LEMMA FirstIsLeast ==
  ASSUME NEW T, T \subseteq Nat, T # {}
  PROVE  First(T) \in T /\ \A y \in T : First(T) <= y
<1>1. \E x \in T : \A y \in T : x <= y
  BY LeastNat
<1> QED BY <1>1 DEF First

\* handle_nmea() from position n on, when h has what it cuts out from later ones.
CutFrom(h, s, n) ==
  IF After(s, Dollar, n) = {} THEN <<>>
  ELSE LET start == First(After(s, Dollar, n))
           ends  == After(s, NewLine, start)
       IN  IF ends = {} THEN <<>>
           ELSE <<SubSeq(s, start, First(ends))>> \o h[First(ends)]

Sentences == Seq(Seq(Byte))

\* The ways a cut goes.
LEMMA CutWays ==
  ASSUME NEW s \in Seq(Byte), NEW n \in 0 .. Len(s)
  PROVE  \/ \A g : CutFrom(g, s, n) = <<>>
         \/ \E y \in 1 .. Len(s), z \in 1 .. Len(s) :
              /\ n < y /\ y < z /\ s[y] = Dollar /\ s[z] = NewLine
              /\ \A k \in y + 1 .. z - 1 : s[k] # NewLine
              /\ \A g : CutFrom(g, s, n) = <<SubSeq(s, y, z)>> \o g[z]
<1> DEFINE A == After(s, Dollar, n)
           y == First(A)
           B == After(s, NewLine, y)
           z == First(B)
<1>1. CASE A = {}
  BY <1>1 DEF CutFrom
<1>2. CASE A # {}
  <2>1. A \subseteq Nat /\ \A k \in A : k \in n + 1 .. Len(s) /\ s[k] = Dollar
    BY DEF After
  <2>2. y \in A
    <3> HIDE DEF A
    <3> QED BY <1>2, <2>1, FirstIsLeast
  <2>3. y \in 1 .. Len(s) /\ n < y /\ s[y] = Dollar
    <3>1. y \in n + 1 .. Len(s) /\ s[y] = Dollar
      BY <2>1, <2>2
    <3> HIDE DEF y
    <3> QED BY <3>1
  <2> HIDE DEF y
  <2>4. CASE B = {}
    BY <1>2, <2>4 DEF CutFrom, y
  <2>5. CASE B # {}
    <3>1. B \subseteq Nat /\ \A k \in B : k \in y + 1 .. Len(s) /\ s[k] = NewLine
      BY <2>3 DEF After
    <3>2. z \in B /\ \A k \in B : z <= k
      <4> HIDE DEF B
      <4> QED BY <2>5, <3>1, FirstIsLeast
    <3>3. z \in y + 1 .. Len(s) /\ s[z] = NewLine
      BY <3>1, <3>2
    <3>5. \A k \in y + 1 .. Len(s) : s[k] = NewLine => z <= k
      BY <3>2 DEF After
    <3>6. \A g : CutFrom(g, s, n) = <<SubSeq(s, y, z)>> \o g[z]
      BY <1>2, <2>5 DEF CutFrom, y
    <3> HIDE DEF z, B
    <3>4. z \in 1 .. Len(s) /\ y < z
      BY <2>3, <3>3
    <3>7. ASSUME NEW k \in y + 1 .. z - 1 PROVE s[k] # NewLine
      <4>1. k \in y + 1 .. Len(s) /\ ~(z <= k)
        BY <2>3, <3>4
      <4> QED BY <3>5, <4>1
    <3> QED BY <2>3, <3>3, <3>4, <3>6, <3>7
  <2> QED BY <2>4, <2>5
<1> QED BY <1>1, <1>2

Cuts(h, s, n) ==
  /\ h \in [n .. Len(s) -> Sentences]
  /\ \A m \in n .. Len(s) : h[m] = CutFrom(h, s, m)

LEMMA CutAgrees ==
  ASSUME NEW s \in Seq(Byte), NEW n \in 0 .. Len(s), NEW g, NEW h,
         \A z \in n + 1 .. Len(s) : g[z] = h[z]
  PROVE  CutFrom(g, s, n) = CutFrom(h, s, n)
<1>1. CASE \A k : CutFrom(k, s, n) = <<>>
  <2>1. CutFrom(g, s, n) = <<>> /\ CutFrom(h, s, n) = <<>>
    BY <1>1
  <2> QED BY <2>1
<1>2. CASE ~ \A k : CutFrom(k, s, n) = <<>>
  <2>1. PICK y \in 1 .. Len(s), z \in 1 .. Len(s) :
           n < y /\ y < z /\ \A k : CutFrom(k, s, n) = <<SubSeq(s, y, z)>> \o k[z]
    BY <1>2, CutWays
  <2>2. z \in n + 1 .. Len(s)
    BY <2>1
  <2>3. CutFrom(g, s, n) = <<SubSeq(s, y, z)>> \o g[z] /\ CutFrom(h, s, n) = <<SubSeq(s, y, z)>> \o h[z]
    BY <2>1
  <2> QED BY <2>2, <2>3
<1> QED BY <1>1, <1>2

LEMMA CutTyped ==
  ASSUME NEW s \in Seq(Byte), NEW n \in 0 .. Len(s), NEW h,
         \A z \in n + 1 .. Len(s) : h[z] \in Sentences
  PROVE  CutFrom(h, s, n) \in Sentences
<1>1. CASE \A k : CutFrom(k, s, n) = <<>>
  <2>1. CutFrom(h, s, n) = <<>>
    BY <1>1
  <2>2. <<>> \in Seq(Seq(Byte))
    OBVIOUS
  <2> QED BY <2>1, <2>2 DEF Sentences
<1>2. CASE ~ \A k : CutFrom(k, s, n) = <<>>
  <2>1. PICK y \in 1 .. Len(s), z \in 1 .. Len(s) :
           n < y /\ y < z /\ \A k : CutFrom(k, s, n) = <<SubSeq(s, y, z)>> \o k[z]
    BY <1>2, CutWays
  <2>2. z \in n + 1 .. Len(s)
    BY <2>1
  <2>3. CutFrom(h, s, n) = <<SubSeq(s, y, z)>> \o h[z] /\ h[z] \in Sentences
    BY <2>1, <2>2
  <2>4. SubSeq(s, y, z) \in Seq(Byte)
    <3>1. \A i \in y .. z : s[i] \in Byte
      OBVIOUS
    <3> QED BY <3>1, SubSeqProperties
  <2>5. <<SubSeq(s, y, z)>> \in Sentences
    BY <2>4 DEF Sentences
  <2> QED BY <2>3, <2>5, ConcatProperties DEF Sentences
<1> QED BY <1>1, <1>2

LEMMA CutsExist ==
  ASSUME NEW s \in Seq(Byte)
  PROVE  \E h : Cuts(h, s, 0)
<1> DEFINE L == Len(s)
           T == {t \in 0 .. L : ~ \E h : Cuts(h, s, L - t)}
<1>1. L \in Nat
  OBVIOUS
<1>2. ASSUME NEW n \in 0 .. L, NEW h, n = L \/ Cuts(h, s, n + 1)
      PROVE  \E g : Cuts(g, s, n)
  <2> DEFINE g == [m \in n .. L |-> IF m = n THEN CutFrom(h, s, n) ELSE h[m]]
  <2>1. \A m \in n + 1 .. L : h[m] \in Sentences /\ h[m] = CutFrom(h, s, m)
    <3>1. CASE n = L
      BY <1>1, <3>1
    <3>2. CASE Cuts(h, s, n + 1)
      BY <3>2 DEF Cuts
    <3> QED BY <1>2, <3>1, <3>2
  <2>2. CutFrom(h, s, n) \in Sentences
    BY <2>1, CutTyped
  <2>3. g \in [n .. L -> Sentences]
    <3>1. ASSUME NEW m \in n .. L PROVE (IF m = n THEN CutFrom(h, s, n) ELSE h[m]) \in Sentences
      <4>1. m # n => m \in n + 1 .. L
        BY <1>1
      <4> QED BY <2>1, <2>2, <4>1
    <3> QED BY <3>1
  <2>4. g[n] = CutFrom(h, s, n) /\ \A m \in n + 1 .. L : g[m] = h[m]
    BY <1>1
  <2> HIDE DEF g
  <2>5. ASSUME NEW m \in n .. L PROVE CutFrom(g, s, m) = CutFrom(h, s, m)
    <3>1. \A z \in m + 1 .. L : g[z] = h[z]
      BY <1>1, <2>4
    <3>2. m \in 0 .. Len(s)
      BY <1>1
    <3> QED BY <3>1, <3>2, CutAgrees
  <2>6. \A m \in n .. L : g[m] = CutFrom(g, s, m)
    <3>1. ASSUME NEW m \in n .. L PROVE g[m] = CutFrom(h, s, m)
      <4>1. m # n => m \in n + 1 .. L
        BY <1>1
      <4> QED BY <2>1, <2>4, <4>1
    <3> QED BY <2>5, <3>1
  <2> QED BY <2>3, <2>6 DEF Cuts
<1>3. T = {}
  <2>1. SUFFICES ASSUME T # {} PROVE FALSE
    OBVIOUS
  <2>2. PICK t \in T : \A y \in T : t <= y
    <3>1. T \subseteq Nat
      OBVIOUS
    <3> HIDE DEF T
    <3> QED BY <2>1, <3>1, LeastNat
  <2>3. t \in 0 .. L /\ ~ \E h : Cuts(h, s, L - t)
    OBVIOUS
  <2>4. PICK n \in 0 .. L : n = L - t
    <3> HIDE DEF L, T
    <3>1. L - t \in 0 .. L
      BY <1>1, <2>3
    <3> QED BY <3>1
  <2>5. CASE t = 0
    <3>1. n = L
      BY <1>1, <2>4, <2>5
    <3>2. \E g : Cuts(g, s, n)
      BY <1>2, <3>1
    <3> QED BY <2>3, <2>4, <3>2
  <2>6. CASE t # 0
    <3>1. t - 1 \in 0 .. L /\ t - 1 \notin T
      <4> HIDE DEF T
      <4> QED BY <1>1, <2>2, <2>3, <2>6
    <3>2. PICK h : Cuts(h, s, L - (t - 1))
      BY <3>1
    <3>3. L - (t - 1) = n + 1
      BY <1>1, <2>3, <2>4
    <3>4. Cuts(h, s, n + 1)
      BY <3>2, <3>3
    <3>5. \E g : Cuts(g, s, n)
      BY <1>2, <3>4
    <3> QED BY <2>3, <2>4, <3>5
  <2> QED BY <2>5, <2>6
<1>4. L \in 0 .. L /\ L - L = 0
  BY <1>1
<1>5. \E h : Cuts(h, s, L - L)
  BY <1>3, <1>4
<1> QED BY <1>4, <1>5

\* handle_nmea() cuts what its recursion says.
LEMMA SentencesCut ==
  ASSUME NEW s \in Seq(Byte)
  PROVE  \E h : Cuts(h, s, 0) /\ SentencesOf(s) = h[0]
<1> DEFINE N == 0 .. Len(s)
           cut == CHOOSE g : g = [n \in N |-> CutFrom(g, s, n)]
<1>1. PICK h : Cuts(h, s, 0)
  BY CutsExist
<1>2. h \in [N -> Sentences] /\ \A n \in N : h[n] = CutFrom(h, s, n)
  BY <1>1 DEF Cuts
<1>3. h = [n \in N |-> CutFrom(h, s, n)]
  <2>1. h = [n \in N |-> h[n]]
    BY <1>2
  <2>2. [n \in N |-> h[n]] = [n \in N |-> CutFrom(h, s, n)]
    BY <1>2
  <2> QED BY <2>1, <2>2
<1>4. cut = [n \in N |-> CutFrom(cut, s, n)]
  BY <1>3
<1>5. SentencesOf(s) = cut[0]
  BY DEF SentencesOf, CutFrom
<1> DEFINE L == Len(s)
           T == {t \in 0 .. L : cut[L - t] \notin Sentences}
<1>11. L \in Nat
  OBVIOUS
<1> HIDE DEF cut
<1>6. \A n \in 0 .. L : cut[n] = CutFrom(cut, s, n)
  BY <1>4
<1>7. T = {}
  <2>1. SUFFICES ASSUME T # {} PROVE FALSE
    OBVIOUS
  <2>2. PICK t \in T : \A y \in T : t <= y
    <3>1. T \subseteq Nat
      OBVIOUS
    <3> HIDE DEF T
    <3> QED BY <2>1, <3>1, LeastNat
  <2>3. t \in 0 .. L /\ cut[L - t] \notin Sentences
    OBVIOUS
  <2>4. PICK n \in 0 .. L : n = L - t
    <3> HIDE DEF L, T
    <3>1. L - t \in 0 .. L
      BY <1>11, <2>3
    <3> QED BY <3>1
  <2>5. ASSUME NEW z \in n + 1 .. L PROVE cut[z] \in Sentences
    <3> DEFINE u == L - z
    <3>1. u \in 0 .. L /\ u < t /\ L - u = z
      BY <2>3, <2>4
    <3> HIDE DEF u
    <3>2. u \notin T
      <4> HIDE DEF T
      <4> QED BY <2>2, <2>3, <3>1
    <3>3. cut[L - u] \in Sentences
      BY <3>1, <3>2
    <3> QED BY <3>1, <3>3
  <2>6. CutFrom(cut, s, n) \in Sentences
    BY <2>5, CutTyped
  <2> QED BY <1>6, <2>3, <2>4, <2>6
<1>8. ASSUME NEW n \in N PROVE cut[n] \in Sentences
  <2> DEFINE u == L - n
  <2>1. u \in 0 .. L /\ L - u = n
    OBVIOUS
  <2> HIDE DEF u
  <2>2. cut[L - u] \in Sentences
    BY <1>7, <2>1
  <2> QED BY <2>1, <2>2
<1>9. cut = [n \in N |-> cut[n]]
  BY <1>4
<1>10. cut \in [N -> Sentences]
  BY <1>8, <1>9
<1> QED BY <1>5, <1>6, <1>10 DEF Cuts

\* The y-th byte of Fill is the c-th of the j-th piece.
ByteOf(y, j, c, R) ==
  /\ j \in 1 .. Len(line) /\ c \in 1 .. Len(line[j].bytes) /\ ~Framed(line[j])
  /\ y = R[j - 1] + c /\ Fill[y] = line[j].bytes[c]

\* Every byte of Fill is a byte of a piece that is no frame.
LEMMA FillPiece ==
  ASSUME line \in Lines, NEW R, Lengths(R, Fillers), NEW y \in 1 .. Len(Fill)
  PROVE  \E j, c : ByteOf(y, j, c, R)
<1> DEFINE N == Len(line)
           T == {i \in 0 .. N : y <= R[i]}
<1>1. /\ N \in Nat /\ R[0] = 0 /\ R[N] = Len(Fill) /\ Len(Fill) \in Nat
      /\ \A i \in 0 .. N : R[i] \in Nat
  BY FillersTyped, FillLaid
<1>2. \A i \in 1 .. N : FilledAt(i, R)
  BY FillLaid
<1> HIDE DEF N
<1>3. N \in T
  BY <1>1
<1>4. PICK j \in T : \A i \in T : j <= i
  <2>1. T \subseteq Nat
    OBVIOUS
  <2> HIDE DEF T
  <2> QED BY <1>3, <2>1, LeastNat
<1>5. j \in 0 .. N /\ y <= R[j]
  OBVIOUS
<1>6. j # 0
  BY <1>1, <1>5
<1>7. j \in 1 .. N /\ j - 1 \in 0 .. N /\ j - 1 \notin T
  <2> HIDE DEF T
  <2> QED BY <1>1, <1>4, <1>5, <1>6
<1>8. PICK a \in Nat, z \in Nat : a = R[j - 1] /\ z = R[j] /\ a < y /\ y <= z
  <2>1. R[j - 1] \in Nat /\ R[j] \in Nat
    BY <1>1, <1>5, <1>7
  <2>2. ~(y <= R[j - 1])
    BY <1>7
  <2> QED BY <1>5, <2>1, <2>2
<1>9. ~Framed(line[j])
  <2>1. SUFFICES ASSUME Framed(line[j]) PROVE FALSE
    OBVIOUS
  <2>2. z = a
    BY <1>2, <1>7, <1>8, <2>1 DEF FilledAt
  <2> QED BY <1>8, <2>2
<1>10. /\ z = a + Len(line[j].bytes) /\ R[j] \in Nat
       /\ \A c \in 1 .. Len(line[j].bytes) : Fill[a + c] = line[j].bytes[c]
  BY <1>2, <1>7, <1>8, <1>9 DEF FilledAt
<1>11. PICK n \in Nat : n = Len(line[j].bytes)
  <2>1. PieceBytes(line) \in Seq(Seq(Byte)) /\ Len(PieceBytes(line)) = N
    BY BytesOfLine, <1>1 DEF PieceBytes, N
  <2>2. PieceBytes(line)[j] \in Seq(Byte) /\ PieceBytes(line)[j] = line[j].bytes
    BY <1>7, <2>1 DEF PieceBytes, N
  <2>3. PICK s \in Seq(Byte) : s = line[j].bytes
    BY <2>2
  <2> QED BY <2>3
<1>12. PICK c \in 1 .. n : c = y - a /\ y = a + c
  <2>1. z = a + n
    BY <1>10, <1>11
  <2>2. y - a \in 1 .. n /\ y = a + (y - a)
    BY <1>8, <2>1
  <2> QED BY <2>2
<1>13. ~Framed(line[j]) /\ y = R[j - 1] + c /\ Fill[y] = line[j].bytes[c]
  BY <1>8, <1>9, <1>10, <1>11, <1>12
<1>14. ByteOf(y, j, c, R)
  BY <1>7, <1>11, <1>12, <1>13 DEF N, ByteOf
<1> QED BY <1>14

IsSentence(j) == line[j].kind = "sentence"

\* A sentence, and where it is in Fill.
SentenceAt(j, s, n, at) ==
  /\ j \in 1 .. Len(line) /\ IsSentence(j) /\ s = line[j].bytes
  /\ s \in Seq(Byte) /\ n \in Nat /\ n = Len(s) /\ n >= 2 /\ at \in Nat
  /\ \A c \in 1 .. n : s[c] = NewLine <=> c = n

\* The sentence that starts at the y-th byte of Fill.
StartsWith(y, j, s, n, at, R) ==
  /\ SentenceAt(j, s, n, at) /\ at = R[j - 1] /\ y = at + 1 /\ R[j] = at + n
  /\ at + n <= Len(Fill) /\ \A c \in 1 .. n : Fill[at + c] = s[c]

\* The '$' in Fill are where its sentences start.
LEMMA DollarStarts ==
  ASSUME line \in Lines, Spoken(line), NEW R, Lengths(R, Fillers),
         NEW y \in 1 .. Len(Fill), Fill[y] = Dollar
  PROVE  \E j, s, n, at : StartsWith(y, j, s, n, at, R)
<1>1. PICK j, c : ByteOf(y, j, c, R)
  BY FillPiece
<1>2. /\ j \in 1 .. Len(line) /\ c \in 1 .. Len(line[j].bytes) /\ ~Framed(line[j])
      /\ y = R[j - 1] + c /\ Fill[y] = line[j].bytes[c]
  BY <1>1 DEF ByteOf
<1>3. PICK s : s = line[j].bytes
  OBVIOUS
<1>4. s \in Seq(Byte)
  <2>1. PieceBytes(line) \in Seq(Seq(Byte)) /\ Len(line) \in Nat
    BY BytesOfLine, FillersTyped
  <2>2. j \in 1 .. Len(PieceBytes(line)) /\ PieceBytes(line)[j] = line[j].bytes
    BY <1>2, <2>1 DEF PieceBytes
  <2> QED BY <1>3, <2>1, <2>2
<1>5. PICK n \in Nat : n = Len(s) /\ c \in 1 .. n
  BY <1>2, <1>3, <1>4
<1>6. \A k \in 1 .. n : /\ s[k] = Dollar <=> line[j].kind = "sentence" /\ k = 1
                        /\ s[k] = NewLine <=> line[j].kind = "sentence" /\ k = n
  BY <1>2, <1>3, <1>5 DEF Spoken
<1>7. c = 1 /\ IsSentence(j)
  BY <1>2, <1>3, <1>5, <1>6 DEF IsSentence
<1>8. n >= 2
  <2>1. SUFFICES ASSUME n = 1 PROVE FALSE
    BY <1>5
  <2>2. s[1] = Dollar /\ s[1] = NewLine
    BY <1>6, <1>7, <2>1 DEF IsSentence
  <2> QED BY <2>2 DEF Dollar, NewLine
<1>9. FilledAt(j, R)
  BY <1>2, FillLaid
<1>10. PICK at \in Nat : at = R[j - 1]
  BY <1>9 DEF FilledAt
<1>11. /\ R[j] = at + n /\ R[j] <= Len(Fill)
       /\ \A k \in 1 .. n : Fill[at + k] = s[k]
  BY <1>2, <1>3, <1>5, <1>9, <1>10 DEF FilledAt
<1>12. SentenceAt(j, s, n, at)
  BY <1>2, <1>3, <1>4, <1>5, <1>6, <1>7, <1>8 DEF SentenceAt, IsSentence
<1>13. y = at + 1 /\ at + n <= Len(Fill)
  BY <1>2, <1>7, <1>10, <1>11
<1>14. StartsWith(y, j, s, n, at, R)
  BY <1>10, <1>11, <1>12, <1>13 DEF StartsWith
<1> QED BY <1>14

\* The sentences heard are sentences of the line, in order, and end in Fill at
\* place x or before.
HeardUpTo(heard, x, R) ==
  \E of \in [1 .. Len(heard) -> 1 .. Len(line)] :
    /\ \A k \in 1 .. Len(heard) :
         IsSentence(of[k]) /\ heard[k] = line[of[k]].bytes /\ R[of[k]] <= x
    /\ \A k \in 2 .. Len(heard) : of[k - 1] < of[k]

LEMMA HeardLater ==
  ASSUME line \in Lines, NEW R, Lengths(R, Fillers), NEW heard \in Sentences,
         NEW x \in Nat, NEW y \in Nat, x <= y, HeardUpTo(heard, x, R)
  PROVE  HeardUpTo(heard, y, R)
<1>1. PICK of \in [1 .. Len(heard) -> 1 .. Len(line)] :
        /\ \A k \in 1 .. Len(heard) :
             IsSentence(of[k]) /\ heard[k] = line[of[k]].bytes /\ R[of[k]] <= x
        /\ \A k \in 2 .. Len(heard) : of[k - 1] < of[k]
  BY DEF HeardUpTo
<1>2. \A j \in 1 .. Len(line) : R[j] \in Nat
  BY FillLaid DEF FilledAt
<1>3. \A k \in 1 .. Len(heard) : R[of[k]] <= y
  <2>1. ASSUME NEW k \in 1 .. Len(heard) PROVE R[of[k]] <= y
    <3>1. PICK r \in Nat : r = R[of[k]]
      BY <1>2
    <3>2. r <= x
      BY <1>1, <3>1
    <3> QED BY <3>1, <3>2
  <2> QED BY <2>1
<1> QED BY <1>1, <1>3 DEF HeardUpTo

LEMMA HeardNext ==
  ASSUME line \in Lines, NEW R, Lengths(R, Fillers), NEW heard \in Sentences,
         NEW j \in 1 .. Len(line), IsSentence(j), NEW x \in Nat, HeardUpTo(heard, x, R),
         x <= R[j - 1], R[j - 1] < R[j], NEW s \in Seq(Byte), s = line[j].bytes
  PROVE  HeardUpTo(heard \o <<s>>, R[j], R)
<1> DEFINE m == Len(heard)
           N == Len(line)
           next == heard \o <<s>>
<1>1. PICK of \in [1 .. m -> 1 .. N] :
        /\ \A k \in 1 .. m :
             IsSentence(of[k]) /\ heard[k] = line[of[k]].bytes /\ R[of[k]] <= x
        /\ \A k \in 2 .. m : of[k - 1] < of[k]
  BY DEF HeardUpTo
<1>2. m \in Nat /\ N \in Nat
  BY FillersTyped DEF Sentences
<1>3. Len(next) = m + 1 /\ next[m + 1] = s /\ \A k \in 1 .. m : next[k] = heard[k]
  BY DEF Sentences
<1>4. /\ \A i \in 0 .. N : R[i] \in Nat
      /\ \A i, k \in 0 .. N : i <= k => R[i] <= R[k]
  BY FillLaid
<1>10. j \in 1 .. N
  OBVIOUS
<1> HIDE DEF m, N, next
<1>5. ASSUME NEW k \in 1 .. m PROVE of[k] < j /\ R[of[k]] <= R[j]
  <2>1. PICK i \in 1 .. N : i = of[k]
    BY <1>1
  <2>2. i \in 0 .. N /\ j \in 0 .. N /\ j - 1 \in 0 .. N
    BY <1>2, <1>10
  <2>3. PICK a \in Nat, b \in Nat, c \in Nat : a = R[i] /\ b = R[j - 1] /\ c = R[j]
    BY <1>4, <2>2
  <2>4. a <= x /\ x <= b /\ b < c
    BY <1>1, <2>1, <2>3
  <2>5. i < j
    <3>1. j <= i => c <= a
      BY <1>4, <2>2, <2>3
    <3> QED BY <1>2, <2>2, <2>4, <3>1
  <2> QED BY <2>1, <2>3, <2>4, <2>5
<1> DEFINE new == [k \in 1 .. m + 1 |-> IF k = m + 1 THEN j ELSE of[k]]
<1>6. new \in [1 .. m + 1 -> 1 .. N]
  <2>1. \A k \in 1 .. m + 1 : k # m + 1 => k \in 1 .. m
    BY <1>2
  <2> QED BY <1>1, <1>10, <2>1
<1>7. new[m + 1] = j /\ \A k \in 1 .. m : new[k] = of[k]
  BY <1>2
<1> HIDE DEF new
<1>8. ASSUME NEW k \in 1 .. m + 1
      PROVE  IsSentence(new[k]) /\ next[k] = line[new[k]].bytes /\ R[new[k]] <= R[j]
  <2>1. CASE k = m + 1
    <3>1. R[j] <= R[j]
      BY <1>2, <1>4, <1>10
    <3> QED BY <1>3, <1>7, <2>1, <3>1
  <2>2. CASE k # m + 1
    <3>1. k \in 1 .. m
      BY <1>2, <2>2
    <3>2. new[k] = of[k] /\ next[k] = heard[k]
      BY <1>3, <1>7, <3>1
    <3>3. IsSentence(of[k]) /\ heard[k] = line[of[k]].bytes /\ R[of[k]] <= R[j]
      BY <1>1, <1>5, <3>1
    <3> QED BY <3>2, <3>3
  <2> QED BY <2>1, <2>2
<1>9. ASSUME NEW k \in 2 .. m + 1 PROVE new[k - 1] < new[k]
  <2>1. k - 1 \in 1 .. m
    BY <1>2
  <2>2. CASE k = m + 1
    <3>1. new[k - 1] = of[k - 1] /\ new[k] = j
      BY <1>7, <2>1, <2>2
    <3>2. of[k - 1] < j
      BY <1>5, <2>1
    <3> QED BY <3>1, <3>2
  <2>3. CASE k # m + 1
    <3>1. k \in 1 .. m /\ k \in 2 .. m
      BY <1>2, <2>3
    <3>2. new[k - 1] = of[k - 1] /\ new[k] = of[k]
      BY <1>7, <2>1, <3>1
    <3> QED BY <1>1, <3>1, <3>2
  <2> QED BY <2>2, <2>3
<1>11. /\ new \in [1 .. Len(next) -> 1 .. Len(line)]
       /\ \A k \in 1 .. Len(next) :
            IsSentence(new[k]) /\ next[k] = line[new[k]].bytes /\ R[new[k]] <= R[j]
       /\ \A k \in 2 .. Len(next) : new[k - 1] < new[k]
  BY <1>3, <1>6, <1>8, <1>9 DEF N
<1>12. HeardUpTo(next, R[j], R)
  BY <1>11 DEF HeardUpTo
<1> QED BY <1>12 DEF next

\* The sentence that lies in the part e of Fill behind place a, from y to z.
CutOut(e, a, y, z, j, s, n, at, R) ==
  StartsWith(a + y, j, s, n, at, R) /\ a + z = at + n /\ SubSeq(e, y, z) = s

\* What handle_nmea() cuts out of a part of Fill is the sentences sent that lie
\* in it whole.
LEMMA CutIsSentence ==
  ASSUME line \in Lines, Spoken(line), NEW R, Lengths(R, Fillers),
         NEW a \in Nat, NEW b \in Nat, a <= b, b <= Len(Fill),
         NEW e \in Seq(Byte), e = Part(Fill, a, b),
         NEW y \in 1 .. Len(e), NEW z \in 1 .. Len(e), y < z,
         e[y] = Dollar, e[z] = NewLine, \A k \in y + 1 .. z - 1 : e[k] # NewLine
  PROVE  \E j, s, n, at : CutOut(e, a, y, z, j, s, n, at, R)
<1>1. PICK f \in Seq(Byte) : f = Fill
  BY FillersTyped
<1>2. PICK L \in Nat : L = b - a /\ a + L = b /\ Len(e) = L /\ b <= Len(f)
                       /\ \A k \in 1 .. L : e[k] = f[a + k]
  <2>1. b <= Len(f) /\ e = Part(f, a, b)
    BY <1>1
  <2>2. Len(Part(f, a, b)) = b - a /\ \A k \in 1 .. b - a : Part(f, a, b)[k] = f[a + k]
    BY <2>1, PartProperties
  <2> QED BY <2>1, <2>2
<1>3. y \in 1 .. L /\ z \in 1 .. L
  BY <1>2
<1>4. PICK x : x = a + y
  OBVIOUS
<1>5. x \in 1 .. Len(Fill) /\ Fill[x] = Dollar
  BY <1>1, <1>2, <1>3, <1>4
<1>6. PICK j, s, n, at : StartsWith(x, j, s, n, at, R)
  BY <1>5, DollarStarts
<1>7. /\ at \in Nat /\ n \in Nat /\ n >= 2 /\ x = at + 1 /\ s \in Seq(Byte) /\ Len(s) = n
      /\ \A c \in 1 .. n : s[c] = NewLine <=> c = n
      /\ \A c \in 1 .. n : f[at + c] = s[c]
  BY <1>1, <1>6 DEF StartsWith, SentenceAt
<1>8. a + z <= at + n
  <2>1. SUFFICES ASSUME ~(a + z <= at + n) PROVE FALSE
    OBVIOUS
  <2>2. PICK k \in Nat : k = at + n - a /\ a + k = at + n /\ k \in y + 1 .. z - 1 /\ k \in 1 .. L
    <3>1. at + n > a + y /\ at + n < a + z
      BY <1>3, <1>4, <1>7, <2>1
    <3>2. at + n - a \in y + 1 .. z - 1 /\ at + n - a \in 1 .. L /\ a + (at + n - a) = at + n
      BY <1>3, <1>7, <3>1
    <3> QED BY <3>2
  <2>3. e[k] = f[at + n] /\ f[at + n] = s[n] /\ s[n] = NewLine
    <3>1. e[k] = f[a + k]
      BY <1>2, <2>2
    <3>2. n \in 1 .. n
      BY <1>7
    <3> QED BY <1>7, <2>2, <3>1, <3>2
  <2> QED BY <2>2, <2>3
<1>9. a + z = at + n
  <2>1. PICK c \in 1 .. n : a + z = at + c
    <3>1. a + z - at \in 1 .. n /\ a + z = at + (a + z - at)
      BY <1>3, <1>4, <1>7, <1>8
    <3> QED BY <3>1
  <2>2. s[c] = NewLine
    <3>1. e[z] = f[a + z]
      BY <1>2, <1>3
    <3> QED BY <1>7, <2>1, <3>1
  <2> QED BY <1>7, <2>1, <2>2
<1>10. SubSeq(e, y, z) = s
  <2>1. y \in Int /\ z \in Int /\ y <= z /\ \A k \in y .. z : e[k] \in Byte
    OBVIOUS
  <2>2. /\ SubSeq(e, y, z) \in Seq(Byte) /\ Len(SubSeq(e, y, z)) = z - y + 1
        /\ \A k \in 1 .. z - y + 1 : SubSeq(e, y, z)[k] = e[y + k - 1]
    <3>1. /\ SubSeq(e, y, z) \in Seq(Byte)
          /\ Len(SubSeq(e, y, z)) = IF y <= z THEN z - y + 1 ELSE 0
          /\ \A k \in 1 .. z - y + 1 : SubSeq(e, y, z)[k] = e[y + k - 1]
      BY <2>1, SubSeqProperties
    <3> QED BY <2>1, <3>1
  <2>3. z - y + 1 = n
    BY <1>3, <1>4, <1>7, <1>9
  <2>4. ASSUME NEW k \in 1 .. n PROVE e[y + k - 1] = s[k]
    <3>3. y \in Nat /\ z \in Nat /\ at \in Nat /\ n \in Nat /\ a + y = at + 1
      <4>1. a + y = at + 1
        BY <1>4, <1>7
      <4>2. y \in Nat /\ z \in Nat
        BY <1>3
      <4> QED BY <1>7, <4>1, <4>2
    <3>2. y + n = z + 1 /\ a + y = at + 1
      BY <3>3, <1>9
    <3>1. y + k - 1 \in 1 .. L /\ a + (y + k - 1) = at + k
      BY <1>3, <1>7, <3>2
    <3> QED BY <1>2, <1>7, <3>1
  <2>5. PICK t \in Seq(Byte) : t = SubSeq(e, y, z)
    BY <2>2
  <2>6. Len(t) = Len(s) /\ \A k \in 1 .. Len(t) : t[k] = s[k]
    BY <1>7, <2>2, <2>3, <2>4, <2>5
  <2> QED BY <1>7, <2>5, <2>6, SeqEqual
<1>11. CutOut(e, a, y, z, j, s, n, at, R)
  BY <1>4, <1>6, <1>9, <1>10 DEF CutOut
<1> QED BY <1>11

LEMMA JoinAssociates ==
  ASSUME NEW u \in Sentences, NEW v \in Sentences, NEW w \in Sentences
  PROVE  (u \o v) \o w = u \o (v \o w)
<1>1. ASSUME NEW S, NEW a \in Seq(S), NEW b \in Seq(S), NEW c \in Seq(S)
      PROVE  (a \o b) \o c = a \o (b \o c)
  BY ConcatAssociative
<1>2. PICK S : S = Seq(Byte)
  OBVIOUS
<1>3. u \in Seq(S) /\ v \in Seq(S) /\ w \in Seq(S)
  BY <1>2 DEF Sentences
<1> QED BY <1>1, <1>3

\* A whole run of handle_nmea(), from position n of what the Reader skipped on.
LEMMA CutsHeard ==
  ASSUME line \in Lines, Clean(line), Spoken(line), NEW R, Lengths(R, Fillers),
         NEW a \in Nat, NEW b \in Nat, a <= b, b <= Len(Fill),
         NEW e \in Seq(Byte), e = Part(Fill, a, b), NEW h, Cuts(h, e, 0)
  PROVE  \A n \in 0 .. Len(e) : \A heard \in Sentences :
           HeardUpTo(heard, a + n, R) => HeardUpTo(heard \o h[n], b, R)
<1>1. PICK L \in Nat : L = Len(e) /\ a + L = b
  <2>1. PICK f \in Seq(Byte) : f = Fill
    BY FillersTyped
  <2>2. b <= Len(f)
    BY <2>1
  <2>3. Len(Part(f, a, b)) = b - a
    BY <2>2, PartProperties
  <2> QED BY <2>1, <2>3
<1>2. h \in [0 .. L -> Sentences] /\ \A n \in 0 .. L : h[n] = CutFrom(h, e, n)
  BY <1>1 DEF Cuts
<1> DEFINE Works(n) == \A heard \in Sentences :
                         HeardUpTo(heard, a + n, R) => HeardUpTo(heard \o h[n], b, R)
<1>3. ASSUME NEW n \in 0 .. L, \A z \in n + 1 .. L : Works(z)
      PROVE  Works(n)
  <2>1. SUFFICES ASSUME NEW heard \in Sentences, HeardUpTo(heard, a + n, R)
                 PROVE  HeardUpTo(heard \o h[n], b, R)
    OBVIOUS
  <2>2. CASE \A g : CutFrom(g, e, n) = <<>>
    <3>1. h[n] = <<>>
      BY <1>2, <2>2
    <3>2. heard \o <<>> = heard
      BY ConcatEmptySeq DEF Sentences
    <3>3. PICK x \in Nat : x = a + n /\ x <= b
      BY <1>1
    <3>4. HeardUpTo(heard, b, R)
      BY <2>1, <3>3, HeardLater
    <3> QED BY <3>1, <3>2, <3>4
  <2>3. CASE ~ \A g : CutFrom(g, e, n) = <<>>
    <3>1. PICK y \in 1 .. Len(e), z \in 1 .. Len(e) :
            /\ n < y /\ y < z /\ e[y] = Dollar /\ e[z] = NewLine
            /\ \A k \in y + 1 .. z - 1 : e[k] # NewLine
            /\ \A g : CutFrom(g, e, n) = <<SubSeq(e, y, z)>> \o g[z]
      BY <1>1, <2>3, CutWays
    <3>0. /\ y < z /\ e[y] = Dollar /\ e[z] = NewLine
          /\ \A k \in y + 1 .. z - 1 : e[k] # NewLine
      BY <3>1
    <3>14. PICK j, s, m, at : CutOut(e, a, y, z, j, s, m, at, R)
      <4> HIDE DEF Works
      <4> QED BY <3>0, CutIsSentence
    <3>2. StartsWith(a + y, j, s, m, at, R) /\ a + z = at + m /\ SubSeq(e, y, z) = s
      BY <3>14 DEF CutOut
    <3>3. h[n] = <<s>> \o h[z]
      BY <1>2, <3>1, <3>2
    <3>4. /\ j \in 1 .. Len(line) /\ IsSentence(j) /\ s \in Seq(Byte) /\ s = line[j].bytes
          /\ at \in Nat /\ m \in Nat /\ m >= 2 /\ at = R[j - 1] /\ a + y = at + 1
          /\ R[j] = at + m
      BY <3>2 DEF StartsWith, SentenceAt
    <3>5. PICK x \in Nat : x = a + n /\ x <= at
      <4>1. n \in Nat /\ y \in Nat /\ n < y /\ a + y = at + 1 /\ at \in Nat
        <5> HIDE DEF Works
        <5>1. n < y
          BY <3>1
        <5>2. n \in Nat /\ y \in Nat
          OBVIOUS
        <5>3. a + y = at + 1 /\ at \in Nat
          BY <3>4
        <5> QED BY <5>1, <5>2, <5>3
      <4> HIDE DEF Works
      <4> QED BY <4>1
    <3>6. x <= R[j - 1] /\ R[j - 1] < R[j]
      <4> HIDE DEF Works
      <4>2. at \in Nat /\ m \in Nat /\ m >= 2
        BY <3>4
      <4>1. at < at + m
        BY <4>2
      <4> QED BY <3>4, <3>5, <4>1
    <3>7. HeardUpTo(heard, x, R)
      BY <2>1, <3>5
    <3>8. HeardUpTo(heard \o <<s>>, R[j], R)
      BY <3>4, <3>6, <3>7, HeardNext
    <3>9. heard \o <<s>> \in Sentences /\ <<s>> \in Sentences
      BY <3>4 DEF Sentences
    <3>10. z \in n + 1 .. L /\ z \in 0 .. L
      BY <1>1, <3>1
    <3>11. HeardUpTo(heard \o <<s>>, a + z, R)
      BY <3>2, <3>4, <3>8
    <3>12. HeardUpTo((heard \o <<s>>) \o h[z], b, R)
      BY <1>3, <3>9, <3>10, <3>11
    <3>13. (heard \o <<s>>) \o h[z] = heard \o (<<s>> \o h[z])
      <4>1. h[z] \in Sentences
        BY <1>2, <3>10
      <4>2. PICK t \in Sentences : t = h[z]
        BY <4>1
      <4>3. PICK one \in Sentences : one = <<s>>
        BY <3>9
      <4>4. (heard \o one) \o t = heard \o (one \o t)
        BY JoinAssociates
      <4> QED BY <4>2, <4>3, <4>4
    <3> QED BY <3>3, <3>12, <3>13
  <2> QED BY <2>2, <2>3
<1> HIDE DEF Works
<1> DEFINE T == {t \in 0 .. L : ~Works(L - t)}
<1>4. T = {}
  <2>1. SUFFICES ASSUME T # {} PROVE FALSE
    OBVIOUS
  <2>2. PICK t \in T : \A y \in T : t <= y
    <3>1. T \subseteq Nat
      OBVIOUS
    <3> HIDE DEF T
    <3> QED BY <2>1, <3>1, LeastNat
  <2>3. t \in 0 .. L /\ ~Works(L - t)
    OBVIOUS
  <2>4. PICK n \in 0 .. L : n = L - t
    <3>1. L - t \in 0 .. L
      BY <2>3
    <3> QED BY <3>1
  <2>5. ASSUME NEW z \in n + 1 .. L PROVE Works(z)
    <3>1. PICK u \in 0 .. L : u < t /\ L - u = z
      <4>1. L - z \in 0 .. L /\ L - z < t /\ L - (L - z) = z
        BY <2>3, <2>4
      <4> QED BY <4>1
    <3>2. u \notin T
      <4> HIDE DEF T
      <4> QED BY <2>2, <2>3, <3>1
    <3>3. Works(L - u)
      BY <3>1, <3>2
    <3> QED BY <3>1, <3>3
  <2>6. Works(n)
    BY <1>3, <2>5
  <2> QED BY <2>3, <2>4, <2>6
<1>5. ASSUME NEW n \in 0 .. L PROVE Works(n)
  <2>1. PICK u \in 0 .. L : L - u = n
    <3>1. L - n \in 0 .. L /\ L - (L - n) = n
      OBVIOUS
    <3> QED BY <3>1
  <2>2. Works(L - u)
    BY <1>4, <2>1
  <2> QED BY <2>1, <2>2
<1> QED BY <1>1, <1>5 DEF Works

\* One read's sentences go behind those heard before.
LEMMA ReadHeard ==
  ASSUME line \in Lines, Clean(line), Spoken(line), NEW R, Lengths(R, Fillers),
         NEW a \in Nat, NEW b \in Nat, a <= b, b <= Len(Fill),
         NEW heard \in Sentences, HeardUpTo(heard, a, R),
         NEW e \in Seq(Byte), e = Part(Fill, a, b)
  PROVE  heard \o SentencesOf(e) \in Sentences /\ HeardUpTo(heard \o SentencesOf(e), b, R)
<1>1. PICK h : Cuts(h, e, 0) /\ SentencesOf(e) = h[0]
  BY SentencesCut
<1>2. 0 \in 0 .. Len(e) /\ a + 0 = a
  OBVIOUS
<1>3. h[0] \in Sentences
  BY <1>1, <1>2 DEF Cuts
<1>4. HeardUpTo(heard, a + 0, R)
  BY <1>2
<1>5. HeardUpTo(heard \o h[0], b, R)
  BY <1>1, <1>2, <1>4, CutsHeard
<1> QED BY <1>1, <1>3, <1>5, ConcatProperties DEF Sentences

\* What the Reader has skipped in this read is the part of Fill from a to b, and
\* the sentences heard end there or before.
SpeechAt(Q, R) ==
  \E a, b \in Nat :
    /\ a <= b /\ b <= Len(Fill) /\ Maps(DoneWith(Offset), b, Q, R)
    /\ HeardUpTo(sentences, a, R)
    /\ pc \in {"posted", "reading"} => a = b
    /\ pc \notin {"posted", "reading"} => extra = Part(Fill, a, b)

SpeechInv ==
  transport = "stream" /\ Clean(line) /\ Spoken(line) =>
    /\ line \in Lines /\ sentences \in Sentences
    /\ \E Q, G, R : Laid(Q, G) /\ Lengths(R, Fillers) /\ SpeechAt(Q, R)

LEMMA SpeechLineStays ==
  ASSUME UNCHANGED <<line, transport>>
  PROVE  /\ Fill' = Fill /\ Fillers' = Fillers /\ Spoken(line)' = Spoken(line)
         /\ \A R : Lengths(R, Fillers) => Lengths(R, Fillers)'
         /\ \A p, x, Q, R : Maps(p, x, Q, R) => Maps(p, x, Q, R)'
         /\ \A s, x, R : HeardUpTo(s, x, R) => HeardUpTo(s, x, R)'
<1>1. Fillers' = Fillers
  BY DEF Fillers, Framed
<1>2. Fill' = Fill
  BY <1>1 DEF Fill
<1>3. Spoken(line)' = Spoken(line)
  BY DEF Spoken, Framed
<1>4. ASSUME NEW R, Lengths(R, Fillers) PROVE Lengths(R, Fillers)'
  BY <1>1, <1>4 DEF Lengths
<1>5. ASSUME NEW p, NEW x, NEW Q, NEW R, Maps(p, x, Q, R) PROVE Maps(p, x, Q, R)'
  <2>1. PICK i : Passing(i, p, Q) /\ x = R[i] + (p - Q[i])
    BY <1>5 DEF Maps
  <2>2. Carried' = Carried
    BY LineStays
  <2>3. Passing(i, p, Q)'
    BY <2>1, <2>2 DEF Passing, Framed
  <2> QED BY <2>1, <2>3 DEF Maps
<1>6. ASSUME NEW s, NEW x, NEW R, HeardUpTo(s, x, R) PROVE HeardUpTo(s, x, R)'
  BY <1>6 DEF HeardUpTo, IsSentence
<1> QED BY <1>1, <1>2, <1>3, <1>4, <1>5, <1>6

\* What a step has to leave for the invariant to hold again.
LEMMA SpeechGoesOn ==
  ASSUME UNCHANGED <<line, transport>>, line \in Lines,
         NEW Q, NEW G, Laid(Q, G), NEW R, Lengths(R, Fillers),
         NEW a \in Nat, NEW b \in Nat, a <= b, b <= Len(Fill),
         NEW p, Maps(p, b, Q, R), DoneWith(Offset)' = p,
         NEW s \in Sentences, sentences' = s, HeardUpTo(s, a, R),
         pc' \in {"posted", "reading"} => a = b,
         pc' \notin {"posted", "reading"} => extra' = Part(Fill, a, b)
  PROVE  SpeechInv'
<1>1. /\ Laid(Q, G)' /\ Lengths(R, Fillers)' /\ Maps(p, b, Q, R)' /\ HeardUpTo(s, a, R)'
      /\ Fill' = Fill
  BY LineStays, SpeechLineStays
<1>2. Maps(DoneWith(Offset), b, Q, R)'
  BY <1>1 DEF Maps
<1>3. HeardUpTo(sentences, a, R)'
  BY <1>1 DEF HeardUpTo
<1>4. SpeechAt(Q, R)'
  <2>1. /\ a <= b /\ b <= Len(Fill') /\ Maps(DoneWith(Offset), b, Q, R)' /\ HeardUpTo(sentences, a, R)'
        /\ pc' \in {"posted", "reading"} => a = b
        /\ pc' \notin {"posted", "reading"} => extra' = Part(Fill', a, b)
    BY <1>1, <1>2, <1>3
  <2> QED BY <2>1 DEF SpeechAt, Part
<1>5. line' \in Lines /\ sentences' \in Sentences
  OBVIOUS
<1> QED BY <1>1, <1>4, <1>5 DEF SpeechInv

LEMMA NothingSkipped ==
  ASSUME line \in Lines, NEW x \in Nat
  PROVE  Part(Fill, x, x) = <<>>
<1>1. x + 1 > x
  OBVIOUS
<1> QED BY <1>1, FillersTyped DEF Part

LEMMA SpeechInit ==
  ASSUME Init
  PROVE  SpeechInv
<1>1. SUFFICES ASSUME transport = "stream", Clean(line), Spoken(line)
               PROVE  /\ line \in Lines /\ sentences \in Sentences
                      /\ \E Q, G, R : Laid(Q, G) /\ Lengths(R, Fillers) /\ SpeechAt(Q, R)
  BY DEF SpeechInv
<1>2. line \in Lines /\ pc = "posted" /\ in = <<>> /\ sentences = <<>> /\ rest = <<Carried>>
  BY <1>1 DEF Init, Carried
<1>3. PICK Q, G : Laid(Q, G)
  BY <1>2, LineIsLaid
<1>4. PICK R : Lengths(R, Fillers)
  BY <1>2, FillersTyped, LengthsExist
<1>5. /\ Len(line) \in Nat /\ Q[0] = 0 /\ R[0] = 0 /\ Len(Fill) \in Nat /\ Len(Carried) \in Nat
      /\ Carried \in Seq(Byte)
  BY <1>2, <1>3, <1>4, PiecesLaid, FillLaid, FillersTyped
<1>6. DoneWith(Offset) = 0
  <2>1. Held = <<>> /\ Len(Held) = 0 /\ rest # <<>> /\ Head(rest) = Carried
    BY <1>2 DEF Held
  <2>2. Offset = 0
    BY <1>5, <2>1 DEF Offset, Received
  <2> QED BY <1>2, <2>2 DEF DoneWith
<1>7. Maps(0, 0, Q, R)
  <2>1. Passing(0, 0, Q) /\ 0 = R[0] + (0 - Q[0])
    BY <1>5 DEF Passing
  <2> QED BY <2>1 DEF Maps
<1>8. HeardUpTo(sentences, 0, R)
  <2>1. PICK of : of = [k \in 1 .. 0 |-> 1]
    OBVIOUS
  <2>2. of \in [1 .. Len(sentences) -> 1 .. Len(line)] /\ 1 .. Len(sentences) = {} /\ 2 .. Len(sentences) = {}
    BY <1>2, <2>1
  <2> QED BY <2>2 DEF HeardUpTo
<1>9. SpeechAt(Q, R)
  <2>1. /\ 0 <= 0 /\ 0 <= Len(Fill) /\ Maps(DoneWith(Offset), 0, Q, R)
        /\ pc \in {"posted", "reading"}
    BY <1>2, <1>5, <1>6, <1>7
  <2> QED BY <1>8, <2>1 DEF SpeechAt
<1>10. sentences \in Sentences
  BY <1>2 DEF Sentences
<1> QED BY <1>2, <1>3, <1>4, <1>9, <1>10

\* The parts of the invariant, for the place the line gives it.
LEMMA SpeechParts ==
  ASSUME CleanInv, SpeechInv, transport = "stream", Clean(line), Spoken(line)
  PROVE  /\ line \in Lines /\ sentences \in Sentences
         /\ \E Q, G, R : CleanAt(Q, G) /\ Laid(Q, G) /\ Lengths(R, Fillers) /\ SpeechAt(Q, R)
<1>1. line \in Lines /\ \E Q, G : CleanAt(Q, G)
  BY DEF CleanInv
<1>2. PICK Q, G : CleanAt(Q, G)
  BY <1>1
<1>3. sentences \in Sentences /\ \E P, H, R : Laid(P, H) /\ Lengths(R, Fillers) /\ SpeechAt(P, R)
  BY DEF SpeechInv
<1>4. PICK P, H, R : Laid(P, H) /\ Lengths(R, Fillers) /\ SpeechAt(P, R)
  BY <1>3
<1>5. Lengths(Q, Pieces) /\ Lengths(P, Pieces) /\ Laid(Q, G)
  BY <1>2, <1>4 DEF CleanAt, Laid
<1>6. Pieces \in Seq(Seq(Byte))
  BY <1>1, BytesOfLine DEF Pieces
<1>7. Q = P
  BY <1>5, <1>6, LengthsSame
<1> QED BY <1>1, <1>2, <1>3, <1>4, <1>5, <1>7

\* Steps that leave where the Reader stands and what it has skipped.
LEMMA SpeechUnmoved ==
  ASSUME CleanInv, SpeechInv, transport = "stream", Clean(line), Spoken(line),
         UNCHANGED <<line, transport, sentences>>, DoneWith(Offset)' = DoneWith(Offset),
         \/ pc \in {"posted", "reading"} /\ pc' \in {"posted", "reading"}
         \/ pc \notin {"posted", "reading"} /\ pc' \notin {"posted", "reading"} /\ extra' = extra
         \/ pc = "reading" /\ extra' = <<>> /\ pc' \notin {"posted", "reading"}
  PROVE  SpeechInv'
<1>1. /\ line \in Lines /\ sentences \in Sentences
      /\ \E Q, G, R : CleanAt(Q, G) /\ Laid(Q, G) /\ Lengths(R, Fillers) /\ SpeechAt(Q, R)
  BY SpeechParts
<1>2. PICK Q, G, R : CleanAt(Q, G) /\ Laid(Q, G) /\ Lengths(R, Fillers) /\ SpeechAt(Q, R)
  BY <1>1
<1>3. PICK a \in Nat, b \in Nat :
        /\ a <= b /\ b <= Len(Fill) /\ Maps(DoneWith(Offset), b, Q, R)
        /\ HeardUpTo(sentences, a, R)
        /\ pc \in {"posted", "reading"} => a = b
        /\ pc \notin {"posted", "reading"} => extra = Part(Fill, a, b)
  BY <1>2 DEF SpeechAt
<1>4. PICK p, s : p = DoneWith(Offset) /\ s = sentences
  OBVIOUS
<1>5. Part(Fill, b, b) = <<>>
  BY <1>1, NothingSkipped
<1>6. /\ pc' \in {"posted", "reading"} => a = b
      /\ pc' \notin {"posted", "reading"} => extra' = Part(Fill, a, b)
  BY <1>3, <1>5
<1>7. /\ s \in Sentences /\ sentences' = s /\ HeardUpTo(s, a, R)
      /\ Maps(p, b, Q, R) /\ DoneWith(Offset)' = p
  BY <1>1, <1>3, <1>4
<1> QED BY <1>1, <1>2, <1>3, <1>6, <1>7, SpeechGoesOn

LEMMA SearchSpeech ==
  ASSUME IInv, StreamInv, IInv', CleanInv, SpeechInv, Search,
         transport = "stream", Clean(line), Spoken(line)
  PROVE  SpeechInv'
<1>1. /\ line \in Lines /\ sentences \in Sentences
      /\ \E Q, G, R : CleanAt(Q, G) /\ Laid(Q, G) /\ Lengths(R, Fillers) /\ SpeechAt(Q, R)
  BY SpeechParts
<1>2. PICK Q, G, R : CleanAt(Q, G) /\ Laid(Q, G) /\ Lengths(R, Fillers) /\ SpeechAt(Q, R)
  BY <1>1
<1>3. /\ pc = "searching" /\ pc' \in {"handling", "ending"}
      /\ UNCHANGED <<line, transport, delivered, sentences>>
      /\ extra' = extra \o SubSeq(Passed(buf), 1, Skipped(Passed(buf)))
  BY DEF Search, history
<1>4. PICK a \in Nat, x \in Nat :
        /\ a <= x /\ x <= Len(Fill) /\ Maps(DoneWith(Offset), x, Q, R)
        /\ HeardUpTo(sentences, a, R) /\ extra = Part(Fill, a, x)
  BY <1>2, <1>3 DEF SpeechAt
<1>5. PICK b, p, q, r :
        /\ Moves(b, p, q, r) /\ Offset' = q /\ Holds(buf', q, r) /\ buf' = From(b, Skipped(b))
        /\ b \in Seq(Byte) /\ Skipped(b) \in 0 .. Len(b) /\ r - q = Len(b) - Skipped(b)
        /\ Len(buf') = r - q
  BY SearchMoves
<1>6. b = Passed(buf) /\ p = DoneWith(Offset) /\ q = p + Skipped(b) /\ Holds(b, p, r)
  BY <1>5 DEF Moves
<1>7. PICK d : d = delivered
  OBVIOUS
<1>8. Stands(p, d, Q, G)
  BY <1>2, <1>3, <1>6, <1>7 DEF CleanAt
<1>9. PICK s \in Nat : s = Skipped(b) /\ s <= Len(b)
  BY <1>5
<1>10. AllBetween(p, s, Q)
  <2>1. \A n \in 1 .. s : Between(p + n - 1, Q)
    BY <1>1, <1>2, <1>6, <1>8, <1>9, PassSkipped
  <2> QED BY <2>1 DEF AllBetween
<1>11. /\ p \in Nat /\ r \in Nat /\ p <= r /\ r <= Len(Carried) /\ b = Part(Carried, p, r)
       /\ Len(b) = r - p
  BY <1>1, <1>6, HoldsBytes DEF Holds
<1>12. p <= Len(Carried) /\ Len(Carried) \in Nat /\ Carried \in Seq(Byte)
  BY <1>1, <1>2, <1>11, PiecesLaid
<1>13. Maps(p, x, Q, R)
  BY <1>4, <1>6
<1>14. /\ Maps(p + s, x + s, Q, R) /\ x + s <= Len(Fill)
       /\ Part(Carried, p, p + s) = Part(Fill, x, x + s)
  <2>1. p \in Nat /\ x \in Nat /\ s \in Nat /\ p <= Len(Carried) /\ x <= Len(Fill)
    BY <1>4, <1>9, <1>11, <1>12
  <2>2. /\ line \in Lines /\ Clean(line) /\ Laid(Q, G) /\ Lengths(R, Fillers)
        /\ Maps(p, x, Q, R) /\ AllBetween(p, s, Q)
    BY <1>1, <1>2, <1>10, <1>13
  <2> QED BY <2>1, <2>2, MapsSkipped
<1>15. SubSeq(b, 1, s) = Part(Carried, p, p + s)
  <2>1. PICK c \in Seq(Byte) : c = Carried
    BY <1>12
  <2>2. p <= r /\ r <= Len(c) /\ 0 <= s /\ s <= r - p
    BY <1>9, <1>11, <2>1
  <2>3. Part(Part(c, p, r), 0, s) = Part(c, p + 0, p + s)
    BY <1>11, <2>2, PartOfPart
  <2>4. p + 0 = p /\ 0 + 1 = 1
    BY <1>11
  <2>5. Part(b, 0, s) = SubSeq(b, 1, s)
    BY <2>4 DEF Part
  <2> QED BY <1>11, <2>1, <2>3, <2>4, <2>5
<1>16. PICK y \in Nat : y = x + s /\ a <= y /\ y <= Len(Fill) /\ x <= y
  BY <1>4, <1>14
<1>17. extra' = Part(Fill, a, y)
  <2>1. PICK f \in Seq(Byte) : f = Fill
    BY <1>1, FillersTyped
  <2>2. a <= x /\ x <= y /\ y <= Len(f)
    BY <1>4, <1>16, <2>1
  <2>3. Part(f, a, x) \o Part(f, x, y) = Part(f, a, y)
    BY <2>2, PartsJoin
  <2>4. extra' = extra \o SubSeq(b, 1, s)
    BY <1>3, <1>6, <1>9
  <2> QED BY <1>4, <1>14, <1>15, <1>16, <2>1, <2>3, <2>4
<1>18. DoneWith(Offset)' = q /\ q = p + s
  <2>1. pc' # "searching"
    BY <1>3
  <2>2. DoneWith(Offset)' = Offset'
    BY <2>1 DEF DoneWith
  <2> QED BY <1>5, <1>6, <1>9, <2>2
<1>19. PICK heard : heard = sentences
  OBVIOUS
<1>20. /\ heard \in Sentences /\ sentences' = heard /\ HeardUpTo(heard, a, R)
       /\ Maps(q, y, Q, R) /\ pc' \notin {"posted", "reading"}
       /\ UNCHANGED <<line, transport>>
  BY <1>1, <1>3, <1>4, <1>14, <1>16, <1>18, <1>19
<1> QED BY <1>1, <1>2, <1>16, <1>17, <1>18, <1>20, SpeechGoesOn

LEMMA HandleSpeech ==
  ASSUME IInv, StreamInv, IInv', CleanInv, SpeechInv, Handle,
         transport = "stream", Clean(line), Spoken(line)
  PROVE  SpeechInv'
<1>1. /\ line \in Lines /\ sentences \in Sentences
      /\ \E Q, G, R : CleanAt(Q, G) /\ Laid(Q, G) /\ Lengths(R, Fillers) /\ SpeechAt(Q, R)
  BY SpeechParts
<1>2. PICK Q, G, R : CleanAt(Q, G) /\ Laid(Q, G) /\ Lengths(R, Fillers) /\ SpeechAt(Q, R)
  BY <1>1
<1>3. /\ pc = "handling" /\ found /\ pc' = "searching"
      /\ UNCHANGED <<line, transport, rest, buf, found, extra, sentences>>
  BY DEF Handle, IInv, Searching, reader
<1>4. PICK j : AtPiece(j, Offset, delivered, Q, G)
  BY <1>2, <1>3 DEF CleanAt
<1>5. /\ j \in 1 .. Len(line) /\ Framed(line[j]) /\ Q[j - 1] = Offset
      /\ Q[j] = Offset + FrameSize(buf)
  BY <1>4 DEF AtPiece
<1>6. DoneWith(Offset)' = Q[j]
  <2>1. Offset' = Offset
    BY <1>3, LineStays DEF Offset, Received, Held
  <2> QED BY <1>3, <1>5, <2>1 DEF DoneWith, FrameSize, PayloadLength
<1>7. PICK a \in Nat, x \in Nat :
        /\ a <= x /\ x <= Len(Fill) /\ Maps(DoneWith(Offset), x, Q, R)
        /\ HeardUpTo(sentences, a, R) /\ extra = Part(Fill, a, x)
  BY <1>2, <1>3 DEF SpeechAt
<1>8. Maps(Q[j - 1], x, Q, R)
  <2>1. DoneWith(Offset) = Offset
    BY <1>3 DEF DoneWith
  <2> QED BY <1>5, <1>7, <2>1
<1>9. PICK p : p = Q[j]
  OBVIOUS
<1>10. Maps(p, x, Q, R)
  BY <1>1, <1>2, <1>5, <1>8, <1>9, MapsFrame
<1>11. PICK heard : heard = sentences
  OBVIOUS
<1>12. /\ heard \in Sentences /\ sentences' = heard /\ HeardUpTo(heard, a, R)
       /\ DoneWith(Offset)' = p /\ pc' \notin {"posted", "reading"}
       /\ UNCHANGED <<line, transport>> /\ extra' = Part(Fill, a, x)
  BY <1>1, <1>3, <1>6, <1>7, <1>9, <1>11
<1> QED BY <1>1, <1>2, <1>7, <1>10, <1>12, SpeechGoesOn

LEMMA FinishReadSpeech ==
  ASSUME IInv, StreamInv, IInv', CleanInv, SpeechInv, FinishRead,
         transport = "stream", Clean(line), Spoken(line)
  PROVE  SpeechInv'
<1>1. /\ line \in Lines /\ sentences \in Sentences
      /\ \E Q, G, R : CleanAt(Q, G) /\ Laid(Q, G) /\ Lengths(R, Fillers) /\ SpeechAt(Q, R)
  BY SpeechParts
<1>2. PICK Q, G, R : CleanAt(Q, G) /\ Laid(Q, G) /\ Lengths(R, Fillers) /\ SpeechAt(Q, R)
  BY <1>1
<1>3. /\ pc = "ending" /\ pc' = "posted" /\ in' = buf
      /\ UNCHANGED <<line, transport, rest>> /\ sentences' = sentences \o SentencesOf(extra)
  BY DEF FinishRead, Kept
<1>4. PICK a \in Nat, x \in Nat :
        /\ a <= x /\ x <= Len(Fill) /\ Maps(DoneWith(Offset), x, Q, R)
        /\ HeardUpTo(sentences, a, R) /\ extra = Part(Fill, a, x)
  BY <1>2, <1>3 DEF SpeechAt
<1>5. DoneWith(Offset)' = DoneWith(Offset)
  <2>1. Held' = Held
    BY <1>3 DEF Held
  <2>2. Offset' = Offset
    BY <1>3, <2>1, LineStays DEF Offset, Received
  <2> QED BY <1>3, <2>2 DEF DoneWith
<1>6. PICK heard, e : heard = sentences /\ e = extra
  OBVIOUS
<1>7. heard \in Sentences /\ e \in Seq(Byte) /\ e = Part(Fill, a, x) /\ HeardUpTo(heard, a, R)
  BY <1>1, <1>4, <1>6 DEF IInv, Searching
<1>8. heard \o SentencesOf(e) \in Sentences /\ HeardUpTo(heard \o SentencesOf(e), x, R)
  BY <1>1, <1>2, <1>4, <1>7, ReadHeard
<1>9. PICK now : now = heard \o SentencesOf(e)
  OBVIOUS
<1>10. PICK p : p = DoneWith(Offset)
  OBVIOUS
<1>11. /\ now \in Sentences /\ sentences' = now /\ HeardUpTo(now, x, R)
       /\ DoneWith(Offset)' = p /\ Maps(p, x, Q, R) /\ x <= x
       /\ pc' \in {"posted", "reading"}
  BY <1>3, <1>4, <1>5, <1>6, <1>8, <1>9, <1>10
<1> QED BY <1>1, <1>2, <1>3, <1>4, <1>11, SpeechGoesOn

LEMMA SpeechKeeps ==
  ASSUME IInv, StreamInv, CleanInv, SpeechInv, IInv', StreamInv', CleanInv', [Next]_vars
  PROVE  SpeechInv'
<1>1. UNCHANGED <<line, transport>>
  BY DEF Next, DoRead, ReadEnd, ReadFails, Search, Handle, FinishRead, DropDatagram, vars
<1>2. CASE ~(transport = "stream" /\ Clean(line) /\ Spoken(line))
  BY <1>1, <1>2, LineStays, SpeechLineStays DEF SpeechInv
<1>3. CASE transport = "stream" /\ Clean(line) /\ Spoken(line)
  <2>1. CASE DoRead
    <3>1. DoneWith(Offset)' = DoneWith(Offset)
      BY <1>3, <2>1, DoReadStays
    <3>2. pc = "posted" /\ pc' = "reading" /\ UNCHANGED <<line, transport, sentences>>
      BY <2>1 DEF DoRead, history
    <3> QED BY <1>3, <3>1, <3>2, SpeechUnmoved
  <2>2. CASE ReadEnd
    <3>1. DoneWith(Offset)' = DoneWith(Offset)
      BY <1>3, <2>2, ReadEndStays
    <3>2. /\ pc = "reading" /\ pc' = "searching" /\ extra' = <<>>
          /\ UNCHANGED <<line, transport, sentences>>
      BY <2>2 DEF ReadEnd, history
    <3> QED BY <1>3, <3>1, <3>2, SpeechUnmoved
  <2>3. CASE ReadFails
    <3>1. /\ pc = "reading" /\ pc' = "posted"
          /\ UNCHANGED <<line, transport, rest, in, buf, found, sentences>>
      BY <2>3 DEF ReadFails, history, reader
    <3>2. DoneWith(Offset)' = DoneWith(Offset)
      BY <3>1, LineStays DEF DoneWith, Offset, Received, Held
    <3> QED BY <1>3, <3>1, <3>2, SpeechUnmoved
  <2>4. CASE Search
    BY <1>3, <2>4, SearchSpeech
  <2>5. CASE Handle
    BY <1>3, <2>5, HandleSpeech
  <2>6. CASE FinishRead
    BY <1>3, <2>6, FinishReadSpeech
  <2>7. CASE DropDatagram
    BY <1>3, <2>7 DEF DropDatagram
  <2>8. CASE UNCHANGED vars
    <3>1. UNCHANGED <<line, transport, rest, in, pc, buf, found, extra, sentences>>
      BY <2>8 DEF vars
    <3>2. DoneWith(Offset)' = DoneWith(Offset)
      BY <3>1, LineStays DEF DoneWith, Offset, Received, Held, FrameSize, PayloadLength
    <3> QED BY <1>3, <3>1, <3>2, SpeechUnmoved
  <2> QED BY <2>1, <2>2, <2>3, <2>4, <2>5, <2>6, <2>7, <2>8 DEF Next
<1> QED BY <1>2, <1>3

\* The sentences heard are some of those sent.
LEMMA HeardWithin ==
  ASSUME line \in Lines, NEW heard \in Sentences, NEW x, NEW R, HeardUpTo(heard, x, R)
  PROVE  Within(heard, SentSentences(line))
<1> DEFINE N == Len(line)
           m == Len(heard)
           ss == [i \in 1 .. N |-> IF line[i].kind = "sentence" THEN <<line[i].bytes>> ELSE <<>>]
           sent == SentSentences(line)
<1>1. N \in Nat /\ \A i \in 1 .. N : line[i].bytes \in Seq(Byte)
  <2>1. PieceBytes(line) \in Seq(Seq(Byte)) /\ N \in Nat
    BY BytesOfLine, FillersTyped
  <2>2. Len(PieceBytes(line)) = N /\ \A i \in 1 .. N : PieceBytes(line)[i] = line[i].bytes
    BY <2>1 DEF PieceBytes
  <2> QED BY <2>1, <2>2
<1>2. m \in Nat
  BY DEF Sentences
<1>3. PICK of \in [1 .. m -> 1 .. N] :
        /\ \A k \in 1 .. m : IsSentence(of[k]) /\ heard[k] = line[of[k]].bytes
        /\ \A k \in 2 .. m : of[k - 1] < of[k]
  BY DEF HeardUpTo
<1> HIDE DEF N, m
<1>4. ss \in Seq(Sentences) /\ Len(ss) = N
  <2>1. PICK S : S = Sentences
    OBVIOUS
  <2>2. ASSUME NEW i \in 1 .. N
        PROVE  (IF line[i].kind = "sentence" THEN <<line[i].bytes>> ELSE <<>>) \in S
    BY <1>1, <2>1 DEF Sentences
  <2>3. ss \in [1 .. N -> S]
    BY <2>2
  <2> HIDE DEF ss
  <2>4. ss \in Seq(S) /\ Len(ss) = N
    BY <1>1, <2>3
  <2> QED BY <2>1, <2>4
<1>5. \A i \in 1 .. N : IsSentence(i) => Len(ss[i]) = 1 /\ ss[i][1] = line[i].bytes
  BY DEF IsSentence
<1>6. sent = FlattenSeq(ss)
  BY DEF SentSentences, N
<1> HIDE DEF ss, sent
<1>7. PICK V : Lengths(V, ss)
  BY <1>4, LengthsExist DEF Sentences
<1>8. Joined(sent, ss, V, Seq(Byte))
  BY <1>4, <1>6, <1>7, FlattenPlaces DEF Sentences
<1>9. /\ Len(sent) = V[N] /\ V \in [0 .. N -> Nat]
      /\ \A i \in 1 .. N : V[i] = V[i - 1] + Len(ss[i])
      /\ \A i \in 1 .. N : \A b \in 1 .. Len(ss[i]) :
           V[i - 1] + b \in 1 .. V[N] /\ sent[V[i - 1] + b] = ss[i][b]
  BY <1>4, <1>7, <1>8 DEF Joined, Lengths
<1>10. ASSUME NEW i \in 1 .. N, IsSentence(i)
       PROVE  V[i] \in 1 .. Len(sent) /\ sent[V[i]] = line[i].bytes /\ V[i - 1] < V[i]
  <2>1. i - 1 \in 0 .. N /\ i \in 0 .. N
    BY <1>1
  <2>2. V[i - 1] \in Nat /\ V[i] = V[i - 1] + 1 /\ 1 \in 1 .. Len(ss[i]) /\ ss[i][1] = line[i].bytes
    <3>1. Len(ss[i]) = 1 /\ ss[i][1] = line[i].bytes
      BY <1>5, <1>10
    <3>2. V[i - 1] \in Nat /\ V[i] = V[i - 1] + Len(ss[i])
      BY <1>9, <2>1
    <3> QED BY <3>1, <3>2
  <2>3. V[i - 1] + 1 \in 1 .. V[N] /\ sent[V[i - 1] + 1] = line[i].bytes
    BY <1>9, <2>2
  <2> QED BY <1>9, <2>2, <2>3
<1>11. \A i, j \in 0 .. N : i <= j => V[i] \in Nat /\ V[j] \in Nat /\ V[i] <= V[j]
  <2>1. ss \in Seq(Seq(Seq(Byte)))
    BY <1>4 DEF Sentences
  <2> QED BY <1>4, <1>7, <2>1, LengthsRise
<1> DEFINE at == [k \in 1 .. m |-> V[of[k]]]
<1>12. at \in [1 .. m -> 1 .. Len(sent)]
  BY <1>3, <1>10
<1>13. \A k \in 1 .. m : at[k] = V[of[k]]
  OBVIOUS
<1> HIDE DEF at
<1>14. \A k \in 1 .. m : heard[k] = sent[at[k]]
  BY <1>3, <1>10, <1>13
<1>15. ASSUME NEW k \in 2 .. m PROVE at[k - 1] < at[k]
  <2>1. k - 1 \in 1 .. m /\ k \in 1 .. m
    BY <1>2
  <2>2. PICK i \in 1 .. N, j \in 1 .. N : i = of[k - 1] /\ j = of[k] /\ i < j /\ IsSentence(j)
    BY <1>3, <2>1
  <2>3. i \in 0 .. N /\ j - 1 \in 0 .. N /\ i <= j - 1
    BY <1>1, <2>2
  <2>4. PICK u \in Nat, v \in Nat, w \in Nat : u = V[i] /\ v = V[j - 1] /\ w = V[j]
    <3>1. j \in 0 .. N
      BY <1>1
    <3> QED BY <1>9, <2>3, <3>1
  <2>5. u <= v /\ v < w
    BY <1>10, <1>11, <2>2, <2>3, <2>4
  <2>6. at[k - 1] = u /\ at[k] = w
    BY <1>13, <2>1, <2>2, <2>4
  <2> QED BY <2>5, <2>6
<1> QED BY <1>12, <1>14, <1>15 DEF Within, m, sent

\* The NMEA callback gets sentences the receiver sent, whole, in order and no
\* byte of a frame among them, when a clean line comes over a stream and has '$'
\* and newline only where a sentence starts and ends: however the reads cut the
\* sentences, handle_nmea() never joins the halves of two.
THEOREM SentencesAlwaysAsSent ==
  Spec => [](transport = "stream" /\ Clean(line) /\ Spoken(line) => SentencesAsSent)
<1>1. Init => IInv /\ StreamInv /\ CleanInv /\ SpeechInv
  BY InitInv, StreamInit, CleanInit, SpeechInit
<1>2. IInv /\ StreamInv /\ CleanInv /\ SpeechInv /\ [Next]_vars
        => (IInv /\ StreamInv /\ CleanInv /\ SpeechInv)'
  BY StepInv, StreamKeeps, CleanKeeps, SpeechKeeps
<1>3. SpeechInv => (transport = "stream" /\ Clean(line) /\ Spoken(line) => SentencesAsSent)
  <2> SUFFICES ASSUME SpeechInv, transport = "stream", Clean(line), Spoken(line)
               PROVE  SentencesAsSent
    OBVIOUS
  <2>1. /\ line \in Lines /\ sentences \in Sentences
        /\ \E Q, G, R : Laid(Q, G) /\ Lengths(R, Fillers) /\ SpeechAt(Q, R)
    BY DEF SpeechInv
  <2>2. PICK Q, R : SpeechAt(Q, R)
    BY <2>1
  <2>3. PICK a : HeardUpTo(sentences, a, R)
    BY <2>2 DEF SpeechAt
  <2>4. Within(sentences, SentSentences(line))
    BY <2>1, <2>3, HeardWithin
  <2> QED BY <2>4 DEF SentencesAsSent
<1> QED BY <1>1, <1>2, <1>3, PTL DEF Spec

-----------------------------------------------------------------------------
(* What the Writer writes, the Reader reads.                               *)

LEMMA SummedTyped ==
  ASSUME NEW ck \in Byte \X Byte, NEW b \in Byte
  PROVE  Summed(ck, b) \in Byte \X Byte
<1>1. PICK x \in Byte, y \in Byte : ck = <<x, y>>
  OBVIOUS
<1>2. PICK a : a = (x + b) % 256
  OBVIOUS
<1>3. x + b \in Nat /\ a \in Byte
  BY <1>2 DEF Byte
<1>4. PICK c : c = (y + a) % 256
  OBVIOUS
<1>5. y + a \in Nat /\ c \in Byte
  BY <1>3, <1>4 DEF Byte
<1>6. Summed(ck, b) = <<a, c>>
  BY <1>1, <1>2, <1>4 DEF Summed
<1> QED BY <1>3, <1>5, <1>6

\* A checksum is two bytes.
LEMMA ChecksumTyped ==
  ASSUME NEW s \in Seq(Byte)
  PROVE  Checksum(s) \in Byte \X Byte
<1> DEFINE N == Len(s)
           V == Byte \X Byte
           Body(g, n) == IF n = 0 THEN <<0, 0>> ELSE Summed(g[n - 1], s[n])
           sums == CHOOSE g : g = [n \in 0 .. N |-> Body(g, n)]
           Op == [i \in 1 .. N |-> [c \in V |-> Summed(c, s[i])]]
<1>1. N \in Nat /\ \A i \in 1 .. N : s[i] \in Byte
  OBVIOUS
<1>2. <<0, 0>> \in V
  BY DEF Byte
<1>3. Checksum(s) = sums[N]
  BY DEF Checksum
<1> HIDE DEF N, V
<1>4. \A c \in V : \A i \in 1 .. N : Summed(c, s[i]) \in V
  BY <1>1, SummedTyped DEF V
<1>5. Op \in [1 .. N -> [V -> V]]
  BY <1>4
<1>6. \A i \in 1 .. N : \A c \in V : Op[i][c] = Summed(c, s[i])
  OBVIOUS
<1> HIDE DEF Op
<1>7. PICK first \in V : first = <<0, 0>>
  BY <1>2
<1>8. StepsOf(Op, N, V)
  BY <1>5 DEF StepsOf
<1>9. PICK F : Follow(F, Op, N, V, first)
  BY <1>1, <1>8, Recursion
<1>10. F \in [0 .. N -> V] /\ F[0] = <<0, 0>> /\ \A i \in 1 .. N : F[i] = Op[i][F[i - 1]]
  BY <1>7, <1>9 DEF Follow
<1>11. ASSUME NEW n \in 0 .. N PROVE F[n] = Body(F, n)
  <2>1. CASE n = 0
    BY <1>10, <2>1
  <2>2. CASE n # 0
    <3>1. n \in 1 .. N /\ n - 1 \in 0 .. N
      BY <1>1, <2>2
    <3>2. F[n - 1] \in V
      BY <1>10, <3>1
    <3> QED BY <1>6, <1>10, <2>2, <3>1, <3>2
  <2> QED BY <2>1, <2>2
<1>12. F = [n \in 0 .. N |-> Body(F, n)]
  <2> HIDE DEF Body
  <2>1. F = [n \in 0 .. N |-> F[n]]
    BY <1>10
  <2>2. [n \in 0 .. N |-> F[n]] = [n \in 0 .. N |-> Body(F, n)]
    BY <1>11
  <2> QED BY <2>1, <2>2
<1>13. sums = [n \in 0 .. N |-> Body(sums, n)]
  BY <1>12
<1> HIDE DEF sums
<1>14. \A n \in 0 .. N : sums[n] = Body(sums, n)
  BY <1>13
<1> DEFINE T == {n \in 0 .. N : sums[n] \notin V}
<1>15. T = {}
  <2>1. SUFFICES ASSUME T # {} PROVE FALSE
    OBVIOUS
  <2>2. PICK n \in T : \A y \in T : n <= y
    <3>1. T \subseteq Nat
      BY <1>1
    <3> HIDE DEF T
    <3> QED BY <2>1, <3>1, LeastNat
  <2>3. n \in 0 .. N /\ sums[n] \notin V
    OBVIOUS
  <2>4. n # 0
    BY <1>2, <1>14, <2>3
  <2>5. n \in 1 .. N /\ n - 1 \in 0 .. N /\ ~(n <= n - 1)
    BY <1>1, <2>3, <2>4
  <2>6. sums[n - 1] \in V
    <3>1. n - 1 \notin T
      <4> HIDE DEF T
      <4> QED BY <2>2, <2>5
    <3> QED BY <2>5, <3>1
  <2>7. Summed(sums[n - 1], s[n]) \in V
    BY <1>4, <2>5, <2>6
  <2> QED BY <1>14, <2>3, <2>4, <2>7
<1>16. N \in 0 .. N
  BY <1>1
<1> QED BY <1>3, <1>15, <1>16 DEF V

\* What a frame holds, place by place: s is all of it but the checksum c.
Layout(f, class, id, p, s, c) ==
  /\ f \in Seq(Byte) /\ s \in Seq(Byte) /\ c \in Seq(Byte)
  /\ Len(s) = 6 + Len(p) /\ Len(c) = 2 /\ Len(f) = 8 + Len(p)
  /\ s[1] = SyncA /\ s[2] = SyncB /\ s[3] = class /\ s[4] = id
  /\ s[5] = Len(p) % 256 /\ s[6] = (Len(p) \div 256) % 256
  /\ \A k \in 1 .. Len(p) : s[6 + k] = p[k]
  /\ \A k \in 1 .. Len(s) : f[k] = s[k]
  /\ \A k \in 1 .. 2 : f[Len(s) + k] = c[k]
  /\ c = Checksum(Checked(s))

\* Where the items of u and v stand in w.
Appends(w, u, v, S) ==
  /\ w \in Seq(S) /\ Len(w) = Len(u) + Len(v)
  /\ \A k \in 1 .. Len(u) : w[k] = u[k]
  /\ \A k \in 1 .. Len(v) : w[Len(u) + k] = v[k]

LEMMA Joins ==
  ASSUME NEW S, NEW u \in Seq(S), NEW v \in Seq(S)
  PROVE  Appends(u \o v, u, v, S)
<1>1. PICK m \in Nat, n \in Nat : m = Len(u) /\ n = Len(v)
  OBVIOUS
<1>2. PICK w : w = u \o v
  OBVIOUS
<1>3. /\ w \in Seq(S) /\ Len(w) = m + n
      /\ \A i \in 1 .. m + n : w[i] = IF i <= m THEN u[i] ELSE v[i - m]
  BY <1>1, <1>2, ConcatProperties
<1>4. ASSUME NEW k \in 1 .. m PROVE w[k] = u[k]
  <2>1. k \in 1 .. m + n /\ k <= m
    OBVIOUS
  <2> QED BY <1>3, <2>1
<1>5. ASSUME NEW k \in 1 .. n PROVE w[m + k] = v[k]
  <2>1. PICK j \in 1 .. m + n : j = m + k
    OBVIOUS
  <2>2. ~(j <= m) /\ j - m = k
    BY <2>1
  <2>3. w[j] = v[j - m]
    BY <1>3, <2>2
  <2> QED BY <2>1, <2>2, <2>3
<1> QED BY <1>1, <1>2, <1>3, <1>4, <1>5 DEF Appends

LEMMA FrameLaid ==
  ASSUME NEW class \in Byte, NEW id \in Byte, NEW p \in Seq(Byte)
  PROVE  \E s, c : Layout(Frame(class, id, p), class, id, p, s, c)
<1>1. PICK L \in Nat : L = Len(p)
  OBVIOUS
<1>2. PICK lo \in Byte, hi \in Byte : lo = L % 256 /\ hi = (L \div 256) % 256
  <2>1. L % 256 \in Byte /\ L \div 256 \in Nat
    BY DEF Byte
  <2>2. (L \div 256) % 256 \in Byte
    BY <2>1 DEF Byte
  <2> QED BY <2>1, <2>2
<1>3. PICK h : h = <<SyncA, SyncB, class, id, lo, hi>>
  OBVIOUS
<1>4. h = Header(class, id, Len(p))
  BY <1>1, <1>2, <1>3 DEF Header
<1>5. /\ h \in Seq(Byte) /\ Len(h) = 6 /\ h[1] = SyncA /\ h[2] = SyncB /\ h[3] = class
      /\ h[4] = id /\ h[5] = lo /\ h[6] = hi
  BY <1>3 DEF SyncA, SyncB, Byte
<1>6. PICK s : s = h \o p
  OBVIOUS
<1>7. /\ s \in Seq(Byte) /\ Len(s) = 6 + L
      /\ \A k \in 1 .. 6 : s[k] = h[k]
      /\ \A k \in 1 .. L : s[6 + k] = p[k]
  <2>1. h \in Seq(Byte) /\ p \in Seq(Byte)
    BY <1>5
  <2>2. Appends(h \o p, h, p, Byte)
    BY <2>1, Joins
  <2>3. Appends(s, h, p, Byte)
    BY <1>6, <2>2
  <2> QED BY <1>1, <1>5, <2>3 DEF Appends
<1>8. PICK c : c = Checksum(Checked(s))
  OBVIOUS
<1>9. c \in Seq(Byte) /\ Len(c) = 2
  <2>1. \A i \in 3 .. Len(s) : s[i] \in Byte
    BY <1>7
  <2>2. Checked(s) \in Seq(Byte)
    BY <1>7, <2>1, SubSeqProperties DEF Checked
  <2>3. c \in Byte \X Byte
    BY <1>8, <2>2, ChecksumTyped
  <2>4. PICK x \in Byte, y \in Byte : c = <<x, y>>
    BY <2>3
  <2> HIDE DEF Byte
  <2> QED BY <2>4
<1>10. PICK f : f = s \o c
  OBVIOUS
<1>11. f = Frame(class, id, p)
  BY <1>4, <1>6, <1>8, <1>10 DEF Frame
<1>12. /\ f \in Seq(Byte) /\ Len(f) = Len(s) + Len(c)
       /\ \A k \in 1 .. Len(s) : f[k] = s[k]
       /\ \A k \in 1 .. Len(c) : f[Len(s) + k] = c[k]
  <2>1. s \in Seq(Byte) /\ c \in Seq(Byte)
    BY <1>7, <1>9
  <2>2. Appends(s \o c, s, c, Byte)
    BY <2>1, Joins
  <2>3. Appends(f, s, c, Byte)
    BY <1>10, <2>2
  <2> QED BY <2>3 DEF Appends
<1>13. Len(f) = 8 + L
  BY <1>7, <1>9, <1>12
<1>14. s[1] = SyncA /\ s[2] = SyncB /\ s[3] = class /\ s[4] = id /\ s[5] = lo /\ s[6] = hi
  BY <1>5, <1>7
<1>15. \A k \in 1 .. 2 : f[Len(s) + k] = c[k]
  BY <1>9, <1>12
<1>17. Layout(f, class, id, p, s, c)
  BY <1>1, <1>2, <1>7, <1>8, <1>9, <1>12, <1>13, <1>14, <1>15 DEF Layout
<1> QED BY <1>11, <1>17

\* Two bytes hold the length of the payload.
Short(p) == Len(p) < 256 * 256

\* The length of a payload, from its two bytes.
LEMMA LengthBytes ==
  ASSUME NEW p \in Seq(Byte), Short(p)
  PROVE  256 * ((Len(p) \div 256) % 256) + (Len(p) % 256) = Len(p)
<1>1. PICK L \in Nat : L = Len(p)
  OBVIOUS
<1>2. L < 256 * 256
  BY <1>1 DEF Short
<1>3. PICK q : q = L \div 256
  OBVIOUS
<1>4. q \in 0 .. 255
  BY <1>2, <1>3
<1>5. q % 256 = q
  BY <1>4
<1>6. 256 * q + (L % 256) = L
  BY <1>3
<1> QED BY <1>1, <1>3, <1>5, <1>6

\* A frame f is what its header says it is, and the checksum fits it.
ReadsBack(f, class, id, p) ==
  /\ f \in Seq(Byte) /\ Len(f) = 8 + Len(p) /\ FrameSize(f) = Len(f)
  /\ f[1] = SyncA /\ f[2] = SyncB /\ Key(f) = <<class, id>> /\ Intact(f)
  /\ SubSeq(f, 7, 6 + Len(p)) = p

LEMMA FrameReadsBack ==
  ASSUME NEW class \in Byte, NEW id \in Byte, NEW p \in Seq(Byte), Short(p)
  PROVE  ReadsBack(Frame(class, id, p), class, id, p)
<1>0. PICK f : f = Frame(class, id, p)
  OBVIOUS
<1>1. PICK s, c : Layout(f, class, id, p, s, c)
  BY <1>0, FrameLaid
<1>2. PICK L \in Nat : L = Len(p)
  OBVIOUS
<1>3. /\ f \in Seq(Byte) /\ s \in Seq(Byte) /\ c \in Seq(Byte) /\ c = Checksum(Checked(s))
      /\ Len(s) = 6 + L /\ Len(c) = 2 /\ Len(f) = 8 + L
      /\ \A k \in 1 .. L : s[6 + k] = p[k]
      /\ \A k \in 1 .. 6 + L : f[k] = s[k]
      /\ f[6 + L + 1] = c[1] /\ f[6 + L + 2] = c[2]
  BY <1>1, <1>2 DEF Layout
<1>4. /\ f[1] = SyncA /\ f[2] = SyncB /\ f[3] = class /\ f[4] = id
      /\ f[5] = L % 256 /\ f[6] = (L \div 256) % 256
  <2>1. /\ s[1] = SyncA /\ s[2] = SyncB /\ s[3] = class /\ s[4] = id
        /\ s[5] = L % 256 /\ s[6] = (L \div 256) % 256
    BY <1>1, <1>2 DEF Layout
  <2> QED BY <1>3, <2>1
<1>5. PayloadLength(f) = L
  <2>1. 256 * ((L \div 256) % 256) + (L % 256) = L
    BY <1>2, LengthBytes
  <2> QED BY <1>4, <2>1 DEF PayloadLength
<1>6. FrameSize(f) = 8 + L
  BY <1>5 DEF FrameSize, WrapperLength, HeaderLength, ChecksumLength
<1>7. SubSeq(f, 7, 6 + L) = p
  <2>1. \A k \in 7 .. 6 + L : f[k] \in Byte
    BY <1>3
  <2>2. PICK t : t = SubSeq(f, 7, 6 + L)
    OBVIOUS
  <2>3. t \in Seq(Byte) /\ Len(t) = L /\ \A k \in 1 .. L : t[k] = f[7 + k - 1]
    <3>1. t \in Seq(Byte) /\ Len(t) = (IF 7 <= 6 + L THEN 6 + L - 7 + 1 ELSE 0)
          /\ \A k \in 1 .. 6 + L - 7 + 1 : t[k] = f[7 + k - 1]
      BY <2>1, <2>2, SubSeqProperties
    <3> QED BY <3>1
  <2>4. ASSUME NEW k \in 1 .. L PROVE t[k] = p[k]
    <3>1. PICK n \in 1 .. 6 + L : n = 6 + k /\ n = 7 + k - 1
      OBVIOUS
    <3>2. f[n] = s[n] /\ s[6 + k] = p[k]
      BY <1>3
    <3>3. t[k] = f[7 + k - 1]
      BY <2>3
    <3> QED BY <3>1, <3>2, <3>3
  <2> QED BY <1>2, <2>2, <2>3, <2>4, SeqEqual
<1>8. SubSeq(f, 3, 6 + L) = Checked(s)
  <2>1. (\A k \in 3 .. 6 + L : f[k] \in Byte) /\ (\A k \in 3 .. 6 + L : s[k] \in Byte)
    BY <1>3
  <2>2. PICK t, u : t = SubSeq(f, 3, 6 + L) /\ u = SubSeq(s, 3, 6 + L)
    OBVIOUS
  <2>3. t \in Seq(Byte) /\ Len(t) = 4 + L /\ \A k \in 1 .. 4 + L : t[k] = f[3 + k - 1]
    <3>1. t \in Seq(Byte) /\ Len(t) = (IF 3 <= 6 + L THEN 6 + L - 3 + 1 ELSE 0)
          /\ \A k \in 1 .. 6 + L - 3 + 1 : t[k] = f[3 + k - 1]
      BY <2>1, <2>2, SubSeqProperties
    <3> QED BY <3>1
  <2>4. u \in Seq(Byte) /\ Len(u) = 4 + L /\ \A k \in 1 .. 4 + L : u[k] = s[3 + k - 1]
    <3>1. u \in Seq(Byte) /\ Len(u) = (IF 3 <= 6 + L THEN 6 + L - 3 + 1 ELSE 0)
          /\ \A k \in 1 .. 6 + L - 3 + 1 : u[k] = s[3 + k - 1]
      BY <2>1, <2>2, SubSeqProperties
    <3> QED BY <3>1
  <2>5. ASSUME NEW k \in 1 .. 4 + L PROVE t[k] = u[k]
    <3>1. PICK n \in 1 .. 6 + L : n = 3 + k - 1
      OBVIOUS
    <3> QED BY <1>3, <2>3, <2>4, <3>1
  <2>6. t = u
    BY <2>3, <2>4, <2>5, SeqEqual
  <2> QED BY <1>3, <2>2, <2>6 DEF Checked
<1>9. SubSeq(f, 7 + L, 8 + L) = c
  <2>1. \A k \in 7 + L .. 8 + L : f[k] \in Byte
    BY <1>3
  <2>2. PICK t : t = SubSeq(f, 7 + L, 8 + L)
    OBVIOUS
  <2>3. t \in Seq(Byte) /\ Len(t) = 2 /\ t[1] = f[7 + L] /\ t[2] = f[8 + L]
    <3>1. t \in Seq(Byte) /\ Len(t) = (IF 7 + L <= 8 + L THEN 8 + L - (7 + L) + 1 ELSE 0)
          /\ \A k \in 1 .. 8 + L - (7 + L) + 1 : t[k] = f[7 + L + k - 1]
      BY <2>1, <2>2, SubSeqProperties
    <3>2. Len(t) = 2 /\ t[1] = f[7 + L + 1 - 1] /\ t[2] = f[7 + L + 2 - 1]
      BY <3>1
    <3>3. 7 + L + 1 - 1 = 7 + L /\ 7 + L + 2 - 1 = 8 + L
      OBVIOUS
    <3> QED BY <3>1, <3>2, <3>3
  <2>4. 6 + L + 1 = 7 + L /\ 6 + L + 2 = 8 + L
    OBVIOUS
  <2>5. \A k \in 1 .. 2 : t[k] = c[k]
    BY <1>3, <2>3, <2>4
  <2> QED BY <1>3, <2>2, <2>3, <2>5, SeqEqual
<1>10. Intact(f)
  <2>1. PICK size : size = FrameSize(f)
    OBVIOUS
  <2>2. size - 1 = 7 + L /\ size = 8 + L /\ size - 2 = 6 + L
    BY <1>6, <2>1
  <2>3. SubSeq(f, size - 1, size) = Checksum(SubSeq(f, 3, size - 2))
    BY <1>3, <1>8, <1>9, <2>2
  <2> QED BY <2>1, <2>3 DEF Intact, ChecksumLength
<1>11. Key(f) = <<class, id>>
  BY <1>4 DEF Key
<1> QED BY <1>0, <1>2, <1>3, <1>4, <1>6, <1>7, <1>10, <1>11 DEF ReadsBack

\* What Writer::write() wraps, the Reader unwraps, whatever follows in the buffer:
\* search() skips nothing, found() is true, the class, the id and the payload are
\* those written, read() takes the checksum, and next() leaves what follows.
THEOREM WrittenIsRead ==
  ASSUME NEW class \in Byte, NEW id \in Byte, NEW payload \in Seq(Byte), Short(payload),
         NEW follows \in Seq(Byte),
         NEW f, f = Frame(class, id, payload),
         NEW b, b = f \o follows
  PROVE  /\ Skipped(b) = 0 /\ Found(b) /\ Whole(b) = f /\ From(b, FrameSize(b)) = follows
         /\ Intact(f) /\ Key(f) = <<class, id>>
         /\ SubSeq(f, HeaderLength + 1, HeaderLength + Len(payload)) = payload
<1>1. /\ f \in Seq(Byte) /\ Len(f) = 8 + Len(payload) /\ FrameSize(f) = Len(f)
      /\ f[1] = SyncA /\ f[2] = SyncB /\ Key(f) = <<class, id>> /\ Intact(f)
      /\ SubSeq(f, 7, 6 + Len(payload)) = payload
  <2>1. ReadsBack(f, class, id, payload)
    BY FrameReadsBack
  <2> QED BY <2>1 DEF ReadsBack
<1>2. Appends(b, f, follows, Byte)
  <2>1. Appends(f \o follows, f, follows, Byte)
    BY <1>1, Joins
  <2> QED BY <2>1
<1>3. PICK n \in Nat, m \in Nat : n = Len(f) /\ m = Len(follows) /\ n >= 8
  BY <1>1
<1>4. /\ b \in Seq(Byte) /\ Len(b) = n + m
      /\ \A k \in 1 .. n : b[k] = f[k]
      /\ \A k \in 1 .. m : b[n + k] = follows[k]
  BY <1>2, <1>3 DEF Appends
<1>5. b[1] = SyncA /\ b[2] = SyncB /\ b[5] = f[5] /\ b[6] = f[6]
  BY <1>1, <1>3, <1>4
<1>6. FrameSize(b) = n
  BY <1>1, <1>3, <1>5 DEF FrameSize, PayloadLength
<1>7. Found(b)
  BY <1>3, <1>4, <1>5, <1>6 DEF Found, WrapperLength, HeaderLength, ChecksumLength
<1>8. Skipped(b) = 0
  <2>1. /\ Skipped(b) \in 0 .. Len(b)
        /\ \A i \in 1 .. Skipped(b) : ~Starts(b, i)
    BY <1>4, SearchStops
  <2>2. Starts(b, 1)
    <3>1. PICK one, two : one = 1 /\ two = 2 /\ one + 1 = two
      OBVIOUS
    <3>2. b[one] = SyncA /\ b[two] = SyncB
      BY <1>5, <3>1
    <3>3. b[one + 1] = SyncB
      BY <3>1, <3>2
    <3>4. Starts(b, one)
      BY <3>2, <3>3 DEF Starts
    <3> QED BY <3>1, <3>4
  <2>3. ~(1 \in 1 .. Skipped(b))
    BY <2>1, <2>2
  <2> QED BY <1>4, <2>1, <2>3
<1>9. Whole(b) = f
  <2>1. PICK t : t = Part(b, 0, n)
    OBVIOUS
  <2>2. t \in Seq(Byte) /\ Len(t) = n /\ \A k \in 1 .. n : t[k] = b[k]
    <3>1. PICK z \in Nat : z = 0
      OBVIOUS
    <3>2. b \in Seq(Byte) /\ n = z + n /\ n <= Len(b) /\ t = Part(b, z, n)
      BY <1>4, <2>1, <3>1
    <3>3. Takes(t, b, z, n)
      BY <3>2, PartOfLength
    <3>4. \A k \in 1 .. n : z + k = k
      BY <3>1
    <3> QED BY <3>3, <3>4 DEF Takes
  <2>3. t = f
    <3>1. f \in Seq(Byte) /\ Len(t) = Len(f)
      BY <1>1, <1>3, <2>2
    <3>2. \A k \in 1 .. Len(t) : t[k] = f[k]
      BY <1>4, <2>2
    <3> QED BY <2>2, <3>1, <3>2, SeqEqual
  <2>4. t = SubSeq(b, 1, n)
    BY <2>1 DEF Part
  <2> QED BY <1>6, <2>3, <2>4 DEF Whole
<1>10. From(b, n) = follows
  <2>1. PICK c \in Nat : c = n + m
    OBVIOUS
  <2>2. PICK t : t = Part(b, n, c)
    OBVIOUS
  <2>3. t \in Seq(Byte) /\ Len(t) = m /\ \A k \in 1 .. m : t[k] = b[n + k]
    <3>1. b \in Seq(Byte) /\ c = n + m /\ c <= Len(b)
      BY <1>4, <2>1
    <3>2. Takes(t, b, n, m)
      BY <2>2, <3>1, PartOfLength
    <3> QED BY <3>2 DEF Takes
  <2>4. t = follows
    BY <1>3, <1>4, <2>3, SeqEqual
  <2>5. t = SubSeq(b, n + 1, Len(b))
    BY <1>4, <2>1, <2>2 DEF Part
  <2> QED BY <2>4, <2>5 DEF From
<1>11. HeaderLength + 1 = 7 /\ HeaderLength + Len(payload) = 6 + Len(payload)
  BY DEF HeaderLength
<1> QED BY <1>1, <1>6, <1>7, <1>8, <1>9, <1>10, <1>11

\* So every frame the buffer holds is framed as a clean line has it.
THEOREM WrittenIsWellFramed ==
  ASSUME NEW class \in Byte, NEW id \in Byte, NEW payload \in Seq(Byte), Short(payload),
         Len(payload) + WrapperLength <= Capacity,
         NEW piece, piece = [kind |-> "frame", bytes |-> Frame(class, id, payload)]
  PROVE  WellFramed(piece)
<1>1. PICK f : f = Frame(class, id, payload)
  OBVIOUS
<1>2. /\ f \in Seq(Byte) /\ Len(f) = 8 + Len(payload) /\ FrameSize(f) = Len(f)
      /\ f[1] = SyncA /\ f[2] = SyncB /\ Intact(f)
  <2>1. ReadsBack(f, class, id, payload)
    BY <1>1, FrameReadsBack
  <2> QED BY <2>1 DEF ReadsBack
<1>3. piece.bytes = f /\ piece.kind = "frame"
  BY <1>1
<1>4. Found(f)
  BY <1>2 DEF Found, WrapperLength, HeaderLength, ChecksumLength
<1>5. Len(f) <= Capacity
  BY <1>2 DEF WrapperLength, HeaderLength, ChecksumLength
<1> QED BY <1>2, <1>3, <1>4, <1>5 DEF WellFramed, IsFrame

-----------------------------------------------------------------------------
(* Datagrams.  A clean line that comes in datagrams the buffer has room for *)
(* leaves at most one byte between two reads, a sync byte that ended noise, *)
(* and a read has one frame or none; but the network drops some of them.    *)

PlainGrams ==
  transport = "datagram" /\ Clean(line) /\ Small(line) /\ FramesDiffer(line)

\* What may be kept between two reads.
Apart(h) == h = <<>> \/ h = <<SyncA>>

\* The datagrams r are those behind the i-th.
Left(r, i) ==
  /\ i \in 0 .. Len(line) /\ r \in Seq(Seq(Byte)) /\ Len(r) = Len(line) - i
  /\ \A k \in 1 .. Len(r) : r[k] = line[i + k].bytes

\* The last frame handed over is one of the first b sent.
UpTo(d, b) ==
  /\ d \in Seq(Seq(Byte))
  /\ d = <<>> \/ \E k \in 1 .. b : Last(d) = Sent(line)[k].frame

\* The Reader holds the i-th datagram behind what was kept.
HoldsGram(b, i) == \E h : Apart(h) /\ b = h \o line[i].bytes

\* The Reader stands at the frame that is the i-th datagram.
AtGram(b, i) == Framed(line[i]) /\ b = line[i].bytes

\* Where the read loop is, r being the datagrams left, n what is in in_, b what
\* the Reader holds, f its found_ and d what has been handed over.  The frames sent
\* in the first i datagrams are the first Len(G[i]).
GramState(G, i, at, r, n, b, f, d) ==
  /\ Left(r, i)
  /\ at \in {"posted", "reading"} => Apart(n) /\ UpTo(d, Len(G[i]))
  /\ at = "searching" =>
       /\ i # 0
       /\ IF f THEN AtGram(b, i) /\ UpTo(d, Len(G[i]))
          ELSE HoldsGram(b, i) /\ UpTo(d, Len(G[i - 1]))
  /\ at = "handling" => i # 0 /\ AtGram(b, i) /\ UpTo(d, Len(G[i - 1]))
  /\ at = "ending" => Apart(b) /\ UpTo(d, Len(G[i]))

GramAt(G, i) == GramState(G, i, pc, rest, in, buf, found, delivered)

GramInv ==
  /\ line \in Lines
  /\ PlainGrams => \E Q, G, i : Laid(Q, G) /\ GramAt(G, i)

LEMMA GramBytes ==
  ASSUME line \in Lines, NEW i \in 1 .. Len(line)
  PROVE  line[i].bytes \in Seq(Byte) /\ line[i] \in [kind : Kinds, bytes : Seq(Byte)]
<1>1. PICK T : T = [kind : Kinds, bytes : Seq(Byte)]
  OBVIOUS
<1>2. line \in Seq(T)
  BY <1>1, FramingAssumption
<1>3. line[i] \in T
  BY <1>2
<1> QED BY <1>1, <1>3

LEMMA GramInit ==
  ASSUME Init
  PROVE  GramInv
<1>1. line \in Lines /\ pc = "posted" /\ in = <<>> /\ delivered = <<>>
  BY DEF Init
<1>2. SUFFICES ASSUME PlainGrams PROVE \E Q, G, i : Laid(Q, G) /\ GramAt(G, i)
  BY <1>1 DEF GramInv
<1>3. PICK Q, G : Laid(Q, G)
  BY <1>1, LineIsLaid
<1>4. rest = PieceBytes(line)
  BY <1>2 DEF Init, PlainGrams
<1>5. Left(rest, 0)
  <2>1. PICK N \in Nat : N = Len(line)
    BY <1>1, <1>3, PiecesLaid
  <2>2. PICK r \in Seq(Seq(Byte)) : r = PieceBytes(line)
    BY <1>1, BytesOfLine
  <2>3. Len(r) = N /\ \A k \in 1 .. N : r[k] = line[k].bytes
    BY <2>1, <2>2 DEF PieceBytes
  <2>4. PICK z \in 0 .. N : z = 0
    OBVIOUS
  <2>5. Len(r) = N - z /\ \A k \in 1 .. N : z + k = k
    BY <2>3, <2>4
  <2>6. \A k \in 1 .. Len(r) : r[k] = line[z + k].bytes
    BY <2>3, <2>5
  <2>7. Left(r, z)
    BY <2>1, <2>4, <2>5, <2>6 DEF Left
  <2> QED BY <1>4, <2>2, <2>4, <2>7
<1>6. Apart(in) /\ UpTo(delivered, Len(G[0]))
  <2>1. <<>> \in Seq(Seq(Byte))
    OBVIOUS
  <2> QED BY <1>1, <2>1 DEF Apart, UpTo
<1>7. GramAt(G, 0)
  BY <1>1, <1>5, <1>6 DEF GramAt, GramState
<1> QED BY <1>3, <1>7

\* The next datagram, and what is left behind it.
LEMMA LeftNext ==
  ASSUME line \in Lines, NEW r, NEW i, Left(r, i), r # <<>>
  PROVE  /\ i + 1 \in 1 .. Len(line) /\ Head(r) = line[i + 1].bytes
         /\ Left(Tail(r), i + 1)
<1>1. PICK N \in Nat : N = Len(line)
  BY LineIsLaid, PiecesLaid
<1>2. /\ i \in 0 .. N /\ r \in Seq(Seq(Byte)) /\ Len(r) = N - i
      /\ \A k \in 1 .. Len(r) : r[k] = line[i + k].bytes
  BY <1>1 DEF Left
<1>3. Len(r) # 0
  <2>1. PICK S : S = Seq(Byte)
    OBVIOUS
  <2>2. r \in Seq(S)
    BY <1>2, <2>1
  <2> QED BY <2>2, EmptySeq
<1>4. i + 1 \in 1 .. N /\ i + 1 \in 0 .. N /\ 1 \in 1 .. Len(r)
  BY <1>2, <1>3
<1>5. Head(r) = r[1] /\ r[1] = line[i + 1].bytes
  BY <1>2, <1>4
<1>6. PICK t : t = Tail(r)
  OBVIOUS
<1>7. /\ t \in Seq(Seq(Byte)) /\ Len(t) = Len(r) - 1
      /\ \A k \in 1 .. Len(t) : t[k] = r[k + 1]
  <2>1. r \in Seq(Seq(Byte)) /\ r # <<>>
    BY <1>2
  <2> QED BY <1>6, <2>1, HeadTailProperties
<1>8. ASSUME NEW k \in 1 .. Len(t) PROVE t[k] = line[i + 1 + k].bytes
  <2>1. k + 1 \in 1 .. Len(r) /\ i + (k + 1) = i + 1 + k
    BY <1>2, <1>7
  <2>2. r[k + 1] = line[i + (k + 1)].bytes
    BY <1>2, <2>1
  <2> QED BY <1>7, <2>1, <2>2
<1>9. Len(t) = N - (i + 1)
  BY <1>2, <1>7
<1>10. Left(t, i + 1)
  BY <1>1, <1>4, <1>7, <1>8, <1>9 DEF Left
<1> QED BY <1>1, <1>4, <1>5, <1>6, <1>10

\* What holds of the frames handed over holds of more frames sent.
LEMMA UpToMore ==
  ASSUME line \in Lines, NEW Q, NEW G, Laid(Q, G), NEW i \in 1 .. Len(line), NEW d,
         UpTo(d, Len(G[i - 1]))
  PROVE  UpTo(d, Len(G[i]))
<1>1. PICK N \in Nat : N = Len(line)
  BY PiecesLaid
<1>2. i - 1 \in 0 .. N /\ i \in 0 .. N
  BY <1>1
<1>3. PICK u \in Seq(SentFrame), v \in Seq(SentFrame), w \in Seq(SentFrame) :
        u = G[i - 1] /\ v = Wanted(line, i) /\ w = G[i] /\ w = u \o v
  BY <1>1, <1>2, WantedTyped DEF Laid
<1>4. Len(w) = Len(u) + Len(v) /\ Len(u) \in Nat /\ Len(v) \in Nat
  BY <1>3, ConcatProperties
<1>5. \A k \in 1 .. Len(u) : k \in 1 .. Len(w)
  BY <1>4
<1> QED BY <1>3, <1>5 DEF UpTo

LEMMA GramStays ==
  ASSUME UNCHANGED <<line, transport>>
  PROVE  /\ PlainGrams' = PlainGrams
         /\ \A G, i, at, r, n, b, f, d :
              GramState(G, i, at, r, n, b, f, d) => GramState(G, i, at, r, n, b, f, d)'
<1>1. Sent(line)' = Sent(line)
  BY SentStays
<1>2. \A d, k : UpTo(d, k)' = UpTo(d, k)
  BY <1>1 DEF UpTo
<1>3. \A r, i : Left(r, i)' = Left(r, i)
  BY DEF Left
<1>4. \A b, i : HoldsGram(b, i)' = HoldsGram(b, i) /\ AtGram(b, i)' = AtGram(b, i)
  BY DEF HoldsGram, AtGram, Framed
<1>5. Clean(line)' = Clean(line) /\ Small(line)' = Small(line)
      /\ FramesDiffer(line)' = FramesDiffer(line)
  BY LineStays DEF Small, FramesDiffer
<1>6. PlainGrams' = PlainGrams
  BY <1>5 DEF PlainGrams
<1>7. ASSUME NEW G, NEW i, NEW at, NEW r, NEW n, NEW b, NEW f, NEW d,
             GramState(G, i, at, r, n, b, f, d)
      PROVE  GramState(G, i, at, r, n, b, f, d)'
  BY <1>2, <1>3, <1>4, <1>7 DEF GramState
<1> QED BY <1>6, <1>7

\* What a step has to leave for the invariant to hold again.
LEMMA GramGoesOn ==
  ASSUME UNCHANGED <<line, transport>>, line \in Lines, NEW Q, NEW G, Laid(Q, G),
         NEW i, NEW at, NEW r, NEW n, NEW b, NEW f, NEW d,
         GramState(G, i, at, r, n, b, f, d),
         pc' = at, rest' = r, in' = n, buf' = b, found' = f, delivered' = d
  PROVE  GramInv'
<1>1. Laid(Q, G)' /\ GramState(G, i, at, r, n, b, f, d)'
  BY LineStays, GramStays
<1>2. GramAt(G, i)'
  BY <1>1 DEF GramAt
<1>3. line' \in Lines
  OBVIOUS
<1> QED BY <1>1, <1>2, <1>3 DEF GramInv

\* What is kept is one byte at most.
LEMMA ApartBytes ==
  ASSUME NEW h, Apart(h)
  PROVE  h \in Seq(Byte) /\ Len(h) <= 1
<1>1. SyncA \in Byte
  BY DEF SyncA, Byte
<1>2. CASE h = <<>>
  BY <1>2
<1>3. CASE h = <<SyncA>>
  <2> HIDE DEF Byte
  <2> QED BY <1>1, <1>3
<1> QED BY <1>2, <1>3 DEF Apart

\* The bytes of a datagram behind what was kept.
LEMMA GramHeld ==
  ASSUME line \in Lines, NEW i \in 1 .. Len(line), NEW h, Apart(h)
  PROVE  LET b == h \o line[i].bytes
         IN  Appends(b, h, line[i].bytes, Byte)
<1>1. h \in Seq(Byte) /\ line[i].bytes \in Seq(Byte)
  BY ApartBytes, GramBytes
<1> QED BY <1>1, Joins

\* search() on a datagram that is a frame: it passes what was kept.
LEMMA SearchFrameGram ==
  ASSUME line \in Lines, Clean(line), NEW i \in 1 .. Len(line), Framed(line[i]),
         NEW b, HoldsGram(b, i)
  PROVE  From(b, Skipped(b)) = line[i].bytes /\ Found(line[i].bytes)
<1>0. PICK p \in Seq(Byte) : p = line[i].bytes
  BY GramBytes
<1>1. PICK h : Apart(h) /\ p = line[i].bytes /\ b = h \o p
  BY <1>0 DEF HoldsGram
<1>2. Found(p) /\ p[1] = SyncA /\ p[2] = SyncB /\ Len(p) >= 8
  BY <1>1 DEF Clean, WellFramed, Found, WrapperLength, HeaderLength, ChecksumLength
<1>3. h \in Seq(Byte) /\ Len(h) <= 1
  BY <1>1, ApartBytes
<1>4. PICK m \in Nat, n \in Nat : m = Len(h) /\ n = Len(p) /\ m <= 1 /\ n >= 8
  BY <1>1, <1>2, <1>3
<1>5. /\ b \in Seq(Byte) /\ Len(b) = m + n
      /\ \A k \in 1 .. m : b[k] = h[k]
      /\ \A k \in 1 .. n : b[m + k] = p[k]
  <2>1. Appends(b, h, p, Byte)
    <3>1. Appends(h \o p, h, p, Byte)
      BY <1>1, <1>3, Joins
    <3> QED BY <1>1, <3>1
  <2> QED BY <1>4, <2>1 DEF Appends
<1>6. b[m + 1] = SyncA /\ b[m + 2] = SyncB
  BY <1>2, <1>4, <1>5
<1>7. Starts(b, m + 1)
  <2>1. m + 1 + 1 = m + 2
    OBVIOUS
  <2> QED BY <1>6, <2>1 DEF Starts
<1>8. \A k \in 1 .. m : ~Starts(b, k)
  <2>1. SUFFICES ASSUME NEW k \in 1 .. m, Starts(b, k) PROVE FALSE
    OBVIOUS
  <2>2. k = m /\ m = 1
    BY <1>4
  <2>3. PICK t : t = k + 1
    OBVIOUS
  <2>4. b[t] = SyncB \/ k = Len(b)
    BY <2>1, <2>3 DEF Starts
  <2>5. t = m + 1 /\ k # Len(b)
    <3>1. PICK c : c = Len(b)
      OBVIOUS
    <3>2. c = m + n /\ n >= 8
      BY <1>4, <1>5, <3>1
    <3>3. k # c
      BY <2>2, <3>2
    <3>4. t = m + 1
      BY <2>2, <2>3
    <3> QED BY <3>1, <3>3, <3>4
  <2> QED BY <1>6, <2>4, <2>5 DEF SyncA, SyncB
<1>9. Skipped(b) = m
  <2>1. /\ Skipped(b) \in 0 .. Len(b)
        /\ Skipped(b) < Len(b) => Starts(b, Skipped(b) + 1)
        /\ \A k \in 1 .. Skipped(b) : ~Starts(b, k)
    BY <1>5, SearchStops
  <2>2. PICK s \in Nat : s = Skipped(b) /\ s <= m + n
    BY <1>4, <1>5, <2>1
  <2>3. ~(m + 1 \in 1 .. s)
    BY <1>7, <2>1, <2>2
  <2>4. s < m + n
    BY <1>4, <2>2, <2>3
  <2>5. Starts(b, s + 1)
    BY <1>5, <2>1, <2>2, <2>4
  <2>6. ~(s + 1 \in 1 .. m)
    BY <1>8, <2>5
  <2> QED BY <1>4, <2>2, <2>3, <2>6
<1>10. From(b, m) = p
  <2>1. PICK c \in Nat : c = m + n
    OBVIOUS
  <2>2. PICK t : t = Part(b, m, c)
    OBVIOUS
  <2>3. t \in Seq(Byte) /\ Len(t) = n /\ \A k \in 1 .. n : t[k] = b[m + k]
    <3>1. b \in Seq(Byte) /\ c = m + n /\ c <= Len(b)
      BY <1>5, <2>1
    <3>2. Takes(t, b, m, n)
      BY <2>2, <3>1, PartOfLength
    <3> QED BY <3>2 DEF Takes
  <2>4. t = p
    <3>1. t \in Seq(Byte) /\ p \in Seq(Byte) /\ Len(t) = Len(p)
      BY <1>4, <2>3
    <3>2. \A k \in 1 .. Len(t) : t[k] = p[k]
      BY <1>5, <2>3
    <3> QED BY <3>1, <3>2, SeqEqual
  <2>5. t = SubSeq(b, m + 1, Len(b))
    BY <1>5, <2>1, <2>2 DEF Part
  <2> QED BY <2>4, <2>5 DEF From
<1> QED BY <1>1, <1>2, <1>9, <1>10

\* Too few bytes for a frame.
LEMMA NothingFound ==
  ASSUME NEW b, Apart(b)
  PROVE  ~Found(b)
<1>1. Len(b) <= 1 /\ Len(b) \in Nat
  BY ApartBytes
<1> QED BY <1>1 DEF Found, WrapperLength, HeaderLength, ChecksumLength

\* search() on a datagram without a frame: it keeps the last byte at most.
LEMMA SearchSilentGram ==
  ASSUME line \in Lines, Clean(line), NEW i \in 1 .. Len(line), ~Framed(line[i]),
         NEW b, HoldsGram(b, i)
  PROVE  Apart(From(b, Skipped(b)))
<1>0. PICK p \in Seq(Byte) : p = line[i].bytes
  BY GramBytes
<1>1. PICK h : Apart(h) /\ p = line[i].bytes /\ b = h \o p
  BY <1>0 DEF HoldsGram
<1>2. /\ p # <<>> /\ p[1] # SyncB
      /\ \A k \in 1 .. Len(p) - 1 : ~(p[k] = SyncA /\ p[k + 1] = SyncB)
  BY <1>1 DEF Clean, Silent
<1>3. h \in Seq(Byte) /\ Len(h) <= 1
  BY <1>1, ApartBytes
<1>4. PICK m \in Nat, n \in Nat : m = Len(h) /\ n = Len(p) /\ m <= 1 /\ n >= 1
  <2>1. Len(p) # 0
    BY <1>2, EmptySeq
  <2> QED BY <1>3, <2>1
<1>5. /\ b \in Seq(Byte) /\ Len(b) = m + n
      /\ \A k \in 1 .. m : b[k] = h[k]
      /\ \A k \in 1 .. n : b[m + k] = p[k]
  <2>1. Appends(b, h, p, Byte)
    <3>1. Appends(h \o p, h, p, Byte)
      BY <1>1, <1>3, Joins
    <3> QED BY <1>1, <3>1
  <2> QED BY <1>4, <2>1 DEF Appends
<1>6. PICK c \in Nat : c = m + n /\ Len(b) = c /\ c >= 1
  BY <1>4, <1>5
<1>7. ASSUME NEW k \in 1 .. c, k # c PROVE ~Starts(b, k)
  <2>1. SUFFICES ASSUME Starts(b, k) PROVE FALSE
    OBVIOUS
  <2>2. PICK t : t = k + 1
    OBVIOUS
  <2>3. b[k] = SyncA /\ b[t] = SyncB
    BY <1>6, <1>7, <2>1, <2>2 DEF Starts
  <2>4. CASE k <= m
    <3>1. k = m /\ t = m + 1 /\ 1 \in 1 .. n
      BY <1>4, <2>2, <2>4
    <3>2. b[t] = p[1]
      BY <1>5, <3>1
    <3> QED BY <1>2, <2>3, <3>2
  <2>5. CASE ~(k <= m)
    <3>1. PICK j : j = k - m
      OBVIOUS
    <3>2. /\ j \in 1 .. n - 1 /\ j \in 1 .. n /\ j + 1 \in 1 .. n
          /\ k = m + j /\ t = m + (j + 1)
      BY <1>6, <1>7, <2>2, <2>5, <3>1
    <3>3. b[k] = p[j] /\ b[t] = p[j + 1]
      BY <1>5, <3>2
    <3> QED BY <1>2, <1>4, <2>3, <3>2, <3>3
  <2> QED BY <2>4, <2>5
<1>8. PICK s \in Nat : s = Skipped(b) /\ s <= c /\ (s < c => Starts(b, s + 1))
  BY <1>5, <1>6, SearchStops
<1>9. s = c \/ s + 1 = c
  BY <1>6, <1>7, <1>8
<1>10. From(b, s) \in Seq(Byte) /\ Len(From(b, s)) = c - s
  <2>1. s \in 0 .. Len(b)
    BY <1>6, <1>8
  <2> QED BY <1>5, <1>6, <2>1, FromType
<1>11. CASE s = c
  <2>1. Len(From(b, s)) = 0
    BY <1>10, <1>11
  <2>2. From(b, s) = <<>>
    BY <1>10, <2>1, EmptySeq
  <2> QED BY <1>8, <2>2 DEF Apart
<1>12. CASE s + 1 = c
  <2>1. b[c] = SyncA
    <3>1. Starts(b, c)
      BY <1>8, <1>12
    <3> QED BY <3>1 DEF Starts
  <2>2. PICK t : t = Part(b, s, c)
    OBVIOUS
  <2>3. t \in Seq(Byte) /\ Len(t) = 1 /\ t[1] = SyncA
    <3>1. s <= c /\ c <= Len(b) /\ c - s = 1
      BY <1>6, <1>12
    <3>2. t \in Seq(Byte) /\ Len(t) = c - s /\ \A k \in 1 .. c - s : t[k] = b[s + k]
      BY <1>5, <2>2, <3>1, PartProperties
    <3>3. t[1] = b[s + 1]
      BY <3>1, <3>2
    <3> QED BY <1>12, <2>1, <3>1, <3>2, <3>3
  <2>4. t = <<SyncA>>
    BY <2>3
  <2>5. t = From(b, s)
    BY <1>6, <2>2 DEF Part, From
  <2> QED BY <1>8, <2>4, <2>5 DEF Apart
<1> QED BY <1>9, <1>11, <1>12

\* search() behind the frame a datagram was: nothing is left.
LEMMA SearchPastGram ==
  ASSUME line \in Lines, Clean(line), NEW i \in 1 .. Len(line), NEW b, AtGram(b, i)
  PROVE  LET rem == From(b, FrameSize(b)) IN From(rem, Skipped(rem)) = <<>>
<1>1. b \in Seq(Byte) /\ Found(b) /\ Len(b) = FrameSize(b)
  BY GramBytes DEF AtGram, Clean, WellFramed
<1>2. PICK rem : rem = From(b, FrameSize(b))
  OBVIOUS
<1>3. rem \in Seq(Byte) /\ Len(rem) = 0
  <2>1. Len(b) \in 0 .. Len(b)
    BY <1>1
  <2>2. From(b, Len(b)) \in Seq(Byte) /\ Len(From(b, Len(b))) = Len(b) - Len(b)
    BY <1>1, <2>1, FromType
  <2> QED BY <1>1, <1>2, <2>1, <2>2
<1>4. Skipped(rem) = 0
  <2>1. Skipped(rem) \in 0 .. Len(rem)
    BY <1>3, SearchStops
  <2> QED BY <1>3, <2>1
<1>5. From(rem, 0) \in Seq(Byte) /\ Len(From(rem, 0)) = 0
  <2>1. PICK z \in 0 .. Len(rem) : z = 0
    BY <1>3
  <2>2. From(rem, z) \in Seq(Byte) /\ Len(From(rem, z)) = Len(rem) - z
    BY <1>3, <2>1, FromType
  <2> QED BY <1>3, <2>1, <2>2
<1>6. From(rem, Skipped(rem)) = <<>>
  BY <1>4, <1>5, EmptySeq
<1> QED BY <1>2, <1>6

\* The i-th datagram is handed over, or nothing is: where it stands in what was sent.
HandsOver(i, G, d, now) ==
  \/ now = d
  \/ /\ Len(G[i]) = Len(G[i - 1]) + 1 /\ Len(G[i]) \in 1 .. Len(Sent(line))
     /\ now = Append(d, Sent(line)[Len(G[i])].frame)

LEMMA HandleGram ==
  ASSUME PlainGrams, line \in Lines, NEW Q, NEW G, Laid(Q, G), NEW i \in 1 .. Len(line),
         AtGram(buf, i), Handle
  PROVE  HandsOver(i, G, delivered, delivered')
<1>1. PICK p \in Seq(Byte) : p = line[i].bytes
  BY GramBytes
<1>2. buf = p /\ Found(p) /\ Len(p) = FrameSize(p) /\ (IsFrame(line[i]) <=> Intact(p))
  BY <1>1 DEF AtGram, PlainGrams, Clean, WellFramed
<1>3. Whole(buf) = p
  BY <1>1, <1>2, WholePart DEF Whole, Part
<1>4. CASE ~Accepts(p)
  BY <1>3, <1>4 DEF Handle, HandsOver
<1>5. CASE Accepts(p)
  <2>1. delivered' = Append(delivered, p)
    BY <1>3, <1>5 DEF Handle
  <2>2. PICK w \in SentFrame : w = [frame |-> line[i].bytes, sure |-> Sure(line, i)]
    BY WantedTyped
  <2>3. Wanted(line, i) = <<w>> /\ w.frame = p
    BY <1>1, <1>2, <1>5, <2>2 DEF Accepts, Wanted
  <2>4. PICK N \in Nat : N = Len(line)
    BY PiecesLaid
  <2>5. i - 1 \in 0 .. N /\ i \in 0 .. N
    BY <2>4
  <2>6. PICK S : S = SentFrame
    OBVIOUS
  <2>7. PICK u \in Seq(S), t \in Seq(S) : u = G[i - 1] /\ t = G[i] /\ t = u \o <<w>>
    BY <2>3, <2>4, <2>5, <2>6 DEF Laid
  <2>8. w \in S
    BY <2>6
  <2>9. PICK m \in Nat : m = Len(u)
    BY <2>7
  <2>10. Len(t) = m + 1 /\ t[m + 1] = w
    BY <2>7, <2>8, <2>9
  <2>11. Len(t) <= Len(Sent(line)) /\ \A k \in 1 .. Len(t) : Sent(line)[k] = t[k]
    <3>1. i \in 0 .. Len(line)
      BY <2>4, <2>5
    <3>2. Len(G[i]) <= Len(Sent(line)) /\ \A k \in 1 .. Len(G[i]) : Sent(line)[k] = G[i][k]
      BY <3>1, SentGrows
    <3> QED BY <2>7, <3>2
  <2>12. Len(Sent(line)) \in Nat
    BY <2>4, PiecesLaid DEF Laid
  <2>13. m + 1 \in 1 .. Len(Sent(line)) /\ Sent(line)[m + 1] = w
    BY <2>10, <2>11, <2>12
  <2>14. Len(G[i]) = Len(G[i - 1]) + 1 /\ Len(G[i]) = m + 1
    BY <2>7, <2>9, <2>10
  <2> QED BY <2>1, <2>3, <2>13, <2>14 DEF HandsOver
<1> QED BY <1>4, <1>5

LEMMA DoReadGram ==
  ASSUME IInv, GramInv, PlainGrams, DoRead
  PROVE  GramInv'
<1>1. line \in Lines /\ \E Q, G, i : Laid(Q, G) /\ GramAt(G, i)
  BY DEF GramInv
<1>2. PICK Q, G, i : Laid(Q, G) /\ GramAt(G, i)
  BY <1>1
<1>3. pc = "posted" /\ in' = MakeRoom(in) /\ pc' = "reading"
      /\ UNCHANGED <<line, transport, rest, buf, found, delivered>>
  BY DEF DoRead, reader, history
<1>4. Left(rest, i) /\ Apart(in) /\ UpTo(delivered, Len(G[i]))
  BY <1>2, <1>3 DEF GramAt, GramState
<1>5. in' = in
  BY <1>3, <1>4, ApartBytes, CapacityType DEF MakeRoom
<1>6. PICK r, n, b, f, d : r = rest /\ n = in /\ b = buf /\ f = found /\ d = delivered
  OBVIOUS
<1>7. GramState(G, i, "reading", r, n, b, f, d)
  BY <1>4, <1>6 DEF GramState
<1>8. /\ UNCHANGED <<line, transport>> /\ pc' = "reading" /\ rest' = r /\ in' = n
      /\ buf' = b /\ found' = f /\ delivered' = d
  BY <1>3, <1>5, <1>6
<1> QED BY <1>1, <1>2, <1>7, <1>8, GramGoesOn

LEMMA ReadEndGram ==
  ASSUME IInv, GramInv, PlainGrams, ReadEnd
  PROVE  GramInv'
<1>1. line \in Lines /\ \E Q, G, i : Laid(Q, G) /\ GramAt(G, i)
  BY DEF GramInv
<1>2. PICK Q, G, i : Laid(Q, G) /\ GramAt(G, i)
  BY <1>1
<1>3. /\ pc = "reading" /\ rest # <<>> /\ pc' = "searching" /\ buf' = in' /\ found' = FALSE
      /\ UNCHANGED <<line, transport, delivered>>
      /\ \E n \in Transfers(Head(rest), Capacity - Len(in)) :
           in' = in \o SubSeq(Head(rest), 1, n) /\ rest' = Unread(Head(rest), n)
  BY DEF ReadEnd, history
<1>4. Left(rest, i) /\ Apart(in) /\ UpTo(delivered, Len(G[i]))
  BY <1>2, <1>3 DEF GramAt, GramState
<1>5. PICK t, h, d : t = Tail(rest) /\ h = in /\ d = delivered
  OBVIOUS
<1>6. PICK j : j = i + 1
  OBVIOUS
<1>7. j \in 1 .. Len(line) /\ Head(rest) = line[j].bytes /\ Left(t, j)
  <2>1. PICK r : r = rest /\ Left(r, i) /\ r # <<>>
    BY <1>3, <1>4
  <2>2. i + 1 \in 1 .. Len(line) /\ Head(r) = line[i + 1].bytes /\ Left(Tail(r), i + 1)
    BY <1>1, <2>1, LeftNext
  <2> QED BY <1>5, <1>6, <2>1, <2>2
<1>8. PICK p \in Seq(Byte) : p = line[j].bytes /\ p = Head(rest) /\ Len(p) < Capacity
  BY <1>1, <1>7, GramBytes DEF PlainGrams, Small
<1>9. PICK n \in Transfers(p, Capacity - Len(in)) :
        in' = in \o SubSeq(p, 1, n) /\ rest' = Unread(p, n)
  BY <1>3, <1>8
<1>10. n = Len(p)
  <2>1. Len(p) <= Capacity - Len(in)
    BY <1>4, <1>8, ApartBytes, CapacityType
  <2>2. transport # "stream"
    BY DEF PlainGrams
  <2>3. PICK room : room = Capacity - Len(in) /\ room \in Int /\ n \in Transfers(p, room)
    BY <1>4, <1>9, ApartBytes, CapacityType
  <2> QED BY <2>1, <2>2, <2>3 DEF Transfers
<1>11. in' = h \o p
  <2>1. SubSeq(p, 1, Len(p)) = p
    BY WholePart DEF Part
  <2> QED BY <1>5, <1>9, <1>10, <2>1
<1>12. rest' = t
  BY <1>5, <1>9 DEF Unread, PlainGrams
<1>13. PICK b : b = h \o p
  OBVIOUS
<1>14. HoldsGram(b, j)
  BY <1>4, <1>5, <1>8, <1>13 DEF HoldsGram
<1>15. j # 0 /\ UpTo(d, Len(G[j - 1]))
  <2>1. i \in Nat
    BY <1>1, <1>2, <1>4, PiecesLaid DEF Left
  <2>2. j - 1 = i /\ j # 0
    BY <1>6, <2>1
  <2> QED BY <1>4, <1>5, <2>2
<1>16. GramState(G, j, "searching", t, b, b, FALSE, d)
  BY <1>7, <1>14, <1>15 DEF GramState
<1>17. /\ UNCHANGED <<line, transport>> /\ pc' = "searching" /\ rest' = t /\ in' = b
       /\ buf' = b /\ found' = FALSE /\ delivered' = d
  BY <1>3, <1>5, <1>11, <1>12, <1>13
<1> QED BY <1>1, <1>2, <1>16, <1>17, GramGoesOn

LEMMA DropGram ==
  ASSUME IInv, GramInv, PlainGrams, DropDatagram
  PROVE  GramInv'
<1>1. line \in Lines /\ \E Q, G, i : Laid(Q, G) /\ GramAt(G, i)
  BY DEF GramInv
<1>2. PICK Q, G, i : Laid(Q, G) /\ GramAt(G, i)
  BY <1>1
<1>3. /\ pc = "reading" /\ pc' = "reading" /\ rest # <<>> /\ rest' = Tail(rest)
      /\ UNCHANGED <<line, transport, in, buf, found, delivered>>
  BY DEF DropDatagram, reader, history
<1>4. Left(rest, i) /\ Apart(in) /\ UpTo(delivered, Len(G[i]))
  BY <1>2, <1>3 DEF GramAt, GramState
<1>5. PICK t, n, b, f, d : t = Tail(rest) /\ n = in /\ b = buf /\ f = found /\ d = delivered
  OBVIOUS
<1>6. PICK j : j = i + 1
  OBVIOUS
<1>7. j \in 1 .. Len(line) /\ Left(t, j)
  <2>1. PICK r : r = rest /\ Left(r, i) /\ r # <<>>
    BY <1>3, <1>4
  <2>2. i + 1 \in 1 .. Len(line) /\ Left(Tail(r), i + 1)
    BY <1>1, <2>1, LeftNext
  <2> QED BY <1>5, <1>6, <2>1, <2>2
<1>8. UpTo(d, Len(G[j]))
  <2>1. i \in Nat
    BY <1>1, <1>2, <1>4, PiecesLaid DEF Left
  <2>2. j - 1 = i
    BY <1>6, <2>1
  <2>3. UpTo(d, Len(G[j - 1]))
    BY <1>4, <1>5, <2>2
  <2> QED BY <1>1, <1>2, <1>7, <2>3, UpToMore
<1>9. GramState(G, j, "reading", t, n, b, f, d)
  BY <1>4, <1>5, <1>7, <1>8 DEF GramState
<1>10. /\ UNCHANGED <<line, transport>> /\ pc' = "reading" /\ rest' = t /\ in' = n
       /\ buf' = b /\ found' = f /\ delivered' = d
  BY <1>3, <1>5
<1> QED BY <1>1, <1>2, <1>9, <1>10, GramGoesOn

LEMMA SearchGram ==
  ASSUME IInv, GramInv, PlainGrams, Search
  PROVE  GramInv'
<1>1. line \in Lines /\ \E Q, G, i : Laid(Q, G) /\ GramAt(G, i)
  BY DEF GramInv
<1>2. PICK Q, G, i : Laid(Q, G) /\ GramAt(G, i)
  BY <1>1
<1>3. /\ pc = "searching" /\ buf' = From(Passed(buf), Skipped(Passed(buf)))
      /\ found' = Found(buf') /\ pc' = (IF found' THEN "handling" ELSE "ending")
      /\ UNCHANGED <<line, transport, rest, in, delivered>>
  BY DEF Search, history
<1>4. /\ Left(rest, i) /\ i # 0
      /\ IF found THEN AtGram(buf, i) /\ UpTo(delivered, Len(G[i]))
         ELSE HoldsGram(buf, i) /\ UpTo(delivered, Len(G[i - 1]))
  BY <1>2, <1>3 DEF GramAt, GramState
<1>5. i \in 1 .. Len(line)
  <2>1. Len(line) \in Nat /\ i \in 0 .. Len(line)
    BY <1>1, <1>2, <1>4, PiecesLaid DEF Left
  <2> QED BY <1>4, <2>1
<1>6. PICK r, n, b, d, c : r = rest /\ n = in /\ b = buf /\ d = delivered
                           /\ c = From(Passed(buf), Skipped(Passed(buf)))
  OBVIOUS
<1>7. Clean(line)
  BY DEF PlainGrams
<1>8. CASE found
  <2>1. c = <<>>
    <3>1. PICK rem : rem = From(b, FrameSize(b))
      OBVIOUS
    <3>2. AtGram(b, i)
      BY <1>4, <1>6, <1>8
    <3>3. From(rem, Skipped(rem)) = <<>>
      BY <1>1, <1>5, <1>7, <3>1, <3>2, SearchPastGram
    <3>4. Passed(buf) = rem
      BY <1>6, <1>8, <3>1 DEF Passed
    <3> QED BY <1>6, <3>3, <3>4
  <2>2. Apart(c)
    BY <2>1 DEF Apart
  <2>3. ~Found(c)
    BY <2>2, NothingFound
  <2>4. GramState(G, i, "ending", r, n, c, FALSE, d)
    BY <1>4, <1>6, <1>8, <2>2 DEF GramState
  <2>5. /\ UNCHANGED <<line, transport>> /\ pc' = "ending" /\ rest' = r /\ in' = n
        /\ buf' = c /\ found' = FALSE /\ delivered' = d
    BY <1>3, <1>6, <2>3
  <2> QED BY <1>1, <1>2, <2>4, <2>5, GramGoesOn
<1>9. CASE ~found
  <2>1. HoldsGram(b, i) /\ UpTo(d, Len(G[i - 1])) /\ c = From(b, Skipped(b))
    <3>1. Passed(buf) = b
      BY <1>6, <1>9 DEF Passed
    <3> QED BY <1>4, <1>6, <1>9, <3>1
  <2>2. CASE Framed(line[i])
    <3>1. c = line[i].bytes /\ Found(c)
      BY <1>1, <1>5, <1>7, <2>1, <2>2, SearchFrameGram
    <3>2. AtGram(c, i)
      BY <2>2, <3>1 DEF AtGram
    <3>3. GramState(G, i, "handling", r, n, c, TRUE, d)
      BY <1>4, <1>6, <2>1, <3>2 DEF GramState
    <3>4. found' = TRUE
      BY <1>3, <1>6, <3>1 DEF Found
    <3>5. /\ UNCHANGED <<line, transport>> /\ pc' = "handling" /\ rest' = r /\ in' = n
          /\ buf' = c /\ found' = TRUE /\ delivered' = d
      BY <1>3, <1>6, <3>4
    <3> QED BY <1>1, <1>2, <3>3, <3>5, GramGoesOn
  <2>3. CASE ~Framed(line[i])
    <3>1. Apart(c)
      BY <1>1, <1>5, <1>7, <2>1, <2>3, SearchSilentGram
    <3>2. ~Found(c)
      BY <3>1, NothingFound
    <3>3. UpTo(d, Len(G[i]))
      BY <1>1, <1>2, <1>5, <2>1, UpToMore
    <3>4. GramState(G, i, "ending", r, n, c, FALSE, d)
      BY <1>4, <1>6, <3>1, <3>3 DEF GramState
    <3>5. /\ UNCHANGED <<line, transport>> /\ pc' = "ending" /\ rest' = r /\ in' = n
          /\ buf' = c /\ found' = FALSE /\ delivered' = d
      BY <1>3, <1>6, <3>2
    <3> QED BY <1>1, <1>2, <3>4, <3>5, GramGoesOn
  <2> QED BY <2>2, <2>3
<1> QED BY <1>8, <1>9

\* A frame handed over is the last one handed over.
LEMMA UpToHandsOver ==
  ASSUME PlainGrams, line \in Lines, NEW Q, NEW G, Laid(Q, G), NEW i \in 1 .. Len(line),
         NEW d, NEW now, UpTo(d, Len(G[i - 1])), HandsOver(i, G, d, now)
  PROVE  UpTo(now, Len(G[i]))
<1>1. CASE now = d
  BY <1>1, UpToMore
<1>2. CASE now # d
  <2>1. PICK k : k = Len(G[i])
    OBVIOUS
  <2>2. PICK s \in Seq(SentFrame) : s = Sent(line)
    <3>1. Len(line) \in 0 .. Len(line)
      BY PiecesLaid
    <3> QED BY <3>1 DEF Laid
  <2>3. k \in 1 .. Len(s) /\ now = Append(d, s[k].frame)
    BY <1>2, <2>1, <2>2 DEF HandsOver
  <2>4. PICK x : x = s[k].frame
    OBVIOUS
  <2>5. x \in Seq(Byte)
    <3>1. PICK S : S = SentFrame
      OBVIOUS
    <3>2. s \in Seq(S)
      BY <2>2, <3>1
    <3>3. s[k] \in S
      BY <2>3, <3>2
    <3> QED BY <2>4, <3>1, <3>3 DEF SentFrame
  <2>6. PICK V : V = Seq(Byte)
    OBVIOUS
  <2>7. d \in Seq(V) /\ x \in V
    BY <2>5, <2>6 DEF UpTo
  <2>8. now \in Seq(V) /\ Last(now) = x
    BY <2>3, <2>4, <2>7 DEF Last
  <2>9. k \in 1 .. k
    BY <2>2, <2>3
  <2> QED BY <2>1, <2>2, <2>4, <2>6, <2>8, <2>9 DEF UpTo
<1> QED BY <1>1, <1>2

LEMMA HandleGramKeeps ==
  ASSUME IInv, GramInv, PlainGrams, Handle
  PROVE  GramInv'
<1>1. line \in Lines /\ \E Q, G, i : Laid(Q, G) /\ GramAt(G, i)
  BY DEF GramInv
<1>2. PICK Q, G, i : Laid(Q, G) /\ GramAt(G, i)
  BY <1>1
<1>3. /\ pc = "handling" /\ pc' = "searching"
      /\ UNCHANGED <<line, transport, rest, in, buf, found>>
  BY DEF Handle, reader
<1>4. Left(rest, i) /\ i # 0 /\ AtGram(buf, i) /\ UpTo(delivered, Len(G[i - 1]))
  BY <1>2, <1>3 DEF GramAt, GramState
<1>5. found = TRUE
  BY <1>3 DEF IInv, Searching
<1>6. i \in 1 .. Len(line)
  <2>1. Len(line) \in Nat /\ i \in 0 .. Len(line)
    BY <1>1, <1>2, <1>4, PiecesLaid DEF Left
  <2> QED BY <1>4, <2>1
<1>7. PICK r, n, b, d, now : r = rest /\ n = in /\ b = buf /\ d = delivered /\ now = delivered'
  OBVIOUS
<1>8. HandsOver(i, G, d, now)
  <2>1. HandsOver(i, G, delivered, delivered')
    BY <1>1, <1>2, <1>4, <1>6, HandleGram
  <2> QED BY <1>7, <2>1
<1>9. UpTo(now, Len(G[i]))
  <2>1. UpTo(d, Len(G[i - 1]))
    BY <1>4, <1>7
  <2> QED BY <1>1, <1>2, <1>6, <1>8, <2>1, UpToHandsOver
<1>10. GramState(G, i, "searching", r, n, b, TRUE, now)
  BY <1>4, <1>7, <1>9 DEF GramState
<1>11. /\ UNCHANGED <<line, transport>> /\ pc' = "searching" /\ rest' = r /\ in' = n
       /\ buf' = b /\ found' = TRUE /\ delivered' = now
  BY <1>3, <1>5, <1>7
<1> QED BY <1>1, <1>2, <1>10, <1>11, GramGoesOn

LEMMA GramKeeps ==
  ASSUME IInv, GramInv, [Next]_vars
  PROVE  GramInv'
<1>1. UNCHANGED <<line, transport>>
  BY DEF Next, DoRead, ReadEnd, ReadFails, Search, Handle, FinishRead, DropDatagram, vars
<1>2. CASE ~PlainGrams
  BY <1>1, <1>2, GramStays DEF GramInv
<1>3. CASE PlainGrams
  <2>1. line \in Lines /\ \E Q, G, i : Laid(Q, G) /\ GramAt(G, i)
    BY <1>3 DEF GramInv
  <2>2. PICK Q, G, i : Laid(Q, G) /\ GramAt(G, i)
    BY <2>1
  <2>3. PICK r, n, b, f, d : r = rest /\ n = in /\ b = buf /\ f = found /\ d = delivered
    OBVIOUS
  <2>4. GramState(G, i, pc, r, n, b, f, d)
    BY <2>2, <2>3 DEF GramAt
  <2>5. CASE DoRead
    BY <1>3, <2>5, DoReadGram
  <2>6. CASE ReadEnd
    BY <1>3, <2>6, ReadEndGram
  <2>7. CASE ReadFails
    <3>1. /\ pc = "reading" /\ pc' = "posted"
          /\ UNCHANGED <<line, transport, rest, in, buf, found, delivered>>
      BY <2>7 DEF ReadFails, reader, history
    <3>2. GramState(G, i, "posted", r, n, b, f, d)
      BY <2>4, <3>1 DEF GramState
    <3>3. /\ UNCHANGED <<line, transport>> /\ pc' = "posted" /\ rest' = r /\ in' = n
          /\ buf' = b /\ found' = f /\ delivered' = d
      BY <2>3, <3>1
    <3> QED BY <2>1, <2>2, <3>2, <3>3, GramGoesOn
  <2>8. CASE Search
    BY <1>3, <2>8, SearchGram
  <2>9. CASE Handle
    BY <1>3, <2>9, HandleGramKeeps
  <2>10. CASE FinishRead
    <3>1. /\ pc = "ending" /\ pc' = "posted" /\ in' = buf
          /\ UNCHANGED <<line, transport, rest, buf, found, delivered>>
      BY <2>10 DEF FinishRead, Kept, reader
    <3>2. GramState(G, i, "posted", r, b, b, f, d)
      BY <2>4, <3>1 DEF GramState
    <3>3. /\ UNCHANGED <<line, transport>> /\ pc' = "posted" /\ rest' = r /\ in' = b
          /\ buf' = b /\ found' = f /\ delivered' = d
      BY <2>3, <3>1
    <3> QED BY <2>1, <2>2, <3>2, <3>3, GramGoesOn
  <2>11. CASE DropDatagram
    BY <1>3, <2>11, DropGram
  <2>12. CASE UNCHANGED vars
    <3>1. PICK at : at = pc
      OBVIOUS
    <3>2. /\ UNCHANGED <<line, transport>> /\ pc' = at /\ rest' = r /\ in' = n
          /\ buf' = b /\ found' = f /\ delivered' = d
      BY <2>3, <2>12, <3>1 DEF vars
    <3>3. GramState(G, i, at, r, n, b, f, d)
      BY <2>4, <3>1
    <3> QED BY <2>1, <2>2, <3>2, <3>3, GramGoesOn
  <2> QED BY <2>5, <2>6, <2>7, <2>8, <2>9, <2>10, <2>11, <2>12 DEF Next
<1> QED BY <1>2, <1>3

\* Nothing is sure in datagrams.
LEMMA NothingSure ==
  ASSUME PlainGrams, line \in Lines, NEW Q, NEW G, Laid(Q, G)
  PROVE  \A k \in 1 .. Len(Sent(line)) : ~Sent(line)[k].sure
<1>1. PICK S : S = {w \in SentFrame : ~w.sure}
  OBVIOUS
<1>2. PICK N \in Nat : N = Len(line)
  BY PiecesLaid
<1> DEFINE ss == [i \in 1 .. N |-> Wanted(line, i)]
<1>3. ASSUME NEW i \in 1 .. N PROVE Wanted(line, i) \in Seq(S)
  <2>1. PICK w \in SentFrame : w = [frame |-> line[i].bytes, sure |-> Sure(line, i)]
    BY <1>2, WantedTyped
  <2>2. ~w.sure
    BY <2>1 DEF Sure, PlainGrams
  <2>3. w \in S
    BY <1>1, <2>1, <2>2
  <2>4. Wanted(line, i) = <<w>> \/ Wanted(line, i) = <<>>
    BY <2>1 DEF Wanted
  <2>5. <<w>> \in Seq(S) /\ <<>> \in Seq(S)
    BY <2>3
  <2> QED BY <2>4, <2>5
<1>4. ss \in Seq(Seq(S)) /\ Len(ss) = N /\ \A i \in 1 .. N : ss[i] = Wanted(line, i)
  BY <1>3
<1> HIDE DEF ss
<1>5. G[0] = <<>> /\ \A i \in 1 .. Len(ss) : G[i] = G[i - 1] \o ss[i]
  BY <1>2, <1>4 DEF Laid
<1>6. \A i \in 0 .. Len(ss) : G[i] \in Seq(S)
  BY <1>4, <1>5, StepsTyped
<1>7. Sent(line) \in Seq(S)
  <2>1. N \in 0 .. Len(ss) /\ G[N] = Sent(line)
    BY <1>2, <1>4 DEF Laid
  <2> QED BY <1>6, <2>1
<1>8. \A k \in 1 .. Len(Sent(line)) : Sent(line)[k] \in S
  BY <1>7
<1> QED BY <1>1, <1>8

\* t is the items of s behind the m-th, up to the n-th.
SliceOf(t, s, m, n, S) ==
  t \in Seq(S) /\ Len(t) = n - m /\ \A i \in 1 .. n - m : t[i] = s[m + i]

LEMMA Slice ==
  ASSUME NEW S, NEW s, NEW m \in Nat, NEW n \in Nat, m <= n,
         \A i \in m + 1 .. n : s[i] \in S, NEW t, t = SubSeq(s, m + 1, n)
  PROVE  SliceOf(t, s, m, n, S)
<1>1. PICK a \in Int : a = m + 1 /\ \A i \in a .. n : s[i] \in S
  OBVIOUS
<1>2. /\ SubSeq(s, a, n) \in Seq(S) /\ Len(SubSeq(s, a, n)) = IF a <= n THEN n - a + 1 ELSE 0
      /\ \A i \in 1 .. n - a + 1 : SubSeq(s, a, n)[i] = s[a + i - 1]
  BY <1>1, SubSeqProperties
<1>3. t = SubSeq(s, a, n) /\ n - a + 1 = n - m /\ (~(a <= n) => n - m = 0)
  BY <1>1
<1>4. \A i \in 1 .. n - m : a + i - 1 = m + i
  BY <1>1
<1> QED BY <1>2, <1>3, <1>4 DEF SliceOf

\* A part of what is behind the first m items.
RestOf(p, s, m, k, S) ==
  /\ p \in Seq(S) /\ Len(p) = Len(s) - m
  /\ \A j \in 1 .. Len(p) : p[j] = s[m + j]
  /\ SubSeq(p, k - m + 1, Len(p)) = SubSeq(s, k + 1, Len(s))

LEMMA RestOfRest ==
  ASSUME NEW S, NEW s \in Seq(S), NEW m \in Nat, NEW k \in Nat, m < k, k <= Len(s),
         NEW p, p = SubSeq(s, m + 1, Len(s))
  PROVE  RestOf(p, s, m, k, S)
<1>1. PICK n \in Nat : n = Len(s)
  OBVIOUS
<1>2. p = SubSeq(s, m + 1, n)
  BY <1>1
<1>3. \A j \in 1 .. n : s[j] \in S
  BY <1>1
<1>4. p \in Seq(S) /\ Len(p) = n - m /\ \A j \in 1 .. n - m : p[j] = s[m + j]
  <2>1. m <= n /\ \A j \in m + 1 .. n : s[j] \in S
    BY <1>1, <1>3
  <2>2. SliceOf(p, s, m, n, S)
    BY <1>2, <2>1, Slice
  <2> QED BY <2>2 DEF SliceOf
<1>5. PICK c \in Nat, e \in Nat : c = n - m /\ e = k - m /\ e <= c /\ c - e = n - k
  <2>1. k <= n
    BY <1>1
  <2>2. n - m \in Nat /\ k - m \in Nat /\ k - m <= n - m /\ n - m - (k - m) = n - k
    BY <2>1
  <2> QED BY <2>2
<1>6. PICK t : t = SubSeq(p, e + 1, c)
  OBVIOUS
<1>12. PICK u : u = SubSeq(s, k + 1, n)
  OBVIOUS
<1>7. t \in Seq(S) /\ Len(t) = c - e /\ \A j \in 1 .. c - e : t[j] = p[e + j]
  <2>1. /\ c \in Nat /\ e \in Nat /\ e <= c /\ t = SubSeq(p, e + 1, c)
        /\ \A j \in e + 1 .. c : p[j] \in S
    BY <1>4, <1>5, <1>6
  <2>2. SliceOf(t, p, e, c, S)
    BY <2>1, Slice
  <2> QED BY <2>2 DEF SliceOf
<1>8. u \in Seq(S) /\ Len(u) = n - k /\ \A j \in 1 .. n - k : u[j] = s[k + j]
  <2>1. k <= n /\ u = SubSeq(s, k + 1, n) /\ \A j \in k + 1 .. n : s[j] \in S
    BY <1>1, <1>3, <1>12
  <2>2. SliceOf(u, s, k, n, S)
    BY <2>1, Slice
  <2> QED BY <2>2 DEF SliceOf
<1>9. \A j \in 1 .. n - k : t[j] = u[j]
  <2>1. SUFFICES ASSUME NEW j \in 1 .. n - k PROVE t[j] = u[j]
    OBVIOUS
  <2>2. PICK l \in 1 .. n - m : l = e + j /\ m + l = k + j
    <3>1. e + j \in 1 .. n - m /\ m + (e + j) = k + j
      BY <1>1, <1>5
    <3> QED BY <3>1
  <2>3. p[l] = s[k + j]
    BY <1>4, <2>2
  <2> QED BY <1>5, <1>7, <1>8, <2>2, <2>3
<1>10. t = u
  BY <1>5, <1>7, <1>8, <1>9, SeqEqual
<1>11. k - m + 1 = e + 1 /\ Len(p) = c
  BY <1>4, <1>5
<1> QED BY <1>1, <1>4, <1>6, <1>10, <1>11, <1>12 DEF RestOf

\* The frames of what is sent differ.
LEMMA SentDiffers ==
  ASSUME line \in Lines, FramesDiffer(line), NEW Q, NEW G, Laid(Q, G)
  PROVE  \A k, l \in 1 .. Len(Sent(line)) : Sent(line)[k].frame = Sent(line)[l].frame => k = l
<1>1. Distinct(Len(line), G) /\ G[Len(line)] = Sent(line)
  BY SentDistinct DEF Laid
<1> QED BY <1>1 DEF Distinct

\* What is pending behind the last frame handed over.
LEMMA PendingBehind ==
  ASSUME line \in Lines, FramesDiffer(line), NEW Q, NEW G, Laid(Q, G), NEW d, d # <<>>,
         NEW k \in 1 .. Len(Sent(line)), Last(d) = Sent(line)[k].frame
  PROVE  PendingAfter(d) = SubSeq(Sent(line), k + 1, Len(Sent(line)))
<1> DEFINE done == {j \in 1 .. Len(Sent(line)) : d # <<>> /\ Sent(line)[j].frame = Last(d)}
           last == IF done = {} THEN 0 ELSE CHOOSE j \in done : TRUE
<1>1. done = {k}
  BY SentDiffers
<1>2. PendingAfter(d) = SubSeq(Sent(line), last + 1, Len(Sent(line)))
  BY DEF PendingAfter
<1> HIDE DEF done
<1>3. last = k
  BY <1>1
<1> QED BY <1>2, <1>3

LEMMA PendingFirst ==
  PendingAfter(<<>>) = SubSeq(Sent(line), 0 + 1, Len(Sent(line)))
<1> DEFINE done == {j \in 1 .. Len(Sent(line)) : <<>> # <<>> /\ Sent(line)[j].frame = Last(<<>>)}
<1>1. done = {}
  OBVIOUS
<1> QED BY <1>1 DEF PendingAfter

\* A frame of a datagram is handed over as FrameDelivery has it, behind what the
\* network dropped.
DeliversFrom(p, d, now, left) ==
  \E k \in 1 .. Len(p) :
    /\ \A j \in 1 .. k - 1 : ~p[j].sure
    /\ now = Append(d, p[k].frame)
    /\ left = SubSeq(p, k + 1, Len(p))

LEMMA GramDelivers ==
  ASSUME PlainGrams, line \in Lines, NEW Q, NEW G, Laid(Q, G), NEW i \in 1 .. Len(line),
         NEW d, NEW now, UpTo(d, Len(G[i - 1])), HandsOver(i, G, d, now), now # d
  PROVE  DeliversFrom(PendingAfter(d), d, now, PendingAfter(now))
<1>1. PICK S : S = SentFrame
  OBVIOUS
<1>2. PICK s \in Seq(S), n \in Nat : s = Sent(line) /\ n = Len(s)
  <2>1. Len(line) \in 0 .. Len(line)
    BY PiecesLaid
  <2>2. Sent(line) \in Seq(S)
    BY <1>1, <2>1 DEF Laid
  <2> QED BY <2>2
<1>3. PICK a \in Nat : a = Len(G[i - 1])
  <2>1. i - 1 \in 0 .. Len(line)
    BY PiecesLaid
  <2>2. G[i - 1] \in Seq(S)
    BY <1>1, <2>1 DEF Laid
  <2> QED BY <2>2
<1>4. PICK k \in Nat : k = a + 1 /\ k = Len(G[i]) /\ k \in 1 .. n
  BY <1>2, <1>3 DEF HandsOver
<1>5. PICK x : x = s[k].frame /\ now = Append(d, x)
  BY <1>2, <1>4 DEF HandsOver
<1>6. PICK m \in Nat : m <= a /\ PendingAfter(d) = SubSeq(s, m + 1, n)
  <2>1. CASE d = <<>>
    <3>1. PICK z \in Nat : z = 0 /\ z <= a
      BY <1>3
    <3>2. PendingAfter(d) = SubSeq(s, 0 + 1, n)
      BY <1>2, <2>1, PendingFirst
    <3>3. PendingAfter(d) = SubSeq(s, z + 1, n)
      BY <3>1, <3>2
    <3> QED BY <3>1, <3>3
  <2>2. CASE d # <<>>
    <3>1. PICK m \in 1 .. a : Last(d) = s[m].frame
      BY <1>2, <1>3, <2>2 DEF UpTo
    <3>2. m \in 1 .. n /\ m \in Nat /\ m <= a
      BY <1>4
    <3>3. m \in 1 .. Len(Sent(line)) /\ Last(d) = Sent(line)[m].frame
      BY <1>2, <3>1, <3>2
    <3>4. PendingAfter(d) = SubSeq(Sent(line), m + 1, Len(Sent(line)))
      BY <2>2, <3>3, PendingBehind DEF PlainGrams
    <3> QED BY <1>2, <3>2, <3>4
  <2> QED BY <2>1, <2>2
<1>7. PendingAfter(now) = SubSeq(s, k + 1, n)
  <2>1. now # <<>> /\ Last(now) = x
    <3>1. PICK V : V = Seq(Byte)
      OBVIOUS
    <3>2. d \in Seq(V)
      BY <3>1 DEF UpTo
    <3>3. x \in V
      <4>1. s[k] \in S
        BY <1>2, <1>4
      <4> QED BY <1>1, <1>5, <3>1, <4>1 DEF SentFrame
    <3>4. Append(d, x) \in Seq(V) /\ Append(d, x) # <<>> /\ Last(Append(d, x)) = x
      BY <3>2, <3>3 DEF Last
    <3> QED BY <1>5, <3>4
  <2>2. k \in 1 .. Len(Sent(line)) /\ Last(now) = Sent(line)[k].frame
    BY <1>2, <1>4, <1>5, <2>1
  <2>3. PendingAfter(now) = SubSeq(Sent(line), k + 1, Len(Sent(line)))
    BY <2>1, <2>2, PendingBehind DEF PlainGrams
  <2> QED BY <1>2, <2>3
<1>8. PICK p : p = SubSeq(s, m + 1, n)
  OBVIOUS
<1>9. m < k /\ k <= n /\ n - m \in Nat
  BY <1>4, <1>6
<1>10. /\ p \in Seq(S) /\ Len(p) = n - m
       /\ \A j \in 1 .. Len(p) : p[j] = s[m + j]
       /\ SubSeq(p, k - m + 1, Len(p)) = SubSeq(s, k + 1, n)
  <2>1. s \in Seq(S) /\ m \in Nat /\ k \in Nat /\ m < k /\ k <= Len(s)
    BY <1>2, <1>9
  <2>2. PICK q : q = SubSeq(s, m + 1, Len(s))
    OBVIOUS
  <2>3. /\ q \in Seq(S) /\ Len(q) = Len(s) - m
        /\ \A j \in 1 .. Len(q) : q[j] = s[m + j]
        /\ SubSeq(q, k - m + 1, Len(q)) = SubSeq(s, k + 1, Len(s))
    <3>1. RestOf(q, s, m, k, S)
      BY <2>1, <2>2, RestOfRest
    <3> QED BY <3>1 DEF RestOf
  <2>4. q = p
    BY <1>2, <1>8, <2>2
  <2> QED BY <1>2, <2>3, <2>4
<1>11. PICK e \in 1 .. Len(p) : e = k - m /\ m + e = k
  <2>1. k - m \in 1 .. n - m /\ m + (k - m) = k
    BY <1>9
  <2> QED BY <1>10, <2>1
<1>12. \A j \in 1 .. e - 1 : ~p[j].sure
  <2>1. SUFFICES ASSUME NEW j \in 1 .. e - 1 PROVE ~p[j].sure
    OBVIOUS
  <2>2. PICK l \in 1 .. n : l = m + j /\ j \in 1 .. Len(p)
    <3>1. m + j \in 1 .. n /\ j \in 1 .. n - m
      BY <1>9, <1>11
    <3> QED BY <1>10, <3>1
  <2>3. ~s[l].sure
    <3>1. \A c \in 1 .. Len(Sent(line)) : ~Sent(line)[c].sure
      BY NothingSure
    <3> QED BY <1>2, <2>2, <3>1
  <2> QED BY <1>10, <2>2, <2>3
<1>13. now = Append(d, p[e].frame)
  BY <1>5, <1>10, <1>11
<1>14. PendingAfter(now) = SubSeq(p, e + 1, Len(p))
  BY <1>7, <1>10, <1>11
<1>15. PendingAfter(d) = p
  BY <1>6, <1>8
<1> QED BY <1>12, <1>13, <1>14, <1>15 DEF DeliversFrom

LEMMA GramStepDelivers ==
  ASSUME IInv, GramInv, PlainGrams, [Next]_vars
  PROVE  Channel!Deliver \/ UNCHANGED Channel!vars
<1>1. CASE Handle
  <2>1. line \in Lines /\ \E Q, G, i : Laid(Q, G) /\ GramAt(G, i)
    BY DEF GramInv
  <2>2. PICK Q, G, i : Laid(Q, G) /\ GramAt(G, i)
    BY <2>1
  <2>3. pc = "handling" /\ UNCHANGED <<line, transport>>
    BY <1>1 DEF Handle
  <2>4. Left(rest, i) /\ i # 0 /\ AtGram(buf, i) /\ UpTo(delivered, Len(G[i - 1]))
    BY <2>2, <2>3 DEF GramAt, GramState
  <2>5. i \in 1 .. Len(line)
    <3>1. Len(line) \in Nat /\ i \in 0 .. Len(line)
      BY <2>1, <2>2, <2>4, PiecesLaid DEF Left
    <3> QED BY <2>4, <3>1
  <2>6. PICK d, now : d = delivered /\ now = delivered'
    OBVIOUS
  <2>7. HandsOver(i, G, d, now)
    <3>1. HandsOver(i, G, delivered, delivered')
      BY <1>1, <2>1, <2>2, <2>4, <2>5, HandleGram
    <3> QED BY <2>6, <3>1
  <2>8. CASE now = d
    <3>1. UNCHANGED <<line, transport, delivered>>
      BY <2>3, <2>6, <2>8
    <3> QED BY <3>1, PendingStays DEF Channel!vars
  <2>9. CASE now # d
    <3>1. UpTo(d, Len(G[i - 1]))
      BY <2>4, <2>6
    <3>2. DeliversFrom(PendingAfter(d), d, now, PendingAfter(now))
      BY <2>1, <2>2, <2>5, <2>7, <2>9, <3>1, GramDelivers
    <3>3. Pending = PendingAfter(d) /\ Pending' = PendingAfter(now)
      BY <2>3, <2>6, PendingMoves
    <3>4. DeliversFrom(Pending, delivered, delivered', Pending')
      BY <2>6, <3>2, <3>3
    <3>5. Channel!Deliver
      BY <3>4 DEF DeliversFrom, Channel!Deliver
    <3> QED BY <3>5
  <2> QED BY <2>8, <2>9
<1>2. CASE ~Handle
  <2>1. UNCHANGED <<line, transport, delivered>>
    BY <1>2 DEF Next, DoRead, ReadEnd, ReadFails, Search, FinishRead, DropDatagram, vars, history
  <2> QED BY <2>1, PendingStays DEF Channel!vars
<1> QED BY <1>1, <1>2

\* Over datagrams too, whichever of them the network drops, the read loop implements
\* FrameDelivery for a clean line whose frames differ and that the buffer has room
\* for: a handler gets frames that were sent, whole, once and in the order sent.
THEOREM DatagramsImplementFrameDelivery ==
  Spec /\ PlainGrams => Channel!Init /\ [][Channel!Deliver]_(Channel!vars)
<1>1. Init => IInv /\ GramInv /\ Channel!Init
  BY InitInv, GramInit DEF Init, Channel!Init
<1>2. IInv /\ GramInv /\ PlainGrams /\ [Next]_vars => (IInv /\ GramInv /\ PlainGrams)'
  <2>1. [Next]_vars => UNCHANGED <<line, transport>>
    BY DEF Next, DoRead, ReadEnd, ReadFails, Search, Handle, FinishRead, DropDatagram, vars
  <2>2. UNCHANGED <<line, transport>> /\ PlainGrams => PlainGrams'
    BY GramStays
  <2> QED BY <2>1, <2>2, StepInv, GramKeeps
<1>3. IInv /\ GramInv /\ PlainGrams /\ [Next]_vars => [Channel!Deliver]_(Channel!vars)
  BY GramStepDelivers
<1> QED BY <1>1, <1>2, <1>3, PTL DEF Spec
=============================================================================
