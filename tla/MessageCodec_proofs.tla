------------------------ MODULE MessageCodec_proofs ------------------------
(***************************************************************************)
(* Proofs about MessageCodec, for any number of elements, of messages, of  *)
(* bytes appended and any buffer.  The layouts are those of MessageLayout: *)
(* what the theorems need of them is a condition on their lengths, which   *)
(* MCCodec evaluates for every message type the driver uses.               *)
(***************************************************************************)
EXTENDS MessageCodec, SequenceTheorems, WellFoundedInduction, TLAPS

-----------------------------------------------------------------------------
(* What the folds of the model compute, for sequences of any length.  The  *)
(* arguments are by a least counterexample.                                *)

LEMMA LeastNat ==
  ASSUME NEW T, T \subseteq Nat, T # {}
  PROVE  \E x \in T : \A y \in T : x <= y
<1> DEFINE R == OpToRel(<, Nat)
<1>1. IsWellFoundedOn(R, Nat)
  BY NatLessThanWellFounded
<1>2. \A x, y \in Nat : <<x, y>> \in R <=> x < y
  BY DEF OpToRel
<1> HIDE DEF R
<1>3. PICK x \in T : \A y \in T : ~(<<y, x>> \in R)
  BY <1>1, WFMin
<1>4. ASSUME NEW y \in T PROVE x <= y
  <2>1. x \in Nat /\ y \in Nat /\ ~(<<y, x>> \in R)
    BY <1>3
  <2>2. ~(y < x)
    BY <1>2, <2>1
  <2> QED BY <2>1, <2>2
<1> QED BY <1>4

\* Op[i] makes the i-th value out of the one before; F has the values.
StepsOf(Op, N, S) == Op \in [1 .. N -> [S -> S]]
Follow(F, Op, N, S, first) ==
  /\ F \in [0 .. N -> S] /\ F[0] = first
  /\ \A i \in 1 .. N : F[i] = Op[i][F[i - 1]]

\* A function defined step by step along the naturals exists.
LEMMA Recursion ==
  ASSUME NEW S, NEW N \in Nat, NEW first \in S, NEW Op, StepsOf(Op, N, S)
  PROVE  \E F : Follow(F, Op, N, S, first)
<1>3. Op \in [1 .. N -> [S -> S]]
  BY DEF StepsOf
<1> DEFINE Solves(F, m) == /\ F \in [0 .. m -> S] /\ F[0] = first
                           /\ \A i \in 1 .. m : F[i] = Op[i][F[i - 1]]
           T == {m \in 0 .. N : ~ \E F : Solves(F, m)}
<1>1. T = {}
  <2>1. SUFFICES ASSUME T # {} PROVE FALSE
    OBVIOUS
  <2>2. T \subseteq Nat
    OBVIOUS
  <2>3. PICK m \in T : \A y \in T : m <= y
    <3> HIDE DEF T
    <3> QED BY <2>1, <2>2, LeastNat
  <2>4. m \in 0 .. N /\ ~ \E F : Solves(F, m)
    OBVIOUS
  <2>5. CASE m = 0
    <3> DEFINE F == [i \in 0 .. 0 |-> first]
    <3>1. Solves(F, 0)
      OBVIOUS
    <3> QED BY <2>4, <2>5, <3>1
  <2>6. CASE m # 0
    <3>1. m - 1 \in 0 .. N /\ m - 1 \notin T
      <4> HIDE DEF T, Solves
      <4> QED BY <2>3, <2>4, <2>6
    <3>2. PICK F : Solves(F, m - 1)
      BY <3>1
    <3> DEFINE G == [i \in 0 .. m |-> IF i = m THEN Op[m][F[m - 1]] ELSE F[i]]
    <3>3. m \in 1 .. N /\ F[m - 1] \in S
      BY <2>4, <2>6, <3>1, <3>2
    <3>4. Op[m][F[m - 1]] \in S
      BY <1>3, <3>3
    <3>5. G \in [0 .. m -> S] /\ G[0] = first
      BY <2>6, <3>2, <3>3, <3>4
    <3>6. ASSUME NEW i \in 1 .. m PROVE G[i] = Op[i][G[i - 1]]
      <4>1. i - 1 \in 0 .. m /\ i - 1 # m /\ G[i - 1] = F[i - 1]
        BY <3>3
      <4>2. CASE i = m
        BY <3>3, <4>1, <4>2
      <4>3. CASE i # m
        <5>1. i \in 1 .. m - 1
          BY <3>3, <4>3
        <5>2. F[i] = Op[i][F[i - 1]]
          BY <3>2, <5>1
        <5> QED BY <4>1, <4>3, <5>2
      <4> QED BY <4>2, <4>3
    <3>7. Solves(G, m)
      BY <3>5, <3>6
    <3> QED BY <2>4, <3>7
  <2> QED BY <2>5, <2>6
<1>2. N \in 0 .. N /\ N \notin T
  <2> HIDE DEF T
  <2> QED BY <1>1
<1> QED BY <1>2 DEF Follow

\* The largest of some of the first numbers is one of them.
LEMMA MaxOfSome ==
  ASSUME NEW n \in Nat, NEW t \in SUBSET (1 .. n), t # {}
  PROVE  Max(t) \in t /\ \A y \in t : y <= Max(t)
<1> DEFINE T == {m \in 1 .. n : \A y \in t : y <= m}
<1>8. \A y \in t : y \in 1 .. n
  OBVIOUS
<1>1. n \in T
  <2>1. PICK y \in t : TRUE
    OBVIOUS
  <2>2. y \in 1 .. n
    BY <1>8, <2>1
  <2>3. n \in 1 .. n
    BY <2>2
  <2>4. \A z \in t : z <= n
    BY <1>8
  <2> QED BY <2>3, <2>4
<1>2. PICK m \in T : \A y \in T : m <= y
  <2>1. T \subseteq Nat /\ T # {}
    BY <1>1
  <2> HIDE DEF T
  <2> QED BY <2>1, LeastNat
<1>3. m \in 1 .. n /\ \A y \in t : y <= m
  OBVIOUS
<1>4. m \in t
  <2>1. SUFFICES ASSUME m \notin t PROVE FALSE
    OBVIOUS
  <2>2. \A y \in t : y \in 1 .. n /\ y <= m - 1
    BY <1>3, <1>8, <2>1
  <2>3. m - 1 \in T
    <3>1. PICK y \in t : TRUE
      OBVIOUS
    <3>2. m - 1 \in 1 .. n
      BY <1>3, <2>2, <3>1
    <3> QED BY <2>2, <3>2
  <2>4. m <= m - 1
    <3> HIDE DEF T
    <3> QED BY <1>2, <2>3
  <2> QED BY <1>3, <2>4
<1>5. \E x \in t : \A y \in t : x >= y
  BY <1>3, <1>4
<1>6. Max(t) \in t /\ \A y \in t : Max(t) >= y
  BY <1>5 DEF Max
<1> DEFINE top == Max(t)
<1>7. top \in t /\ \A y \in t : top >= y
  BY <1>6
<1> HIDE DEF top
<1>9. top \in 1 .. n
  BY <1>7, <1>8
<1>10. \A y \in t : y <= top
  BY <1>7, <1>8, <1>9
<1> QED BY <1>7, <1>10 DEF top

\* P has the sums of the first elements of s.
Sums(P, s) ==
  /\ P \in [0 .. Len(s) -> Nat] /\ P[0] = 0
  /\ \A i \in 1 .. Len(s) : P[i] = P[i - 1] + s[i]

\* The b-th of n places behind the first c.
LEMMA Shifted ==
  ASSUME NEW c \in Nat, NEW n \in Nat, NEW b \in 1 .. n
  PROVE  c + b \in 1 .. c + n /\ ~(c + b <= c) /\ c + b - c = b
OBVIOUS

\* P and Q are the same up to n.
Alike(P, Q, n) == \A i \in 0 .. n : P[i] = Q[i]

\* There is only one such P.
LEMMA SumsUnique ==
  ASSUME NEW s \in Seq(Nat), NEW t \in Seq(Nat), NEW P, NEW Q, Sums(P, s), Sums(Q, t),
         NEW n \in Nat, n <= Len(s), n <= Len(t), \A i \in 1 .. n : s[i] = t[i]
  PROVE  Alike(P, Q, n)
<1> DEFINE T == {i \in 0 .. n : P[i] # Q[i]}
<1>1. SUFFICES ASSUME T # {} PROVE FALSE
  BY DEF Alike
<1>2. PICK m \in T : \A y \in T : m <= y
  <2>1. T \subseteq Nat
    OBVIOUS
  <2> HIDE DEF T
  <2> QED BY <1>1, <2>1, LeastNat
<1>3. m \in 0 .. n /\ P[m] # Q[m]
  OBVIOUS
<1>4. m # 0
  BY <1>3 DEF Sums
<1>5. m - 1 \in 0 .. n /\ m - 1 \notin T
  <2> HIDE DEF T
  <2> QED BY <1>2, <1>3, <1>4
<1>6. P[m - 1] = Q[m - 1]
  BY <1>5
<1>7. m \in 1 .. Len(s) /\ m \in 1 .. Len(t) /\ s[m] = t[m]
  BY <1>3, <1>4
<1> QED BY <1>3, <1>6, <1>7 DEF Sums

\* Total(): the last of the sums.
LEMMA TotalOfSums ==
  ASSUME NEW s \in Seq(Nat)
  PROVE  \E P : Sums(P, s) /\ Total(s) = P[Len(s)]
<1> DEFINE N == Len(s)
           Step(f, t) == IF t = {} THEN 0 ELSE f[t \ {Max(t)}] + s[Max(t)]
           Solves(f, m) == /\ f \in [SUBSET (1 .. m) -> Nat]
                           /\ \A t \in SUBSET (1 .. m) : f[t] = Step(f, t)
           T == {m \in 0 .. N : ~ \E f : Solves(f, m)}
           iter == CHOOSE f : f = [t \in SUBSET (1 .. N) |-> Step(f, t)]
<1>1. N \in Nat /\ \A i \in 1 .. N : s[i] \in Nat
  OBVIOUS
<1>2. Total(s) = iter[1 .. N]
  <2>1. DOMAIN s = 1 .. Len(s)
    OBVIOUS
  <2> QED BY <2>1 DEF Total, FoldLeft, MapThenFoldSet
<1> HIDE DEF N
<1>3. T = {}
  <2>1. SUFFICES ASSUME T # {} PROVE FALSE
    OBVIOUS
  <2>2. PICK m \in T : \A y \in T : m <= y
    <3>1. T \subseteq Nat
      OBVIOUS
    <3> HIDE DEF T
    <3> QED BY <2>1, <3>1, LeastNat
  <2>3. m \in 0 .. N /\ ~ \E f : Solves(f, m)
    OBVIOUS
  <2>4. CASE m = 0
    <3> DEFINE f == [t \in {{}} |-> 0]
    <3>1. SUBSET (1 .. 0) = {{}}
      OBVIOUS
    <3>2. Solves(f, 0)
      BY <3>1
    <3> QED BY <2>3, <2>4, <3>2
  <2>5. CASE m # 0
    <3>1. m - 1 \in 0 .. N /\ m - 1 \notin T
      <4> HIDE DEF T, Solves
      <4> QED BY <1>1, <2>2, <2>3, <2>5
    <3>2. PICK f : Solves(f, m - 1)
      BY <3>1
    <3>3. m \in 1 .. N /\ s[m] \in Nat
      BY <1>1, <2>3, <2>5
    <3> DEFINE g == [t \in SUBSET (1 .. m) |->
                       IF m \in t THEN f[t \ {m}] + s[m] ELSE f[t]]
    <3>4. ASSUME NEW t \in SUBSET (1 .. m) PROVE t \ {m} \in SUBSET (1 .. m - 1)
      BY <1>1, <3>3
    <3>5. ASSUME NEW t \in SUBSET (1 .. m) PROVE g[t] \in Nat
      <4>1. CASE m \in t
        BY <3>2, <3>3, <3>4, <4>1
      <4>2. CASE m \notin t
        <5>1. t \in SUBSET (1 .. m - 1)
          BY <3>4, <4>2
        <5> QED BY <3>2, <4>2, <5>1
      <4> QED BY <4>1, <4>2
    <3>6. ASSUME NEW t \in SUBSET (1 .. m) PROVE g[t] = Step(g, t)
      <4>1. CASE m \in t
        <5>1. Max(t) = m
          <6>1. m \in Nat /\ t # {}
            BY <3>3, <4>1
          <6>2. Max(t) \in t /\ \A y \in t : y <= Max(t)
            BY <6>1, MaxOfSome
          <6>3. Max(t) \in 1 .. m /\ m <= Max(t)
            BY <4>1, <6>2
          <6> QED BY <3>3, <6>3
        <5>2. t \ {m} \in SUBSET (1 .. m) /\ m \notin t \ {m}
          OBVIOUS
        <5>3. g[t \ {m}] = f[t \ {m}] /\ g[t] = f[t \ {m}] + s[m]
          BY <4>1, <5>2
        <5>4. Step(g, t) = g[t \ {m}] + s[m]
          BY <4>1, <5>1
        <5> HIDE DEF g, Step
        <5> QED BY <5>3, <5>4
      <4>2. CASE m \notin t
        <5>1. t \in SUBSET (1 .. m - 1)
          BY <3>4, <4>2
        <5>2. g[t] = f[t] /\ f[t] = Step(f, t)
          BY <3>2, <4>2, <5>1
        <5>3. CASE t = {}
          BY <5>2, <5>3
        <5>4. CASE t # {}
          <6>1. t \ {Max(t)} \in SUBSET (1 .. m) /\ m \notin t \ {Max(t)}
            BY <4>2
          <6>2. g[t \ {Max(t)}] = f[t \ {Max(t)}]
            BY <6>1
          <6> HIDE DEF g
          <6> QED BY <5>2, <5>4, <6>2
        <5> QED BY <5>3, <5>4
      <4> QED BY <4>1, <4>2
    <3>7. g \in [SUBSET (1 .. m) -> Nat]
      <4>1. \A t \in SUBSET (1 .. m) : g[t] \in Nat
        BY <3>5
      <4>2. g = [t \in SUBSET (1 .. m) |-> g[t]]
        OBVIOUS
      <4> HIDE DEF g
      <4> QED BY <4>1, <4>2
    <3>8. Solves(g, m)
      <4> HIDE DEF g, Step
      <4> QED BY <3>6, <3>7
    <3> HIDE DEF g, Solves
    <3> QED BY <2>3, <3>8
  <2> QED BY <2>4, <2>5
<1>4. N \in 0 .. N /\ N \notin T
  <2> HIDE DEF T
  <2> QED BY <1>1, <1>3
<1>5. PICK f : Solves(f, N)
  BY <1>4
<1>6. f = [t \in SUBSET (1 .. N) |-> Step(f, t)]
  <2> HIDE DEF Step
  <2> QED BY <1>5
<1>7. iter = [t \in SUBSET (1 .. N) |-> Step(iter, t)]
  <2> HIDE DEF Step
  <2> QED BY <1>6
<1> HIDE DEF iter
<1>8. \A t \in SUBSET (1 .. N) : iter[t] = Step(iter, t)
  <2> HIDE DEF Step
  <2> QED BY <1>7
<1>9. iter[1 .. 0] = 0
  <2>1. 1 .. 0 = {} /\ {} \in SUBSET (1 .. N)
    OBVIOUS
  <2> QED BY <1>8, <2>1
<1>10. ASSUME NEW m \in 1 .. N PROVE iter[1 .. m] = iter[1 .. (m - 1)] + s[m]
  <2>1. m \in Nat /\ 1 .. m # {} /\ 1 .. m \in SUBSET (1 .. m) /\ 1 .. m \in SUBSET (1 .. N)
    <3>1. m \in Nat /\ m \in 1 .. m
      OBVIOUS
    <3>2. \A i \in 1 .. m : i \in 1 .. N
      BY <1>1
    <3> HIDE DEF N
    <3> QED BY <3>1, <3>2
  <2>2. Max(1 .. m) = m
    <3>1. Max(1 .. m) \in 1 .. m /\ \A y \in 1 .. m : y <= Max(1 .. m)
      BY <2>1, MaxOfSome
    <3> QED BY <2>1, <3>1
  <2>3. (1 .. m) \ {m} = 1 .. (m - 1)
    BY <2>1
  <2> QED BY <1>8, <2>1, <2>2, <2>3
<1> DEFINE P == [m \in 0 .. N |-> iter[1 .. m]]
<1>11. P[0] = 0 /\ (\A i \in 1 .. N : P[i] = P[i - 1] + s[i]) /\ Total(s) = P[N]
  <2>1. 0 \in 0 .. N /\ N \in 0 .. N /\ \A i \in 1 .. N : i \in 0 .. N /\ i - 1 \in 0 .. N
    BY <1>1
  <2> QED BY <1>2, <1>9, <1>10, <2>1
<1>12. P \in [0 .. N -> Nat]
  <2> DEFINE U == {i \in 0 .. N : P[i] \notin Nat}
  <2>1. P = [m \in 0 .. N |-> P[m]]
    OBVIOUS
  <2> HIDE DEF P
  <2>2. U = {}
    <3>1. SUFFICES ASSUME U # {} PROVE FALSE
      OBVIOUS
    <3>2. PICK m \in U : \A y \in U : m <= y
      <4>1. U \subseteq Nat
        OBVIOUS
      <4> HIDE DEF U
      <4> QED BY <3>1, <4>1, LeastNat
    <3>3. m \in 0 .. N /\ P[m] \notin Nat
      OBVIOUS
    <3>4. m # 0
      BY <1>11, <3>3
    <3>5. m - 1 \in 0 .. N /\ m - 1 \notin U /\ m \in 1 .. N
      <4> HIDE DEF U
      <4> QED BY <1>1, <3>2, <3>3, <3>4
    <3>6. P[m - 1] \in Nat /\ s[m] \in Nat /\ P[m] = P[m - 1] + s[m]
      BY <1>1, <1>11, <3>5
    <3> QED BY <3>3, <3>6
  <2> QED BY <2>1, <2>2
<1> HIDE DEF P
<1>13. Sums(P, s)
  BY <1>11, <1>12 DEF Sums, N
<1> QED BY <1>11, <1>13 DEF N

\* FlattenSeq(): what it concatenates, step by step.
LEMMA FlattenSteps ==
  ASSUME NEW S, NEW ss \in Seq(Seq(S))
  PROVE  \E F : /\ F[0] = <<>> /\ FlattenSeq(ss) = F[Len(ss)]
                /\ \A i \in 1 .. Len(ss) : F[i] = F[i - 1] \o ss[i]
<1> DEFINE N == Len(ss)
<1>1. N \in Nat /\ \A i \in 1 .. N : ss[i] \in Seq(S)
  OBVIOUS
<1>2. CASE N = 0
  <2>1. ss = <<>> /\ FlattenSeq(ss) = ss
    BY <1>2, EmptySeq DEF FlattenSeq
  <2> DEFINE F == [i \in {0} |-> <<>>]
  <2>2. F[0] = <<>> /\ FlattenSeq(ss) = F[Len(ss)] /\ 1 .. Len(ss) = {}
    BY <1>2, <2>1
  <2> HIDE DEF F
  <2> QED BY <2>2
<1>3. CASE N # 0
  <2> DEFINE Step(f, i) == IF i = 1 THEN ss[i] ELSE f[i - 1] \o ss[i]
             flatten == CHOOSE f : f = [i \in 1 .. N |-> Step(f, i)]
             Op == [i \in 1 .. N |-> [x \in Seq(S) |-> x \o ss[i]]]
  <2>1. FlattenSeq(ss) = flatten[N]
    BY <1>3 DEF FlattenSeq
  <2> HIDE DEF N
  <2>2. Op \in [1 .. N -> [Seq(S) -> Seq(S)]]
    BY <1>1
  <2>3. \A i \in 1 .. N : \A x \in Seq(S) : Op[i][x] = x \o ss[i]
    OBVIOUS
  <2> HIDE DEF Op
  <2>4. <<>> \in Seq(S)
    OBVIOUS
  <2>5. PICK F \in [0 .. N -> Seq(S)] :
          F[0] = <<>> /\ \A i \in 1 .. N : F[i] = Op[i][F[i - 1]]
    <3> DEFINE V == Seq(S)
    <3>1. <<>> \in V /\ Op \in [1 .. N -> [V -> V]]
      BY <2>2, <2>4
    <3>2. N \in Nat
      BY <1>1
    <3> HIDE DEF V
    <3>4. PICK first \in V : first = <<>>
      BY <3>1
    <3>5. StepsOf(Op, N, V)
      BY <3>1 DEF StepsOf
    <3>3. PICK F : Follow(F, Op, N, V, first)
      BY <3>2, <3>5, Recursion
    <3> QED BY <3>3, <3>4 DEF V, Follow
  <2>6. ASSUME NEW i \in 1 .. N PROVE F[i - 1] \in Seq(S) /\ F[i] = F[i - 1] \o ss[i]
    <3>1. i - 1 \in 0 .. N
      BY <1>1
    <3>2. F[i - 1] \in Seq(S)
      BY <2>5, <3>1
    <3> QED BY <2>3, <2>5, <3>2
  <2> DEFINE f == [i \in 1 .. N |-> F[i]]
  <2>7. ASSUME NEW i \in 1 .. N PROVE f[i] = Step(f, i)
    <3>1. CASE i = 1
      <4>1. F[1] = <<>> \o ss[1] /\ ss[1] \in Seq(S)
        <5>1. 1 \in 1 .. N /\ 1 - 1 = 0
          BY <3>1
        <5>2. F[1] = F[0] \o ss[1]
          BY <2>6, <5>1
        <5> QED BY <1>1, <2>5, <5>1, <5>2
      <4>2. <<>> \o ss[1] = ss[1]
        BY <4>1, ConcatEmptySeq
      <4> QED BY <3>1, <4>1, <4>2
    <3>2. CASE i # 1
      <4>1. i - 1 \in 1 .. N
        BY <1>1, <3>2
      <4> QED BY <2>6, <3>2, <4>1
    <3> QED BY <3>1, <3>2
  <2>8. f = [i \in 1 .. N |-> Step(f, i)]
    <3>1. f = [i \in 1 .. N |-> f[i]]
      OBVIOUS
    <3> HIDE DEF f, Step
    <3> QED BY <2>7, <3>1
  <2>9. flatten = [i \in 1 .. N |-> Step(flatten, i)]
    <3> HIDE DEF f, Step
    <3> QED BY <2>8
  <2> HIDE DEF flatten
  <2>10. \A i \in 1 .. N : flatten[i] = Step(flatten, i)
    <3> HIDE DEF Step
    <3> QED BY <2>9
  <2> DEFINE G == [i \in 0 .. N |-> IF i = 0 THEN <<>> ELSE flatten[i]]
  <2>11. G[0] = <<>> /\ \A i \in 1 .. N : G[i] = flatten[i]
    BY <1>1
  <2> HIDE DEF G
  <2>12. ASSUME NEW i \in 1 .. N PROVE G[i] = G[i - 1] \o ss[i]
    <3>1. CASE i = 1
      <4>1. G[i] = ss[1] /\ G[i - 1] = <<>> /\ ss[1] \in Seq(S)
        BY <1>1, <2>10, <2>11, <3>1
      <4>2. <<>> \o ss[1] = ss[1]
        BY <4>1, ConcatEmptySeq
      <4> QED BY <3>1, <4>1, <4>2
    <3>2. CASE i # 1
      <4>1. i - 1 \in 1 .. N
        BY <1>1, <3>2
      <4> QED BY <2>10, <2>11, <3>2, <4>1
    <3> QED BY <3>1, <3>2
  <2>13. N \in 1 .. N
    BY <1>1, <1>3
  <2>14. FlattenSeq(ss) = G[N]
    BY <2>1, <2>11, <2>13
  <2> QED BY <2>11, <2>12, <2>14 DEF N
<1> QED BY <1>2, <1>3

\* Q has the lengths of the first sequences of ss together.
Lengths(Q, ss) ==
  /\ Q \in [0 .. Len(ss) -> Nat] /\ Q[0] = 0
  /\ \A i \in 1 .. Len(ss) : Q[i] = Q[i - 1] + Len(ss[i])

\* h is the sequences of ss one behind the other, the i-th one behind Q[i - 1] items.
Joined(h, ss, Q, S) ==
  /\ h \in Seq(S) /\ Len(h) = Q[Len(ss)]
  /\ \A i \in 1 .. Len(ss) : \A b \in 1 .. Len(ss[i]) :
       Q[i - 1] + b \in 1 .. Q[Len(ss)] /\ h[Q[i - 1] + b] = ss[i][b]

\* Where FlattenSeq() puts each item of each sequence.
LEMMA FlattenPlaces ==
  ASSUME NEW S, NEW ss, ss \in Seq(Seq(S)), NEW Q, Lengths(Q, ss)
  PROVE  Joined(FlattenSeq(ss), ss, Q, S)
<1> DEFINE N == Len(ss)
<1>1. N \in Nat /\ \A i \in 1 .. N : ss[i] \in Seq(S) /\ Len(ss[i]) \in Nat
  OBVIOUS
<1>2. Q \in [0 .. N -> Nat] /\ Q[0] = 0 /\ \A i \in 1 .. N : Q[i] = Q[i - 1] + Len(ss[i])
  BY DEF Lengths
<1>3. PICK F : /\ F[0] = <<>> /\ FlattenSeq(ss) = F[N]
               /\ \A i \in 1 .. N : F[i] = F[i - 1] \o ss[i]
  BY FlattenSteps
<1> HIDE DEF N
<1> DEFINE Good(m) == /\ F[m] \in Seq(S) /\ Len(F[m]) = Q[m]
                      /\ \A i \in 1 .. m : \A b \in 1 .. Len(ss[i]) :
                           /\ Q[i - 1] + b \in 1 .. Q[m]
                           /\ F[m][Q[i - 1] + b] = ss[i][b]
           T == {m \in 0 .. N : ~Good(m)}
<1>4. Good(0)
  BY <1>2, <1>3
<1>5. ASSUME NEW m \in 1 .. N, Good(m - 1) PROVE Good(m)
  <2> DEFINE s == F[m - 1]
             t == ss[m]
  <2>1. s \in Seq(S) /\ t \in Seq(S) /\ F[m] = s \o t /\ Len(s) = Q[m - 1] /\ Len(t) \in Nat
    BY <1>1, <1>3, <1>5
  <2>2. Q[m - 1] \in Nat /\ Q[m] = Q[m - 1] + Len(t)
    BY <1>1, <1>2
  <2>3. \A i \in 1 .. m - 1 : \A b \in 1 .. Len(ss[i]) :
          Q[i - 1] + b \in 1 .. Q[m - 1] /\ s[Q[i - 1] + b] = ss[i][b]
    BY <1>5
  <2>8. t = ss[m]
    OBVIOUS
  <2> HIDE DEF s, t
  <2>4. /\ s \o t \in Seq(S) /\ Len(s \o t) = Len(s) + Len(t)
        /\ \A k \in 1 .. Len(s) + Len(t) :
             (s \o t)[k] = IF k <= Len(s) THEN s[k] ELSE t[k - Len(s)]
    BY <2>1, ConcatProperties
  <2>5. F[m] \in Seq(S) /\ Len(F[m]) = Q[m]
    BY <2>1, <2>2, <2>4
  <2>6. ASSUME NEW i \in 1 .. m, NEW b \in 1 .. Len(ss[i])
        PROVE  Q[i - 1] + b \in 1 .. Q[m] /\ F[m][Q[i - 1] + b] = ss[i][b]
    <3>1. CASE i = m
      <4> DEFINE k == Q[m - 1] + b
      <4>1. b \in 1 .. Len(t)
        BY <2>8, <3>1
      <4>2. k \in 1 .. Q[m] /\ ~(k <= Len(s)) /\ k - Len(s) = b /\ k \in 1 .. Len(s) + Len(t)
        <5>1. PICK c \in Nat, n \in Nat : c = Q[m - 1] /\ n = Len(t)
          BY <2>1, <2>2
        <5>2. Len(s) = c /\ Q[m] = c + n /\ b \in 1 .. n
          BY <2>1, <2>2, <4>1, <5>1
        <5>3. c + b \in 1 .. c + n /\ ~(c + b <= c) /\ c + b - c = b
          BY <5>1, <5>2, Shifted
        <5>4. k = c + b
          BY <5>1
        <5> HIDE DEF k
        <5> QED BY <5>1, <5>2, <5>3, <5>4
      <4> HIDE DEF k
      <4>3. F[m][k] = t[b]
        BY <2>1, <2>4, <4>2
      <4> QED BY <2>8, <3>1, <4>2, <4>3 DEF k
    <3>2. CASE i # m
      <4>1. i \in 1 .. m - 1
        BY <1>1, <3>2
      <4> DEFINE k == Q[i - 1] + b
      <4>2. k \in 1 .. Q[m - 1] /\ s[k] = ss[i][b]
        BY <2>3, <4>1
      <4> HIDE DEF k
      <4>3. k \in 1 .. Q[m] /\ k <= Len(s) /\ k \in 1 .. Len(s) + Len(t)
        BY <2>1, <2>2, <4>2
      <4>4. F[m][k] = ss[i][b]
        BY <2>1, <2>4, <4>2, <4>3
      <4> QED BY <4>3, <4>4 DEF k
    <3> QED BY <3>1, <3>2
  <2> QED BY <2>5, <2>6
<1>6. T = {}
  <2>1. SUFFICES ASSUME T # {} PROVE FALSE
    OBVIOUS
  <2>2. PICK m \in T : \A y \in T : m <= y
    <3>1. T \subseteq Nat
      OBVIOUS
    <3> HIDE DEF T
    <3> QED BY <2>1, <3>1, LeastNat
  <2>3. m \in 0 .. N /\ ~Good(m)
    OBVIOUS
  <2>4. m # 0
    <3> HIDE DEF Good
    <3> QED BY <1>4, <2>3
  <2>5. m \in 1 .. N /\ m - 1 \in 0 .. N /\ m - 1 \notin T
    <3> HIDE DEF T, Good
    <3> QED BY <1>1, <2>2, <2>3, <2>4
  <2>6. Good(m - 1)
    <3> HIDE DEF Good
    <3> QED BY <2>5
  <2> HIDE DEF Good
  <2> QED BY <1>5, <2>3, <2>5, <2>6
<1>7. N \in 0 .. N /\ N \notin T
  <2> HIDE DEF T
  <2> QED BY <1>1, <1>6
<1>8. Good(N)
  <2> HIDE DEF Good
  <2> QED BY <1>7
<1> QED BY <1>3, <1>8 DEF N, Joined


-----------------------------------------------------------------------------
(* Numbers and totals the layouts need.                                    *)

LEMMA Products ==
  ASSUME NEW n \in Nat, NEW w \in Nat, NEW e \in 1 .. n
  PROVE  /\ (e - 1) * w \in Nat /\ n * w \in Nat
         /\ e * w = (e - 1) * w + w /\ e * w <= n * w
<1>1. n * w \in Nat /\ (e - 1) * w \in Nat /\ e * w \in Nat /\ (n - e) * w \in Nat
  <2>1. \A i, j \in Nat : i * j \in Nat
    OBVIOUS
  <2>2. e - 1 \in Nat /\ e \in Nat /\ n - e \in Nat
    OBVIOUS
  <2> QED BY <2>1, <2>2
<1>2. e * w = (e - 1) * w + w
  OBVIOUS
<1>3. n * w = e * w + (n - e) * w
  OBVIOUS
<1> QED BY <1>1, <1>2, <1>3

LEMMA Division ==
  ASSUME NEW n \in Nat, NEW w \in Nat, w > 0, NEW r \in Nat, r < w
  PROVE  (n * w + r) \div w = n
OBVIOUS

LEMMA Remainder ==
  ASSUME NEW n \in Nat, NEW w \in Nat, n < w
  PROVE  n % w = n
OBVIOUS

\* The total of the first elements of s, however they are written down.
LEMMA TotalOfFirst ==
  ASSUME NEW s \in Seq(Nat), NEW P, Sums(P, s),
         NEW t \in Seq(Nat), Len(t) <= Len(s), \A i \in 1 .. Len(t) : t[i] = s[i]
  PROVE  Total(t) = P[Len(t)]
<1>1. PICK Q : Sums(Q, t) /\ Total(t) = Q[Len(t)]
  BY TotalOfSums
<1>2. Len(t) \in Nat /\ Len(t) \in 0 .. Len(t)
  OBVIOUS
<1>3. \A i \in 1 .. Len(t) : s[i] = t[i]
  OBVIOUS
<1>4. \A i \in 0 .. Len(t) : P[i] = Q[i]
  <2>1. PICK n \in Nat : /\ n = Len(t) /\ n <= Len(t) /\ n <= Len(s)
                         /\ \A i \in 1 .. n : s[i] = t[i]
    BY <1>2, <1>3
  <2>2. Sums(Q, t)
    BY <1>1, Zenon
  <2>3. n <= Len(t) /\ n <= Len(s) /\ \A i \in 1 .. n : s[i] = t[i]
    BY <2>1, Zenon
  <2>4. Alike(P, Q, n)
    BY <2>2, <2>3, SumsUnique, Zenon
  <2> QED BY <2>1, <2>4 DEF Alike
<1> QED BY <1>1, <1>2, <1>4

LEMMA TotalType ==
  ASSUME NEW s \in Seq(Nat)
  PROVE  Total(s) \in Nat
<1>1. PICK Q : Sums(Q, s) /\ Total(s) = Q[Len(s)]
  BY TotalOfSums
<1>2. Len(s) \in 0 .. Len(s)
  OBVIOUS
<1> QED BY <1>1, <1>2 DEF Sums

LEMMA TotalOfOne ==
  ASSUME NEW s \in Seq(Nat), Len(s) = 1
  PROVE  Total(s) = s[1]
<1>1. PICK Q : Sums(Q, s) /\ Total(s) = Q[Len(s)]
  BY TotalOfSums
<1>2. 1 \in 1 .. Len(s) /\ s[1] \in Nat
  <2>1. 1 \in 1 .. Len(s)
    OBVIOUS
  <2> QED BY <2>1, ElementOfSeq
<1>3. Q[1] = Q[1 - 1] + s[1] /\ Q[0] = 0
  BY <1>1, <1>2 DEF Sums
<1> QED BY <1>1, <1>2, <1>3

LEMMA TotalOfNone ==
  ASSUME NEW s \in Seq(Nat), Len(s) = 0
  PROVE  Total(s) = 0
<1>1. PICK Q : Sums(Q, s) /\ Total(s) = Q[Len(s)]
  BY TotalOfSums
<1> QED BY <1>1 DEF Sums

-----------------------------------------------------------------------------
(* Where the fields of a message lie.                                      *)

\* Field f of element e of group g of message v, w bytes wide.
Field(v, g, e, f, w) == [b \in 1 .. w |-> <<v, g, e, f, b>>]

Name == Seq(Nat)

\* s is such a field.
IsField(s, v, g, e, f, w) ==
  /\ s \in Seq(Name) /\ Len(s) = w
  /\ \A b \in 1 .. w : s[b] = <<v, g, e, f, b>>

LEMMA FieldType ==
  ASSUME NEW v \in Nat, NEW g \in Nat, NEW e \in Nat, NEW f \in Nat, NEW w \in Nat
  PROVE  IsField(Field(v, g, e, f, w), v, g, e, f, w)
<1>1. \A b \in 1 .. w : <<v, g, e, f, b>> \in Name
  BY DEF Name
<1>2. Field(v, g, e, f, w) \in [1 .. w -> Name]
  BY <1>1 DEF Field
<1> QED BY <1>2 DEF Field, IsField

\* Fields of widths ws one behind the other, but for those in omitted.
Fields(v, g, e, ws, omitted) ==
  [f \in DOMAIN ws |-> IF f \in omitted THEN <<>> ELSE Field(v, g, e, f, ws[f])]

Widths(ws, omitted) == [f \in DOMAIN ws |-> IF f \in omitted THEN 0 ELSE ws[f]]

\* h holds them, field f behind P[f - 1] bytes.
FieldsAt(h, P, v, g, e, ws, omitted) ==
  /\ h \in Seq(Name) /\ Len(h) = P[Len(ws)] /\ P[Len(ws)] \in Nat
  /\ \A f \in 1 .. Len(ws) : \A b \in 1 .. ws[f] : f \notin omitted =>
       P[f - 1] + b \in 1 .. P[Len(ws)] /\ h[P[f - 1] + b] = <<v, g, e, f, b>>

LEMMA FieldsLaid ==
  ASSUME NEW v \in Nat, NEW g \in Nat, NEW e \in Nat, NEW ws, ws \in Seq(Nat),
         NEW omitted, NEW P, Sums(P, Widths(ws, omitted))
  PROVE  FieldsAt(FlattenSeq(Fields(v, g, e, ws, omitted)), P, v, g, e, ws, omitted)
<1> DEFINE N == Len(ws)
           us == Widths(ws, omitted)
           ss == Fields(v, g, e, ws, omitted)
<1>1. N \in Nat /\ DOMAIN ws = 1 .. N /\ \A f \in 1 .. N : ws[f] \in Nat
  OBVIOUS
<1>2. /\ ss = [f \in 1 .. N |-> IF f \in omitted THEN <<>> ELSE Field(v, g, e, f, ws[f])]
      /\ us = [f \in 1 .. N |-> IF f \in omitted THEN 0 ELSE ws[f]]
  BY <1>1 DEF Fields, Widths
<1> HIDE DEF N, us, ss
<1>3. ASSUME NEW f \in 1 .. N
      PROVE  /\ ss[f] \in Seq(Name) /\ Len(ss[f]) = us[f] /\ us[f] \in Nat
             /\ f \notin omitted =>
                  us[f] = ws[f] /\ \A b \in 1 .. ws[f] : ss[f][b] = <<v, g, e, f, b>>
  <2>1. CASE f \in omitted
    BY <1>1, <1>2, <2>1
  <2>2. CASE f \notin omitted
    <3>1. ss[f] = Field(v, g, e, f, ws[f]) /\ us[f] = ws[f] /\ f \in Nat
      BY <1>1, <1>2, <2>2
    <3>2. PICK w \in Nat : w = ws[f]
      BY <1>1
    <3>3. IsField(Field(v, g, e, f, w), v, g, e, f, w)
      BY <3>1, FieldType
    <3> QED BY <3>1, <3>2, <3>3 DEF IsField
  <2> QED BY <2>1, <2>2
<1>4. ss \in [1 .. N -> Seq(Name)] /\ us \in [1 .. N -> Nat]
  <2>1. ss = [f \in 1 .. N |-> ss[f]] /\ us = [f \in 1 .. N |-> us[f]]
    BY <1>2
  <2> QED BY <1>3, <2>1
<1>5. ss \in Seq(Seq(Name)) /\ Len(ss) = N /\ Len(us) = N
  BY <1>1, <1>4
<1>6. Sums(P, us)
  BY DEF us
<1>7. Lengths(P, ss)
  BY <1>3, <1>5, <1>6 DEF Sums, Lengths
<1>8. Joined(FlattenSeq(ss), ss, P, Name)
  BY <1>5, <1>7, FlattenPlaces
<1>9. /\ FlattenSeq(ss) \in Seq(Name) /\ Len(FlattenSeq(ss)) = P[N]
      /\ \A f \in 1 .. N : \A b \in 1 .. Len(ss[f]) :
           P[f - 1] + b \in 1 .. P[N] /\ FlattenSeq(ss)[P[f - 1] + b] = ss[f][b]
  BY <1>5, <1>8 DEF Joined
<1>10. P[N] \in Nat
  BY <1>9
<1>11. ASSUME NEW f \in 1 .. N, NEW b \in 1 .. ws[f], f \notin omitted
       PROVE  P[f - 1] + b \in 1 .. P[N] /\ FlattenSeq(ss)[P[f - 1] + b] = <<v, g, e, f, b>>
  <2>1. Len(ss[f]) = ws[f] /\ ss[f][b] = <<v, g, e, f, b>>
    BY <1>3, <1>11
  <2> HIDE DEF FieldsAt, IsField
  <2>2. P[f - 1] + b \in 1 .. P[N] /\ FlattenSeq(ss)[P[f - 1] + b] = ss[f][b]
    BY <1>9, <2>1
  <2> QED BY <2>1, <2>2
<1>12. FieldsAt(FlattenSeq(ss), P, v, g, e, ws, omitted)
  BY <1>9, <1>10, <1>11 DEF N, FieldsAt
<1> QED BY <1>12 DEF ss

\* n elements of group g one behind the other.
Elements(v, g, ws, n) ==
  [e \in 1 .. n |-> FlattenSeq(Fields(v, g, e, ws, {}))]

\* h holds them, element e behind (e - 1) * width bytes.
ElementsIn(h, R, v, g, ws, n) ==
  LET width == R[Len(ws)]
  IN  /\ h \in Seq(Name) /\ width \in Nat /\ n * width \in Nat /\ Len(h) = n * width
      /\ \A e \in 1 .. n : \A f \in 1 .. Len(ws) : \A b \in 1 .. ws[f] :
           /\ (e - 1) * width + R[f - 1] + b \in 1 .. n * width
           /\ h[(e - 1) * width + R[f - 1] + b] = <<v, g, e, f, b>>

LEMMA ElementsLaid ==
  ASSUME NEW v \in Nat, NEW g \in Nat, NEW n \in Nat, NEW ws, ws \in Seq(Nat),
         NEW R, Sums(R, ws)
  PROVE  ElementsIn(FlattenSeq(Elements(v, g, ws, n)), R, v, g, ws, n)
<1> DEFINE M == Len(ws)
           width == R[M]
           ss == Elements(v, g, ws, n)
           Q == [e \in 0 .. n |-> e * width]
<1>1. /\ M \in Nat /\ width \in Nat
      /\ \A f \in 1 .. M : ws[f] \in Nat /\ R[f - 1] \in Nat
      /\ Widths(ws, {}) = ws
  <2>1. M \in Nat /\ R \in [0 .. M -> Nat]
    BY DEF Sums
  <2>2. \A f \in 1 .. M : f - 1 \in 0 .. M
    BY <2>1
  <2>3. Widths(ws, {}) = ws
    BY DEF Widths
  <2>4. \A f \in 1 .. M : ws[f] \in Nat
    OBVIOUS
  <2>5. M \in 0 .. M
    BY <2>1
  <2> HIDE DEF M
  <2> QED BY <2>1, <2>2, <2>3, <2>4, <2>5
<1>2. ASSUME NEW e \in 1 .. n PROVE FieldsAt(ss[e], R, v, g, e, ws, {})
  <2>1. ss[e] = FlattenSeq(Fields(v, g, e, ws, {})) /\ e \in Nat /\ Sums(R, Widths(ws, {}))
    BY <1>1 DEF Elements
  <2>2. FieldsAt(FlattenSeq(Fields(v, g, e, ws, {})), R, v, g, e, ws, {})
    <3> HIDE DEF ss
    <3> QED BY <2>1, FieldsLaid
  <2> QED BY <2>1, <2>2
<1>3. ss = [e \in 1 .. n |-> ss[e]]
  BY DEF Elements
<1> HIDE DEF ss
<1>4. \A e \in 1 .. n :
        /\ ss[e] \in Seq(Name) /\ Len(ss[e]) = width
        /\ \A f \in 1 .. M : \A b \in 1 .. ws[f] :
             R[f - 1] + b \in 1 .. width /\ ss[e][R[f - 1] + b] = <<v, g, e, f, b>>
  BY <1>2 DEF FieldsAt
<1> HIDE DEF M, width
<1>5. ss \in Seq(Seq(Name)) /\ Len(ss) = n
  <2>1. ss \in [1 .. n -> Seq(Name)]
    BY <1>3, <1>4
  <2> QED BY <2>1
<1>6. \A e \in 0 .. n : Q[e] = e * width /\ e * width \in Nat
  <2>1. \A i, j \in Nat : i * j \in Nat
    OBVIOUS
  <2> QED BY <1>1, <2>1
<1>7. Q \in [0 .. n -> Nat] /\ Q[0] = 0
  BY <1>1, <1>6
<1>8. ASSUME NEW e \in 1 .. n PROVE Q[e] = Q[e - 1] + width /\ Q[e - 1] = (e - 1) * width
  <2>1. e \in 0 .. n /\ e - 1 \in 0 .. n
    OBVIOUS
  <2>2. e * width = (e - 1) * width + width
    BY <1>1, Products
  <2> QED BY <1>6, <2>1, <2>2
<1> HIDE DEF Q
<1>9. Lengths(Q, ss)
  BY <1>4, <1>5, <1>7, <1>8 DEF Lengths
<1>10. Joined(FlattenSeq(ss), ss, Q, Name)
  BY <1>5, <1>9, FlattenPlaces
<1>11. Q[n] = n * width /\ n * width \in Nat
  BY <1>6
<1>12. /\ FlattenSeq(ss) \in Seq(Name) /\ Len(FlattenSeq(ss)) = n * width
       /\ \A e \in 1 .. n : \A k \in 1 .. width :
            /\ (e - 1) * width + k \in 1 .. n * width
            /\ FlattenSeq(ss)[(e - 1) * width + k] = ss[e][k]
  <2>1. PICK h : h = FlattenSeq(ss)
    OBVIOUS
  <2>2. /\ h \in Seq(Name) /\ Len(h) = Q[n]
        /\ \A e \in 1 .. n : \A b \in 1 .. Len(ss[e]) :
             Q[e - 1] + b \in 1 .. Q[n] /\ h[Q[e - 1] + b] = ss[e][b]
    BY <1>5, <1>10, <2>1 DEF Joined
  <2>3. \A e \in 1 .. n : Len(ss[e]) = width /\ Q[e - 1] = (e - 1) * width
    BY <1>4, <1>8
  <2> QED BY <1>11, <2>1, <2>2, <2>3
<1>13. ASSUME NEW e \in 1 .. n, NEW f \in 1 .. M, NEW b \in 1 .. ws[f]
       PROVE  /\ (e - 1) * width + R[f - 1] + b \in 1 .. n * width
              /\ FlattenSeq(ss)[(e - 1) * width + R[f - 1] + b] = <<v, g, e, f, b>>
  <2>1. R[f - 1] + b \in 1 .. width /\ ss[e][R[f - 1] + b] = <<v, g, e, f, b>>
    BY <1>4
  <2>2. (e - 1) * width + (R[f - 1] + b) = (e - 1) * width + R[f - 1] + b
    <3>1. (e - 1) * width \in Nat
      BY <1>1, Products
    <3>2. R[f - 1] \in Nat /\ b \in Nat
      BY <1>1
    <3> QED BY <3>1, <3>2
  <2>3. /\ (e - 1) * width + (R[f - 1] + b) \in 1 .. n * width
        /\ FlattenSeq(ss)[(e - 1) * width + (R[f - 1] + b)] = ss[e][R[f - 1] + b]
    BY <1>12, <2>1
  <2> QED BY <2>1, <2>2, <2>3
<1>14. ElementsIn(FlattenSeq(ss), R, v, g, ws, n)
  BY <1>1, <1>11, <1>12, <1>13 DEF ElementsIn, M, width
<1> QED BY <1>14 DEF ss

\* FlattenSeq() of nothing, and of one sequence.
LEMMA FlattenOne ==
  ASSUME NEW S, NEW s \in Seq(S)
  PROVE  FlattenSeq(<<s>>) = s
<1> DEFINE ss == <<s>>
<1>1. ss \in Seq(Seq(S)) /\ Len(ss) = 1 /\ ss[1] = s
  OBVIOUS
<1> HIDE DEF ss
<1>2. PICK F : /\ F[0] = <<>> /\ FlattenSeq(ss) = F[Len(ss)]
               /\ \A i \in 1 .. Len(ss) : F[i] = F[i - 1] \o ss[i]
  BY <1>1, FlattenSteps
<1>3. F[1] = F[0] \o ss[1]
  <2>1. 1 \in 1 .. Len(ss) /\ 1 - 1 = 0
    BY <1>1
  <2>2. F[1] = F[1 - 1] \o ss[1]
    BY <1>2, <2>1
  <2> QED BY <2>1, <2>2
<1>4. F[1] = <<>> \o s /\ FlattenSeq(ss) = F[1]
  BY <1>1, <1>2, <1>3
<1>5. FlattenSeq(ss) = s
  BY <1>4, ConcatEmptySeq
<1> QED BY <1>5 DEF ss

GroupBytes(m) ==
  FlattenSeq([g \in DOMAIN m.groups |->
    FlattenSeq([e \in DOMAIN m.groups[g] |-> FlattenSeq(m.groups[g][e])])])

LEMMA NoGroupLaid ==
  ASSUME NEW l, NEW v, NEW counts, l.groups = <<>>
  PROVE  Message(l, v, counts).groups = <<>> /\ GroupBytes(Message(l, v, counts)) = <<>>
<1> DEFINE m == Message(l, v, counts)
<1>1. DOMAIN l.groups = {} /\ l.groups = [g \in {} |-> <<>>]
  OBVIOUS
<1>2. m.groups = <<>>
  BY <1>1 DEF Message
<1>3. [g \in DOMAIN m.groups |->
        FlattenSeq([e \in DOMAIN m.groups[g] |-> FlattenSeq(m.groups[g][e])])] = <<>>
  BY <1>2
<1>4. FlattenSeq(<<>>) = <<>>
  BY EmptySeq DEF FlattenSeq
<1> QED BY <1>2, <1>3, <1>4 DEF GroupBytes

LEMMA GroupLaid ==
  ASSUME NEW l, Plain(l), Len(l.groups) = 1, NEW v \in Nat, NEW counts, counts[1] \in Nat
  PROVE  /\ Message(l, v, counts).groups =
              <<[e \in 1 .. counts[1] |->
                   [f \in DOMAIN l.groups[1] |-> Field(v, 1, e, f, l.groups[1][f])]]>>
         /\ GroupBytes(Message(l, v, counts)) =
              FlattenSeq(Elements(v, 1, l.groups[1], counts[1]))
<1> DEFINE m == Message(l, v, counts)
           ws == l.groups[1]
           n == counts[1]
           es == [e \in 1 .. n |-> [f \in DOMAIN ws |-> Field(v, 1, e, f, ws[f])]]
<1>1. DOMAIN l.groups = {1} /\ ws \in Seq(Nat)
  BY DEF Plain
<1>2. m.groups = [g \in {1} |-> es]
  BY <1>1 DEF Message, Field
<1>3. m.groups = <<es>>
  BY <1>2
<1>4. DOMAIN m.groups = {1} /\ m.groups[1] = es /\ DOMAIN es = 1 .. n
  BY <1>2
<1>5. ASSUME NEW e \in 1 .. n PROVE FlattenSeq(es[e]) = FlattenSeq(Fields(v, 1, e, ws, {}))
  BY DEF Fields
<1> HIDE DEF es, m
<1>6. [e \in DOMAIN m.groups[1] |-> FlattenSeq(m.groups[1][e])] = Elements(v, 1, ws, n)
  BY <1>4, <1>5 DEF Elements
<1> DEFINE h == FlattenSeq(Elements(v, 1, ws, n))
<1>7. h \in Seq(Name)
  <2>1. PICK R : Sums(R, ws)
    BY <1>1, TotalOfSums
  <2>2. 1 \in Nat /\ n \in Nat
    OBVIOUS
  <2>3. ElementsIn(h, R, v, 1, ws, n)
    <3> HIDE DEF ws, n
    <3> QED BY <1>1, <2>1, <2>2, ElementsLaid
  <2> QED BY <2>3 DEF ElementsIn
<1>8. GroupBytes(m) = FlattenSeq([g \in {1} |-> h])
  BY <1>4, <1>6 DEF GroupBytes
<1>9. [g \in {1} |-> h] = <<h>>
  OBVIOUS
<1>10. FlattenSeq(<<h>>) = h
  <2> HIDE DEF h
  <2> QED BY <1>7, FlattenOne
<1> HIDE DEF h
<1>11. GroupBytes(m) = h
  BY <1>8, <1>9, <1>10
<1> QED BY <1>3, <1>11 DEF h, m, es

LEMMA AtMostOneGroup ==
  ASSUME NEW l, Plain(l)
  PROVE  Len(l.groups) = 1 \/ (l.groups = <<>> /\ Len(l.groups) = 0)
<1>1. Len(l.groups) \in Nat /\ Len(l.groups) <= 1 /\ l.groups \in Seq(Seq(Nat))
  BY DEF Plain
<1>2. \A n \in Nat : n <= 1 => n = 0 \/ n = 1
  OBVIOUS
<1>3. Len(l.groups) = 0 \/ Len(l.groups) = 1
  BY <1>1, <1>2, Zenon
<1> QED BY <1>1, <1>3, EmptySeq

\* How many bytes the groups take, and where the elements of a group start.
Body(l, counts) ==
  IF Len(l.groups) = 1 THEN counts[1] * Total(l.groups[1]) ELSE 0

\* As many elements as counts says, in each group.
HasCount(l, counts) == Len(l.groups) = 1 => counts[1] \in Nat

\* The sum of the first widths, the three ways the model writes it.
LEMMA FirstWidths ==
  ASSUME NEW ws, ws \in Seq(Nat), NEW R, Sums(R, ws), NEW f \in 1 .. Len(ws) + 1
  PROVE  /\ Total(SubSeq(ws, 1, f - 1)) = R[f - 1]
         /\ Total([i \in 1 .. f - 1 |-> IF i \in {} THEN 0 ELSE ws[i]]) = R[f - 1]
         /\ R[f - 1] \in Nat
<1>1. Len(ws) \in Nat /\ \A i \in 1 .. Len(ws) : ws[i] \in Nat
  OBVIOUS
<1> DEFINE s == SubSeq(ws, 1, f - 1)
           t == [i \in 1 .. f - 1 |-> IF i \in {} THEN 0 ELSE ws[i]]
<1>2. f - 1 \in Nat /\ f - 1 <= Len(ws)
  BY <1>1
<1>3. s \in Seq(Nat) /\ Len(s) = f - 1 /\ \A i \in 1 .. f - 1 : s[i] = ws[i]
  BY <1>1, <1>2
<1>4. t \in Seq(Nat) /\ Len(t) = f - 1 /\ \A i \in 1 .. f - 1 : t[i] = ws[i]
  <2>1. \A i \in 1 .. f - 1 : t[i] = ws[i] /\ ws[i] \in Nat
    BY <1>1, <1>2
  <2>2. t \in [1 .. f - 1 -> Nat]
    BY <2>1
  <2> QED BY <1>2, <2>1, <2>2
<1> HIDE DEF s, t
<1>5. Total(s) = R[f - 1] /\ Total(t) = R[f - 1]
  BY <1>2, <1>3, <1>4, TotalOfFirst
<1>6. R[f - 1] \in Nat
  <2>1. f - 1 \in 0 .. Len(ws)
    BY <1>2
  <2> QED BY <2>1 DEF Sums
<1> QED BY <1>5, <1>6 DEF s, t

\* h is the groups of message v, the bytes of each element where read() looks.
BodyIn(h, l, v, counts) ==
  /\ h \in Seq(Name) /\ Body(l, counts) \in Nat /\ Len(h) = Body(l, counts)
  /\ Len(l.groups) = 1 =>
       \A e \in 1 .. counts[1] : \A f \in 1 .. Len(l.groups[1]) :
         \A b \in 1 .. l.groups[1][f] :
           LET at == (e - 1) * Total(l.groups[1])
                       + Total(SubSeq(l.groups[1], 1, f - 1)) + b
           IN  at \in 1 .. Body(l, counts) /\ h[at] = <<v, 1, e, f, b>>

LEMMA BodyLaid ==
  ASSUME NEW l, Plain(l), NEW v \in Nat, NEW counts, HasCount(l, counts)
  PROVE  BodyIn(GroupBytes(Message(l, v, counts)), l, v, counts)
<1>1. CASE Len(l.groups) = 0
  <2>1. l.groups = <<>>
    BY <1>1 DEF Plain
  <2>2. GroupBytes(Message(l, v, counts)) = <<>>
    BY <2>1, NoGroupLaid
  <2>3. Len(l.groups) # 1 /\ Body(l, counts) = 0
    BY <1>1 DEF Body
  <2>4. <<>> \in Seq(Name) /\ Len(<<>>) = 0
    OBVIOUS
  <2> QED BY <2>2, <2>3, <2>4 DEF BodyIn
<1>2. CASE Len(l.groups) = 1
  <2> DEFINE ws == l.groups[1]
             n == counts[1]
             h == GroupBytes(Message(l, v, counts))
  <2>1. ws \in Seq(Nat) /\ n \in Nat
    BY <1>2 DEF Plain, HasCount
  <2>2. h = FlattenSeq(Elements(v, 1, ws, n))
    BY <1>2, <2>1, GroupLaid
  <2>3. Body(l, counts) = n * Total(ws)
    BY <1>2 DEF Body
  <2> HIDE DEF ws, n, h
  <2>4. PICK R : Sums(R, ws) /\ Total(ws) = R[Len(ws)]
    BY <2>1, TotalOfSums
  <2>5. ElementsIn(FlattenSeq(Elements(v, 1, ws, n)), R, v, 1, ws, n)
    <3>1. 1 \in Nat
      OBVIOUS
    <3> QED BY <2>1, <2>4, <3>1, ElementsLaid
  <2>6. /\ h \in Seq(Name) /\ Total(ws) \in Nat /\ n * Total(ws) \in Nat
        /\ Len(h) = n * Total(ws)
        /\ \A e \in 1 .. n : \A f \in 1 .. Len(ws) : \A b \in 1 .. ws[f] :
             /\ (e - 1) * Total(ws) + R[f - 1] + b \in 1 .. n * Total(ws)
             /\ h[(e - 1) * Total(ws) + R[f - 1] + b] = <<v, 1, e, f, b>>
    BY <2>2, <2>4, <2>5 DEF ElementsIn
  <2>7. ASSUME NEW f \in 1 .. Len(ws) PROVE Total(SubSeq(ws, 1, f - 1)) = R[f - 1]
    <3>1. f \in 1 .. Len(ws) + 1
      BY <2>1
    <3> QED BY <2>1, <2>4, <3>1, FirstWidths
  <2>8. \A e \in 1 .. n : \A f \in 1 .. Len(ws) : \A b \in 1 .. ws[f] :
          LET at == (e - 1) * Total(ws) + Total(SubSeq(ws, 1, f - 1)) + b
          IN  at \in 1 .. Body(l, counts) /\ h[at] = <<v, 1, e, f, b>>
    BY <2>3, <2>6, <2>7
  <2> QED BY <2>3, <2>6, <2>8 DEF BodyIn, ws, n, h
<1> QED BY <1>1, <1>2, AtMostOneGroup

LEMMA HeadLaid ==
  ASSUME NEW l, Plain(l), NEW v \in Nat, NEW counts, NEW omitted, NEW P,
         Sums(P, Widths(l.head, omitted))
  PROVE  \E h : /\ FieldsAt(h, P, v, 0, 1, l.head, omitted)
                /\ Laid(Message(l, v, counts), omitted) = h \o GroupBytes(Message(l, v, counts))
<1> DEFINE m == Message(l, v, counts)
           h == FlattenSeq(Fields(v, 0, 1, l.head, omitted))
<1>1. m.head = [f \in DOMAIN l.head |-> Field(v, 0, 1, f, l.head[f])]
  BY DEF Message, Field
<1>2. [f \in DOMAIN m.head |-> IF f \in omitted THEN <<>> ELSE m.head[f]]
        = Fields(v, 0, 1, l.head, omitted)
  BY <1>1 DEF Fields
<1>3. Laid(m, omitted) = h \o GroupBytes(m)
  <2> HIDE DEF m
  <2> QED BY <1>2 DEF Laid, GroupBytes
<1>4. l.head \in Seq(Nat) /\ 0 \in Nat /\ 1 \in Nat
  BY DEF Plain
<1>5. FieldsAt(h, P, v, 0, 1, l.head, omitted)
  BY <1>4, FieldsLaid
<1> QED BY <1>3, <1>5

\* The length of what is written of a message.
LEMMA LaidLength ==
  ASSUME NEW l, Plain(l), NEW v \in Nat, NEW counts, HasCount(l, counts), NEW omitted
  PROVE  /\ Laid(Message(l, v, counts), omitted) \in Seq(Name)
         /\ Total(Widths(l.head, omitted)) \in Nat /\ Body(l, counts) \in Nat
         /\ Len(Laid(Message(l, v, counts), omitted))
              = Total(Widths(l.head, omitted)) + Body(l, counts)
<1> DEFINE us == Widths(l.head, omitted)
           rest == GroupBytes(Message(l, v, counts))
           all == Laid(Message(l, v, counts), omitted)
<1>1. us \in Seq(Nat) /\ Len(us) = Len(l.head)
  <2>1. Len(l.head) \in Nat /\ \A f \in 1 .. Len(l.head) : l.head[f] \in Nat
    BY DEF Plain
  <2>2. us = [f \in 1 .. Len(l.head) |-> IF f \in omitted THEN 0 ELSE l.head[f]]
    BY DEF Plain, Widths
  <2>3. us \in [1 .. Len(l.head) -> Nat]
    BY <2>1, <2>2
  <2> QED BY <2>1, <2>3
<1> HIDE DEF us
<1>2. PICK P : Sums(P, us) /\ Total(us) = P[Len(us)]
  BY <1>1, TotalOfSums
<1>3. PICK h : FieldsAt(h, P, v, 0, 1, l.head, omitted) /\ all = h \o rest
  BY <1>2, HeadLaid DEF us
<1>4. rest \in Seq(Name) /\ Body(l, counts) \in Nat /\ Len(rest) = Body(l, counts)
  BY BodyLaid DEF BodyIn
<1>5. h \in Seq(Name) /\ Len(h) = Total(us) /\ Total(us) \in Nat
  BY <1>1, <1>2, <1>3 DEF FieldsAt
<1> HIDE DEF rest, all
<1>6. all \in Seq(Name) /\ Len(all) = Total(us) + Body(l, counts)
  BY <1>3, <1>4, <1>5, ConcatProperties
<1> QED BY <1>4, <1>5, <1>6 DEF us, all

\* The width of the head before field f.
HeadBefore(l, f) == Total([i \in 1 .. f - 1 |-> IF i \in {} THEN 0 ELSE l.head[i]])

\* payload starts with message v, the fields of which are where read() looks.
Starts(payload, l, v, counts) ==
  /\ payload \in Seq(Name) /\ Total(l.head) \in Nat /\ Body(l, counts) \in Nat
  /\ Total(l.head) + Body(l, counts) <= Len(payload)
  /\ HeadBefore(l, Len(l.head) + 1) = Total(l.head)
  /\ \A f \in 1 .. Len(l.head) :
       /\ HeadBefore(l, f) \in Nat
       /\ \A b \in 1 .. l.head[f] :
            /\ HeadBefore(l, f) + b <= Len(payload)
            /\ payload[HeadBefore(l, f) + b] = <<v, 0, 1, f, b>>
  /\ Len(l.groups) = 1 =>
       \A e \in 1 .. counts[1] : \A f \in 1 .. Len(l.groups[1]) :
         \A b \in 1 .. l.groups[1][f] :
           LET at == Total(l.head) + (e - 1) * Total(l.groups[1])
                       + Total(SubSeq(l.groups[1], 1, f - 1)) + b
           IN  at <= Len(payload) /\ payload[at] = <<v, 1, e, f, b>>

LEMMA LaidPlaces ==
  ASSUME NEW l, Plain(l), NEW v \in Nat, NEW counts, HasCount(l, counts), NEW more \in Nat
  PROVE  Starts(Laid(Message(l, v, counts), {}) \o Zeros(more), l, v, counts)
<1> DEFINE rest == GroupBytes(Message(l, v, counts))
           payload == Laid(Message(l, v, counts), {}) \o Zeros(more)
           H == Total(l.head)
           B == Body(l, counts)
<1>1. l.head \in Seq(Nat) /\ Widths(l.head, {}) = l.head
  BY DEF Plain, Widths
<1>2. PICK P : Sums(P, l.head) /\ H = P[Len(l.head)]
  BY <1>1, TotalOfSums
<1>3. PICK h : FieldsAt(h, P, v, 0, 1, l.head, {})
                 /\ Laid(Message(l, v, counts), {}) = h \o rest
  BY <1>1, <1>2, HeadLaid
<1>4. /\ rest \in Seq(Name) /\ B \in Nat /\ Len(rest) = B
      /\ Len(l.groups) = 1 =>
           \A e \in 1 .. counts[1] : \A f \in 1 .. Len(l.groups[1]) :
             \A b \in 1 .. l.groups[1][f] :
               LET at == (e - 1) * Total(l.groups[1])
                           + Total(SubSeq(l.groups[1], 1, f - 1)) + b
               IN  at \in 1 .. B /\ rest[at] = <<v, 1, e, f, b>>
  <2>1. BodyIn(rest, l, v, counts)
    BY BodyLaid
  <2> QED BY <2>1 DEF BodyIn
<1>5. /\ h \in Seq(Name) /\ Len(h) = H /\ H \in Nat
      /\ \A f \in 1 .. Len(l.head) : \A b \in 1 .. l.head[f] :
           P[f - 1] + b \in 1 .. H /\ h[P[f - 1] + b] = <<v, 0, 1, f, b>>
  BY <1>2, <1>3 DEF FieldsAt
<1>6. Zeros(more) \in Seq(Name) /\ Len(Zeros(more)) = more
  <2>1. Zero \in Name
    BY DEF Zero, Name
  <2> QED BY <2>1 DEF Zeros
<1>7. payload = (h \o rest) \o Zeros(more)
  BY <1>3
<1> HIDE DEF rest, payload, H, B
<1>8. /\ h \o rest \in Seq(Name) /\ Len(h \o rest) = H + B
      /\ \A k \in 1 .. H + B : (h \o rest)[k] = IF k <= H THEN h[k] ELSE rest[k - H]
  BY <1>4, <1>5, ConcatProperties
<1> DEFINE front == h \o rest
<1>9. front \in Seq(Name) /\ Len(front) = H + B /\ payload = front \o Zeros(more)
  BY <1>7, <1>8
<1>10. /\ \A k \in 1 .. H : front[k] = h[k]
       /\ \A k \in 1 .. B : front[H + k] = rest[k]
  <2>1. ASSUME NEW k \in 1 .. H PROVE front[k] = h[k]
    <3>1. k \in 1 .. H + B /\ k <= H
      BY <1>4, <1>5
    <3> QED BY <1>8, <3>1
  <2>2. ASSUME NEW k \in 1 .. B PROVE front[H + k] = rest[k]
    <3>1. H + k \in 1 .. H + B /\ ~(H + k <= H) /\ (H + k) - H = k
      BY <1>4, <1>5
    <3> QED BY <1>8, <3>1
  <2> QED BY <2>1, <2>2
<1> HIDE DEF front
<1>11. /\ payload \in Seq(Name) /\ Len(payload) = H + B + more
       /\ \A k \in 1 .. H + B : payload[k] = front[k]
  <2> DEFINE z == Zeros(more)
  <2>1. z \in Seq(Name) /\ Len(z) = more
    BY <1>6
  <2> HIDE DEF z
  <2>2. /\ front \o z \in Seq(Name) /\ Len(front \o z) = Len(front) + Len(z)
        /\ \A k \in 1 .. Len(front) + Len(z) :
             (front \o z)[k] = IF k <= Len(front) THEN front[k] ELSE z[k - Len(front)]
    BY <1>9, <2>1, ConcatProperties
  <2>3. payload = front \o z
    BY <1>9 DEF z
  <2>4. \A k \in 1 .. H + B : k \in 1 .. Len(front) + Len(z) /\ k <= Len(front)
    BY <1>4, <1>5, <1>9, <2>1
  <2> QED BY <1>4, <1>5, <1>9, <2>1, <2>2, <2>3, <2>4
<1>12. H + B <= Len(payload)
  BY <1>4, <1>5, <1>11
<1>13. Len(l.head) \in Nat
  BY <1>1
<1>14. ASSUME NEW f \in 1 .. Len(l.head) + 1
       PROVE  HeadBefore(l, f) = P[f - 1] /\ HeadBefore(l, f) \in Nat
  BY <1>1, <1>2, FirstWidths DEF HeadBefore
<1>15. HeadBefore(l, Len(l.head) + 1) = H
  <2>1. Len(l.head) + 1 \in 1 .. Len(l.head) + 1 /\ (Len(l.head) + 1) - 1 = Len(l.head)
    BY <1>13
  <2> QED BY <1>2, <1>14, <2>1
<1>16. ASSUME NEW f \in 1 .. Len(l.head)
       PROVE  /\ HeadBefore(l, f) \in Nat
              /\ \A b \in 1 .. l.head[f] :
                   /\ HeadBefore(l, f) + b <= Len(payload)
                   /\ payload[HeadBefore(l, f) + b] = <<v, 0, 1, f, b>>
  <2>1. f \in 1 .. Len(l.head) + 1
    BY <1>13
  <2>2. HeadBefore(l, f) = P[f - 1] /\ HeadBefore(l, f) \in Nat
    BY <1>14, <2>1
  <2>3. ASSUME NEW b \in 1 .. l.head[f]
        PROVE  /\ P[f - 1] + b <= Len(payload)
               /\ payload[P[f - 1] + b] = <<v, 0, 1, f, b>>
    <3> DEFINE k == P[f - 1] + b
    <3>1. k \in 1 .. H /\ h[k] = <<v, 0, 1, f, b>>
      BY <1>5
    <3> HIDE DEF k
    <3>2. k \in 1 .. H + B /\ k <= Len(payload)
      BY <1>4, <1>5, <1>12, <1>11, <3>1
    <3>3. payload[k] = <<v, 0, 1, f, b>>
      BY <1>10, <1>11, <3>1, <3>2
    <3> QED BY <3>2, <3>3 DEF k
  <2> QED BY <2>2, <2>3
<1>17. ASSUME Len(l.groups) = 1, NEW e \in 1 .. counts[1], NEW f \in 1 .. Len(l.groups[1]),
              NEW b \in 1 .. l.groups[1][f]
       PROVE  LET at == H + (e - 1) * Total(l.groups[1])
                          + Total(SubSeq(l.groups[1], 1, f - 1)) + b
              IN  at <= Len(payload) /\ payload[at] = <<v, 1, e, f, b>>
  <2> DEFINE ws == l.groups[1]
             i == (e - 1) * Total(ws)
             j == Total(SubSeq(ws, 1, f - 1))
  <2>1. i + j + b \in 1 .. B /\ rest[i + j + b] = <<v, 1, e, f, b>>
    BY <1>4, <1>17
  <2>2. i \in Nat /\ j \in Nat /\ b \in Nat
    <3>1. ws \in Seq(Nat) /\ counts[1] \in Nat
      BY <1>17 DEF Plain, HasCount
    <3>2. Total(ws) \in Nat
      BY <3>1, TotalType
    <3>3. i \in Nat
      <4> DEFINE n == counts[1]
                 w == Total(ws)
      <4>1. n \in Nat /\ w \in Nat /\ e \in 1 .. n
        BY <3>1, <3>2
      <4> HIDE DEF n, w
      <4>2. (e - 1) * w \in Nat
        BY <4>1, Products
      <4> QED BY <4>2 DEF w
    <3>4. j \in Nat
      <4>1. PICK R : Sums(R, ws)
        BY <3>1, TotalOfSums
      <4>2. f \in 1 .. Len(ws) + 1
        BY <3>1
      <4> HIDE DEF ws
      <4>3. Total(SubSeq(ws, 1, f - 1)) = R[f - 1] /\ R[f - 1] \in Nat
        BY <3>1, <4>1, <4>2, FirstWidths
      <4> QED BY <4>3
    <3> QED BY <3>3, <3>4
  <2> HIDE DEF i, j
  <2> DEFINE k == i + j + b
  <2>3. k \in 1 .. B /\ rest[k] = <<v, 1, e, f, b>>
    BY <2>1
  <2>4. H + i + j + b = H + k
    BY <1>5, <2>2
  <2> HIDE DEF k
  <2>5. H + k \in 1 .. H + B /\ H + k <= Len(payload)
    BY <1>4, <1>5, <1>11, <1>12, <2>3
  <2>6. payload[H + k] = <<v, 1, e, f, b>>
    BY <1>10, <1>11, <2>3, <2>5
  <2> QED BY <2>4, <2>5, <2>6 DEF i, j
<1>18. Starts(payload, l, v, counts)
  BY <1>4, <1>5, <1>11, <1>12, <1>15, <1>16, <1>17 DEF Starts, H, B
<1> QED BY <1>18 DEF payload

-----------------------------------------------------------------------------
(* What read() makes of a message.                                         *)

\* What a receiver may send of a message of this layout.
Sendable(l, counts, more) ==
  /\ counts \in CountsOf(l) /\ more \in Nat
  /\ more = 0 \/ MayAppend(l, more)

\* The frame the receiver sends.
FrameOf(l, v, counts, more) ==
  [payload |-> Laid(Message(l, v, counts), {}) \o Zeros(more), counts |-> counts]

LEMMA CountsType ==
  ASSUME NEW l, Plain(l), l.sizing \in {"fixed", "counted", "rest", "kept"},
         NEW counts, counts \in CountsOf(l)
  PROVE  HasCount(l, counts) /\ (Len(l.groups) = 1 => counts[1] \in Counts)
<1>1. counts \in [DOMAIN l.groups -> Counts]
  BY DEF CountsOf
<1>2. Len(l.groups) = 1 => 1 \in DOMAIN l.groups
  BY DEF Plain
<1> QED BY <1>1, <1>2, CodecAssumption DEF HasCount

LEMMA PayloadOf ==
  ASSUME NEW l, ReadAsSent(l), NEW v \in Nat, NEW counts, NEW more,
         Sendable(l, counts, more)
  PROVE  /\ HasCount(l, counts)
         /\ Starts(FrameOf(l, v, counts, more).payload, l, v, counts)
         /\ Len(FrameOf(l, v, counts, more).payload) = Total(l.head) + Body(l, counts) + more
<1>1. /\ Plain(l) /\ l.sizing \in {"fixed", "counted", "rest"}
      /\ more \in Nat /\ counts \in CountsOf(l)
  BY DEF ReadAsSent, Sendable
<1>2. HasCount(l, counts)
  BY <1>1, CountsType
<1> DEFINE front == Laid(Message(l, v, counts), {})
<1>3. Starts(front \o Zeros(more), l, v, counts)
  BY <1>1, <1>2, LaidPlaces
<1>4. Widths(l.head, {}) = l.head
  BY <1>1 DEF Plain, Widths
<1>5. /\ front \in Seq(Name) /\ Total(l.head) \in Nat /\ Body(l, counts) \in Nat
      /\ Len(front) = Total(l.head) + Body(l, counts)
  <2> HIDE DEF front
  <2>1. /\ front \in Seq(Name)
        /\ Total(Widths(l.head, {})) \in Nat /\ Body(l, counts) \in Nat
        /\ Len(front) = Total(Widths(l.head, {})) + Body(l, counts)
    BY <1>1, <1>2, LaidLength DEF front
  <2> QED BY <1>4, <2>1
<1>6. Zeros(more) \in Seq(Name) /\ Len(Zeros(more)) = more
  <2>1. Zero \in Name
    BY DEF Zero, Name
  <2> QED BY <1>1, <2>1 DEF Zeros
<1> HIDE DEF front
<1>7. Len(front \o Zeros(more)) = Len(front) + Len(Zeros(more))
  BY <1>5, <1>6, ConcatProperties
<1>8. FrameOf(l, v, counts, more).payload = front \o Zeros(more)
  BY DEF FrameOf, front
<1> QED BY <1>2, <1>3, <1>5, <1>6, <1>7, <1>8

\* read() finds out how many elements were sent.
LEMMA TakenAsSent ==
  ASSUME NEW l, ReadAsSent(l), Len(l.groups) = 1, NEW v \in Nat, NEW counts, NEW more,
         Sendable(l, counts, more), NEW old
  PROVE  Taken(l, FrameOf(l, v, counts, more), old)[1] = counts[1]
<1> DEFINE frame == FrameOf(l, v, counts, more)
<1>1. frame.counts = counts
  BY DEF FrameOf
<1>2. /\ counts[1] \in Counts /\ counts[1] \in Nat
  <2>1. /\ Plain(l) /\ l.sizing \in {"fixed", "counted", "rest", "kept"}
        /\ counts \in CountsOf(l)
    BY DEF ReadAsSent, Sendable
  <2> QED BY <2>1, CountsType DEF HasCount
<1>3. Len(frame.payload) = Total(l.head) + Body(l, counts) + more
  BY PayloadOf
<1> SUFFICES Taken(l, frame, old)[1] = counts[1]
  OBVIOUS
<1> HIDE DEF frame
<1>4. CASE l.sizing = "counted"
  BY <1>1, <1>4 DEF Taken
<1>5. CASE l.sizing = "rest"
  <2> DEFINE n == counts[1]
             w == l.units[1]
             H == Total(l.head)
             length == Len(frame.payload)
  <2>1. /\ l.base = H /\ w = Total(l.groups[1]) /\ w > 0
        /\ l.modulus \in Nat /\ n < l.modulus /\ l.head \in Seq(Nat)
        /\ l.groups[1] \in Seq(Nat)
    BY <1>2, <1>5 DEF ReadAsSent, Plain
  <2>2. H \in Nat /\ w \in Nat
    BY <2>1, TotalType
  <2>3. Body(l, counts) = n * w
    BY <2>1 DEF Body
  <2>4. more \in Nat /\ more < w
    BY <1>5, <2>1, <2>2 DEF Sendable, MayAppend
  <2>5. Taken(l, frame, old) = <<((length - l.base) \div w) % l.modulus>>
    BY <1>5 DEF Taken, WholeElements
  <2>6. length = H + n * w + more
    BY <1>3, <2>3
  <2> HIDE DEF n, w, H, length
  <2>7. n \in Nat /\ n * w \in Nat
    BY <1>2, <2>2 DEF n
  <2>8. length - l.base = n * w + more
    BY <2>1, <2>2, <2>4, <2>6, <2>7
  <2>9. (n * w + more) \div w = n
    BY <2>1, <2>2, <2>4, <2>7, Division
  <2>10. n % l.modulus = n
    BY <2>1, <2>7, Remainder
  <2> QED BY <2>5, <2>8, <2>9, <2>10 DEF n
<1>6. l.sizing = "counted" \/ l.sizing = "rest"
  BY DEF ReadAsSent
<1> QED BY <1>4, <1>5, <1>6

\* The head, the elements and the groups of message v.
HeadOf(l, v) == [f \in DOMAIN l.head |-> Field(v, 0, 1, f, l.head[f])]

ElementsOf(l, v, n) ==
  [e \in 1 .. n |-> [f \in DOMAIN l.groups[1] |-> Field(v, 1, e, f, l.groups[1][f])]]

GroupsOf(l, v, counts) ==
  IF Len(l.groups) = 1 THEN <<ElementsOf(l, v, counts[1])>> ELSE <<>>

LEMMA MessageParts ==
  ASSUME NEW l, Plain(l), NEW v \in Nat, NEW counts, HasCount(l, counts)
  PROVE  Message(l, v, counts) = [head |-> HeadOf(l, v), groups |-> GroupsOf(l, v, counts)]
<1> DEFINE m == Message(l, v, counts)
<1>1. m = [head |-> m.head, groups |-> m.groups]
  BY DEF Message
<1>2. m.head = HeadOf(l, v)
  BY DEF Message, Field, HeadOf
<1>3. CASE Len(l.groups) = 1
  <2>1. m.groups = <<ElementsOf(l, v, counts[1])>>
    BY <1>3, GroupLaid DEF HasCount, ElementsOf
  <2> HIDE DEF m
  <2> QED BY <1>1, <1>2, <1>3, <2>1 DEF m, GroupsOf
<1>4. CASE Len(l.groups) # 1
  <2>1. l.groups = <<>>
    BY <1>4, AtMostOneGroup
  <2>2. m.groups = <<>>
    BY <2>1, NoGroupLaid
  <2> HIDE DEF m
  <2> QED BY <1>1, <1>2, <1>4, <2>2 DEF m, GroupsOf
<1> QED BY <1>3, <1>4

\* What read() takes from a payload that starts with the message.
LEMMA HeadRead ==
  ASSUME NEW l, ReadAsSent(l), NEW v \in Nat, NEW counts, NEW frame,
         Starts(frame.payload, l, v, counts), NEW old
  PROVE  Decoded(l, frame, old).head = HeadOf(l, v)
<1>1. Plain(l) /\ l.unread = {}
  BY DEF ReadAsSent
<1>2. Decoded(l, frame, old).head
        = [f \in DOMAIN l.head |-> Slice(frame.payload, Before(l, f), l.head[f])]
  BY <1>1 DEF Decoded
<1>3. DOMAIN l.head = 1 .. Len(l.head)
  BY <1>1 DEF Plain
<1>4. ASSUME NEW f \in 1 .. Len(l.head)
      PROVE  Slice(frame.payload, Before(l, f), l.head[f]) = Field(v, 0, 1, f, l.head[f])
  <2>1. Before(l, f) = HeadBefore(l, f)
    BY <1>1 DEF Before, HeadBefore
  <2>2. \A b \in 1 .. l.head[f] :
          /\ HeadBefore(l, f) + b <= Len(frame.payload)
          /\ frame.payload[HeadBefore(l, f) + b] = <<v, 0, 1, f, b>>
    BY DEF Starts
  <2> QED BY <2>1, <2>2 DEF Slice, Field
<1> QED BY <1>2, <1>3, <1>4 DEF HeadOf

\* Where the first group starts, and where it ends.
LEMMA GroupEnds ==
  ASSUME NEW l, ReadAsSent(l), NEW v \in Nat, NEW counts, HasCount(l, counts),
         NEW payload, Starts(payload, l, v, counts), NEW taken,
         Len(l.groups) = 1 => taken[1] = counts[1]
  PROVE  /\ GroupStart(l, taken, 1) = Total(l.head)
         /\ GroupStart(l, taken, Len(l.groups) + 1) = Total(l.head) + Body(l, counts)
<1> DEFINE length(h) == taken[h] * Total(l.groups[h])
           H == Total(l.head)
<1>1. Plain(l) /\ l.unread = {} /\ H \in Nat /\ Body(l, counts) \in Nat
  BY DEF ReadAsSent, Starts
<1>2. HeadLength(l) = H
  <2>1. HeadLength(l) = HeadBefore(l, Len(l.head) + 1)
    BY <1>1 DEF HeadLength, Before, HeadBefore
  <2> QED BY <2>1 DEF Starts
<1>3. GroupStart(l, taken, 1) = H
  <2> DEFINE none == [h \in 1 .. 1 - 1 |-> length(h)]
  <2>1. none = <<>>
    OBVIOUS
  <2>2. <<>> \in Seq(Nat) /\ Len(<<>>) = 0
    OBVIOUS
  <2>3. Total(<<>>) = 0
    BY <2>2, TotalOfNone
  <2>4. GroupStart(l, taken, 1) = HeadLength(l) + Total(none)
    BY DEF GroupStart
  <2> HIDE DEF none, H
  <2> QED BY <1>1, <1>2, <2>1, <2>3, <2>4
<1>4. CASE Len(l.groups) = 1
  <2> DEFINE one == [h \in 1 .. Len(l.groups) + 1 - 1 |-> length(h)]
  <2>1. GroupStart(l, taken, Len(l.groups) + 1) = HeadLength(l) + Total(one)
    BY DEF GroupStart
  <2>2. one = [h \in 1 .. 1 |-> length(h)]
    BY <1>4
  <2>3. length(1) = Body(l, counts)
    BY <1>4 DEF Body
  <2>4. one \in Seq(Nat) /\ Len(one) = 1 /\ one[1] = Body(l, counts)
    <3>1. one = [h \in 1 .. 1 |-> Body(l, counts)]
      BY <2>2, <2>3
    <3> HIDE DEF one
    <3> QED BY <1>1, <3>1
  <2> HIDE DEF one, H
  <2>5. Total(one) = Body(l, counts)
    BY <2>4, TotalOfOne
  <2> QED BY <1>2, <1>3, <2>1, <2>5 DEF H
<1>5. CASE Len(l.groups) # 1
  <2>1. Len(l.groups) = 0
    BY <1>1, <1>5, AtMostOneGroup
  <2>2. Len(l.groups) + 1 = 1 /\ Body(l, counts) = 0
    BY <1>5, <2>1 DEF Body
  <2> HIDE DEF H
  <2> QED BY <1>1, <1>3, <2>2 DEF H
<1> QED BY <1>4, <1>5

LEMMA GroupsRead ==
  ASSUME NEW l, ReadAsSent(l), NEW v \in Nat, NEW counts, HasCount(l, counts),
         NEW frame, Starts(frame.payload, l, v, counts), NEW old,
         Len(l.groups) = 1 => Taken(l, frame, old)[1] = counts[1]
  PROVE  Decoded(l, frame, old).groups = GroupsOf(l, v, counts)
<1> DEFINE payload == frame.payload
           taken == Taken(l, frame, old)
<1>1. Plain(l) /\ l.sizing \notin {"flagged", "words"}
  BY DEF ReadAsSent
<1>2. Decoded(l, frame, old).groups =
        [g \in DOMAIN l.groups |->
           <<>> \o ElementsAt(l, payload, g, GroupStart(l, taken, g), taken[g])]
  BY <1>1 DEF Decoded, Untouched, Padding
<1>3. CASE Len(l.groups) = 1
  <2> DEFINE ws == l.groups[1]
             n == counts[1]
             read == ElementsAt(l, payload, 1, GroupStart(l, taken, 1), taken[1])
  <2>1. DOMAIN l.groups = {1} /\ ws \in Seq(Nat) /\ n \in Nat /\ taken[1] = n
    BY <1>1, <1>3 DEF Plain, HasCount
  <2>2. GroupStart(l, taken, 1) = Total(l.head)
    <3> HIDE DEF taken
    <3> QED BY <2>1, GroupEnds
  <2>3. read = [e \in 1 .. n |-> [f \in DOMAIN ws |->
                  Slice(payload, Total(l.head) + (e - 1) * Total(ws)
                                   + Total(SubSeq(ws, 1, f - 1)), ws[f])]]
    BY <2>1, <2>2 DEF ElementsAt
  <2>4. \A e \in 1 .. n : \A f \in 1 .. Len(ws) : \A b \in 1 .. ws[f] :
          LET at == Total(l.head) + (e - 1) * Total(ws) + Total(SubSeq(ws, 1, f - 1)) + b
          IN  at <= Len(payload) /\ payload[at] = <<v, 1, e, f, b>>
    BY <1>3 DEF Starts
  <2>5. DOMAIN ws = 1 .. Len(ws)
    BY <2>1
  <2>6. read = ElementsOf(l, v, n)
    <3> DEFINE F(e, f) == Slice(payload, Total(l.head) + (e - 1) * Total(ws)
                                  + Total(SubSeq(ws, 1, f - 1)), ws[f])
    <3>1. ASSUME NEW e \in 1 .. n, NEW f \in DOMAIN ws
          PROVE  F(e, f) = Field(v, 1, e, f, ws[f])
      BY <2>4, <2>5 DEF Slice, Field
    <3>2. read = [e \in 1 .. n |-> [f \in DOMAIN ws |-> F(e, f)]]
      BY <2>3
    <3> HIDE DEF F, read
    <3> QED BY <3>1, <3>2 DEF ElementsOf
  <2>7. read \in Seq(Seq(Seq(Name)))
    <3>1. ASSUME NEW e \in 1 .. n, NEW f \in DOMAIN ws
          PROVE  Field(v, 1, e, f, ws[f]) \in Seq(Name)
      <4>1. 1 \in Nat /\ e \in Nat /\ f \in Nat
        BY <2>1, <2>5
      <4>2. PICK w \in Nat : w = ws[f]
        BY <2>1, <2>5
      <4>3. IsField(Field(v, 1, e, f, w), v, 1, e, f, w)
        BY <4>1, FieldType
      <4> QED BY <4>2, <4>3 DEF IsField
    <3>2. \A e \in 1 .. n :
            [f \in DOMAIN ws |-> Field(v, 1, e, f, ws[f])] \in Seq(Seq(Name))
      BY <2>1, <2>5, <3>1
    <3> DEFINE els == [e \in 1 .. n |-> [f \in DOMAIN ws |-> Field(v, 1, e, f, ws[f])]]
    <3>3. read = els
      BY <2>6 DEF ElementsOf
    <3>4. els \in [1 .. n -> Seq(Seq(Name))]
      BY <3>2
    <3> HIDE DEF read, els
    <3>5. ASSUME NEW V, NEW s \in [1 .. n -> V] PROVE s \in Seq(V)
      BY <2>1
    <3> HIDE DEF n
    <3>6. els \in Seq(Seq(Seq(Name)))
      <4> DEFINE V == Seq(Seq(Name))
      <4>1. els \in [1 .. n -> V]
        BY <3>4
      <4> HIDE DEF V
      <4>2. els \in Seq(V)
        BY <3>5, <4>1
      <4> QED BY <4>2 DEF V
    <3> QED BY <3>3, <3>6
  <2>8. <<>> \o read = read
    <3> HIDE DEF read
    <3> QED BY <2>7, ConcatEmptySeq
  <2>9. Decoded(l, frame, old).groups = [g \in {1} |-> read]
    <3> HIDE DEF read, payload, taken
    <3> SUFFICES [g \in {1} |-> <<>> \o ElementsAt(l, payload, g, GroupStart(l, taken, g), taken[g])]
                   = [g \in {1} |-> read]
      BY <1>2, <2>1
    <3> QED BY <2>8 DEF read
  <2> HIDE DEF read, n
  <2>10. [g \in {1} |-> read] = <<read>>
    OBVIOUS
  <2> QED BY <1>3, <2>6, <2>9, <2>10 DEF n, GroupsOf
<1>4. CASE Len(l.groups) # 1
  <2>1. l.groups = <<>>
    BY <1>1, <1>4, AtMostOneGroup
  <2>2. DOMAIN l.groups = {}
    BY <2>1
  <2>3. Decoded(l, frame, old).groups = <<>>
    BY <1>2, <2>2
  <2> QED BY <1>4, <2>3 DEF GroupsOf
<1> QED BY <1>3, <1>4

\* read() makes of the frame the message that was sent, and stays inside it.
LEMMA ReadBack ==
  ASSUME NEW l, ReadAsSent(l), NEW v \in Nat, NEW counts, NEW more,
         Sendable(l, counts, more), NEW old
  PROVE  /\ Decoded(l, FrameOf(l, v, counts, more), old) = Message(l, v, counts)
         /\ ReadReach(l, FrameOf(l, v, counts, more), old)
              <= Len(FrameOf(l, v, counts, more).payload)
<1> DEFINE frame == FrameOf(l, v, counts, more)
           taken == Taken(l, frame, old)
<1> SUFFICES /\ Decoded(l, frame, old) = Message(l, v, counts)
             /\ ReadReach(l, frame, old) <= Len(frame.payload)
  OBVIOUS
<1>1. HasCount(l, counts) /\ Starts(frame.payload, l, v, counts) /\ Plain(l)
  BY PayloadOf DEF ReadAsSent
<1>2. Len(l.groups) = 1 => taken[1] = counts[1]
  BY TakenAsSent
<1> HIDE DEF frame
<1>3. Decoded(l, frame, old).head = HeadOf(l, v)
  BY <1>1, HeadRead
<1>4. Decoded(l, frame, old).groups = GroupsOf(l, v, counts)
  BY <1>1, <1>2, GroupsRead
<1>5. Decoded(l, frame, old) = [head |-> Decoded(l, frame, old).head,
                                groups |-> Decoded(l, frame, old).groups]
  BY DEF Decoded
<1>6. Decoded(l, frame, old) = Message(l, v, counts)
  BY <1>1, <1>3, <1>4, <1>5, MessageParts
<1>7. ReadReach(l, frame, old) = Total(l.head) + Body(l, counts)
  <2> DEFINE payload == frame.payload
  <2>1. Starts(payload, l, v, counts)
    BY <1>1
  <2> HIDE DEF payload, taken
  <2>2. GroupStart(l, taken, Len(l.groups) + 1) = Total(l.head) + Body(l, counts)
    BY <1>1, <1>2, <2>1, GroupEnds
  <2> QED BY <2>2 DEF ReadReach, taken
<1> QED BY <1>1, <1>6, <1>7 DEF Starts

-----------------------------------------------------------------------------
(* What write() makes of a message.                                        *)

LEMMA DeclaredLength ==
  ASSUME NEW l, DeclaredAsWritten(l), NEW count, HasCount(l, count)
  PROVE  /\ SerializedLength(l, count)
              = Total(Widths(l.head, l.unwritten)) + Body(l, count)
         /\ Body(l, count) \in Nat
<1> DEFINE length(g) == l.units[g] * count[g]
           lengths == [g \in DOMAIN l.groups |-> length(g)]
<1>1. Plain(l)
  BY DEF DeclaredAsWritten
<1>2. SerializedLength(l, count) = l.base + Total(lengths)
  BY DEF SerializedLength
<1>3. l.base = Total(Widths(l.head, l.unwritten))
  BY DEF DeclaredAsWritten, Written, Widths
<1>4. Total(lengths) = Body(l, count) /\ Body(l, count) \in Nat
  <2>1. CASE Len(l.groups) = 1
    <3> DEFINE n == count[1]
               w == Total(l.groups[1])
    <3>1. DOMAIN l.groups = {1} /\ l.units[1] = w /\ n \in Nat /\ l.groups[1] \in Seq(Nat)
      BY <1>1, <2>1 DEF Plain, HasCount, DeclaredAsWritten
    <3>2. w \in Nat
      BY <3>1, TotalType
    <3>3. Body(l, count) = n * w /\ length(1) = w * n
      BY <2>1, <3>1 DEF Body
    <3> HIDE DEF n, w
    <3>4. n * w = w * n /\ n * w \in Nat
      <4>1. \A i, j \in Nat : i * j = j * i /\ i * j \in Nat
        OBVIOUS
      <4>2. n \in Nat
        BY <3>1 DEF n
      <4> QED BY <3>2, <4>1, <4>2
    <3>5. lengths \in Seq(Nat) /\ Len(lengths) = 1 /\ lengths[1] = Body(l, count)
      <4>1. lengths = [g \in {1} |-> length(g)]
        BY <3>1
      <4>2. lengths = [g \in 1 .. 1 |-> Body(l, count)]
        BY <3>3, <3>4, <4>1
      <4> HIDE DEF lengths
      <4> QED BY <3>3, <3>4, <4>2
    <3> HIDE DEF lengths
    <3> QED BY <3>3, <3>4, <3>5, TotalOfOne
  <2>2. CASE Len(l.groups) # 1
    <3>1. l.groups = <<>>
      BY <1>1, <2>2, AtMostOneGroup
    <3>2. lengths = <<>>
      BY <3>1
    <3>3. <<>> \in Seq(Nat) /\ Len(<<>>) = 0
      OBVIOUS
    <3>4. Total(<<>>) = 0
      BY <3>3, TotalOfNone
    <3> QED BY <2>2, <3>2, <3>4 DEF Body
  <2> QED BY <2>1, <2>2
<1> QED BY <1>2, <1>3, <1>4

\* A sender never counts fewer elements than there are.
LEMMA NoneUncounted ==
  ASSUME NEW l, DeclaredAsWritten(l), NEW counts, counts \in CountsOf(l),
         NEW count, count \in DeclaredCounts(l, counts)
  PROVE  /\ HasCount(l, counts) /\ HasCount(l, count)
         /\ Body(l, counts) <= Body(l, count)
<1>1. Plain(l) /\ HasCount(l, counts)
  BY CountsType DEF DeclaredAsWritten
<1>2. Body(l, counts) \in Nat
  BY <1>1, DeclaredLength
<1>3. CASE count = counts
  BY <1>1, <1>2, <1>3
<1>4. CASE count # counts
  <2>1. counts = <<0>> /\ count = <<1>>
    BY <1>4 DEF DeclaredCounts
  <2>2. HasCount(l, count)
    BY <2>1 DEF HasCount
  <2>3. Body(l, count) \in Nat
    BY <2>2, DeclaredLength
  <2>4. Body(l, counts) = 0
    <3>1. CASE Len(l.groups) = 1
      <4>1. Total(l.groups[1]) \in Nat
        BY <1>1, <3>1, TotalType DEF Plain
      <4>2. \A w \in Nat : 0 * w = 0
        OBVIOUS
      <4> QED BY <2>1, <3>1, <4>1, <4>2 DEF Body
    <3>2. CASE Len(l.groups) # 1
      BY <3>2 DEF Body
    <3> QED BY <3>1, <3>2
  <2> QED BY <1>1, <2>2, <2>3, <2>4
<1> QED BY <1>3, <1>4

\* A sender that counts the elements declares the length of what it writes.
LEMMA CountedRight ==
  ASSUME NEW l, Plain(l), NEW v \in Nat, NEW counts, HasCount(l, counts)
  PROVE  Body(l, Sizes(Message(l, v, counts))) = Body(l, counts)
<1>1. CASE Len(l.groups) = 1
  <2> DEFINE m == Message(l, v, counts)
             n == counts[1]
             es == [e \in 1 .. n |->
                      [f \in DOMAIN l.groups[1] |-> Field(v, 1, e, f, l.groups[1][f])]]
  <2>1. m.groups = <<es>> /\ n \in Nat
    BY <1>1, GroupLaid DEF HasCount
  <2>2. Len(es) = n
    BY <2>1
  <2> HIDE DEF es, m
  <2>3. Sizes(m)[1] = n
    BY <2>1, <2>2 DEF Sizes
  <2> QED BY <1>1, <2>3 DEF Body, m
<1>2. CASE Len(l.groups) # 1
  BY <1>2 DEF Body
<1> QED BY <1>1, <1>2

\* The length in the header covers what write() writes, and is that of what it
\* writes if the sender counted the elements.
LEMMA WrittenOut ==
  ASSUME NEW l, DeclaredAsWritten(l), NEW v \in Nat, NEW counts, counts \in CountsOf(l),
         NEW count, count \in DeclaredCounts(l, counts)
  PROVE  LET m == Message(l, v, counts)
             written == Laid(m, l.unwritten)
         IN  /\ SerializedLength(l, count) \in Nat /\ Len(written) \in Nat
             /\ Len(written) <= SerializedLength(l, count)
             /\ IsPrefix(written, Encoded(l, m, count))
             /\ count = Sizes(m) => Encoded(l, m, count) = written
<1> DEFINE m == Message(l, v, counts)
           written == Laid(m, l.unwritten)
           length == SerializedLength(l, count)
           W == Total(Widths(l.head, l.unwritten))
<1>1. /\ Plain(l) /\ HasCount(l, counts) /\ HasCount(l, count)
      /\ Body(l, counts) <= Body(l, count)
  BY NoneUncounted DEF DeclaredAsWritten
<1>2. length = W + Body(l, count) /\ Body(l, count) \in Nat
  BY <1>1, DeclaredLength
<1>3. /\ written \in Seq(Name) /\ W \in Nat /\ Body(l, counts) \in Nat
      /\ Len(written) = W + Body(l, counts)
  BY <1>1, LaidLength
<1> DEFINE out == Encoded(l, m, count)
<1>4. out = [k \in 1 .. length |-> IF k <= Len(written) THEN written[k] ELSE Zero]
  BY DEF Encoded
<1>5. count = Sizes(m) => Body(l, count) = Body(l, counts)
  BY <1>1, CountedRight
<1> HIDE DEF length, written, out, m, W
<1>6. length \in Nat /\ Len(written) \in Nat /\ Len(written) <= length
  BY <1>1, <1>2, <1>3
<1>7. written = [k \in 1 .. Len(written) |-> written[k]]
  BY <1>3
<1>8. IsPrefix(written, out)
  <2>1. Len(out) = length
    BY <1>4, <1>6
  <2>2. \A k \in 1 .. Len(written) : out[k] = written[k]
    BY <1>4, <1>6
  <2>3. SubSeq(written, 1, Len(written)) = [k \in 1 .. Len(written) |-> written[k]]
    BY <1>3, <1>7
  <2>4. SubSeq(out, 1, Len(written)) = [k \in 1 .. Len(written) |-> out[k]]
    <3>1. ASSUME NEW n \in Nat
          PROVE  SubSeq(out, 1, n) = [k \in 1 .. n |-> out[k]]
      OBVIOUS
    <3> QED BY <1>6, <3>1
  <2> QED BY <1>6, <2>1, <2>2, <2>3, <2>4 DEF IsPrefix
<1>9. ASSUME count = Sizes(m) PROVE out = written
  <2>1. length = Len(written)
    BY <1>2, <1>3, <1>5, <1>9
  <2>2. out = [k \in 1 .. Len(written) |-> written[k]]
    BY <1>4, <1>6, <2>1
  <2> QED BY <1>7, <2>2
<1> QED BY <1>6, <1>8, <1>9 DEF length, written, out, m

-----------------------------------------------------------------------------
(* The two sides.                                                          *)

\* What is on its way is a message the receiver had, as it lays it out.
OnItsWay ==
  result = "arrived" =>
    \E v \in Nat : \E counts, more :
      /\ Sendable(Layouts[type], counts, more)
      /\ sent = Message(Layouts[type], v, counts)
      /\ wire = FrameOf(Layouts[type], v, counts, more)

\* The inductive invariant, of the handler and of what the driver sends.
ReadInv ==
  /\ type \in Received \cup Composed /\ messages \in Nat
  /\ result \in {"arrived", "read"} => type \in Received
  /\ OnItsWay /\ DecodedAsSent /\ ReadsInsidePayload

WriteInv ==
  /\ type \in Received \cup Composed /\ messages \in Nat
  /\ result = "written" => type \in Composed
  /\ EncodedAsDocumented /\ WritesInsideBuffer

\* The layouts of what handlers decode are ones read() gets right, those of what
\* the driver sends are ones write() gets right.
ReceivedFaithful == \A t \in Received : ReadAsSent(Layouts[t])
ComposedFaithful == \A t \in Composed : DeclaredAsWritten(Layouts[t])

LEMMA InitReads == Init => ReadInv
BY DEF Init, ReadInv, OnItsWay, DecodedAsSent, ReadsInsidePayload

LEMMA NextReads ==
  ASSUME ReceivedFaithful, ReadInv, [Next]_vars
  PROVE  ReadInv'
<1>1. CASE Arrive
  <2>1. PICK counts \in CountsOf(Layouts[type]), more \in Trailing :
          /\ more = 0 \/ MayAppend(Layouts[type], more)
          /\ sent' = Message(Layouts[type], messages + 1, counts)
          /\ wire' = [payload |-> Laid(sent', {}) \o Zeros(more), counts |-> counts]
    BY <1>1 DEF Arrive
  <2>2. /\ type' = type /\ type \in Received /\ result' = "arrived"
        /\ messages' \in Nat /\ messages + 1 \in Nat
    BY <1>1 DEF Arrive, ReadInv
  <2>3. Sendable(Layouts[type], counts, more)
    BY <2>1, CodecAssumption DEF Sendable
  <2>4. wire' = FrameOf(Layouts[type], messages + 1, counts, more)
    BY <2>1 DEF FrameOf
  <2>5. OnItsWay'
    BY <2>1, <2>2, <2>3, <2>4 DEF OnItsWay
  <2> QED BY <2>2, <2>5 DEF ReadInv, DecodedAsSent, ReadsInsidePayload
<1>2. CASE Read
  <2> DEFINE l == Layouts[type]
  <2>1. /\ type' = type /\ type \in Received /\ result' = "read" /\ messages' = messages
        /\ wire' = wire /\ sent' = sent
        /\ object' = Decoded(l, wire, object) /\ reach' = ReadReach(l, wire, object)
    BY <1>2 DEF Read, ReadInv
  <2>2. PICK v \in Nat : \E counts, more :
          /\ Sendable(l, counts, more)
          /\ sent = Message(l, v, counts) /\ wire = FrameOf(l, v, counts, more)
    BY <1>2 DEF Read, ReadInv, OnItsWay
  <2>3. PICK counts, more :
          /\ Sendable(l, counts, more)
          /\ sent = Message(l, v, counts) /\ wire = FrameOf(l, v, counts, more)
    BY <2>2
  <2>4. ReadAsSent(l)
    BY <2>1 DEF ReceivedFaithful
  <2> HIDE DEF l
  <2>5. /\ Decoded(l, FrameOf(l, v, counts, more), object) = Message(l, v, counts)
        /\ ReadReach(l, FrameOf(l, v, counts, more), object)
             <= Len(FrameOf(l, v, counts, more).payload)
    BY <2>3, <2>4, ReadBack
  <2>6. object' = sent' /\ reach' <= Len(wire'.payload)
    BY <2>1, <2>3, <2>5
  <2> QED BY <2>1, <2>6 DEF ReadInv, OnItsWay, DecodedAsSent, ReadsInsidePayload
<1>3. CASE Write
  <2>1. /\ type' = type /\ messages' = messages + 1 /\ result' \in {"written", "refused"}
    BY <1>3 DEF Write
  <2> QED BY <2>1 DEF ReadInv, OnItsWay, DecodedAsSent, ReadsInsidePayload
<1>4. CASE UNCHANGED vars
  BY <1>4 DEF vars, ReadInv, OnItsWay, DecodedAsSent, ReadsInsidePayload
<1> QED BY <1>1, <1>2, <1>3, <1>4 DEF Next

LEMMA InitWrites == Init => WriteInv
BY DEF Init, WriteInv, EncodedAsDocumented, WritesInsideBuffer

LEMMA NextWrites ==
  ASSUME ComposedFaithful, WriteInv, [Next]_vars
  PROVE  WriteInv'
<1>1. CASE Arrive \/ Read
  <2>1. /\ type' = type /\ messages' \in Nat /\ result' \in {"arrived", "read"}
    BY <1>1 DEF Arrive, Read, WriteInv
  <2> QED BY <2>1 DEF WriteInv, EncodedAsDocumented, WritesInsideBuffer
<1>2. CASE Write
  <2> DEFINE l == Layouts[type]
  <2>1. /\ type \in Composed /\ type' = type /\ messages' = messages + 1
        /\ messages + 1 \in Nat
    BY <1>2 DEF Write, WriteInv
  <2>2. DeclaredAsWritten(l)
    BY <2>1 DEF ComposedFaithful
  <2>3. PICK counts \in CountsOf(l) : \E count \in DeclaredCounts(l, counts) :
          LET m == Message(l, messages + 1, counts)
              length == SerializedLength(l, count)
              last == HeaderLength + Len(Laid(m, l.unwritten))
              end == length + WrapperLength
          IN  /\ sent' = m /\ declared' = count
              /\ IF Fits(length)
                   THEN /\ wire' = [payload |-> Encoded(l, m, count), counts |-> counts]
                        /\ reach' = IF last > end THEN last ELSE end
                        /\ result' = "written"
                   ELSE /\ result' = "refused" /\ UNCHANGED <<wire, reach>>
    BY <1>2 DEF Write
  <2> DEFINE m == Message(l, messages + 1, counts)
             written == Laid(m, l.unwritten)
  <2>4. PICK count \in DeclaredCounts(l, counts) :
          LET length == SerializedLength(l, count)
              last == HeaderLength + Len(written)
              end == length + WrapperLength
          IN  /\ sent' = m /\ declared' = count
              /\ IF Fits(length)
                   THEN /\ wire' = [payload |-> Encoded(l, m, count), counts |-> counts]
                        /\ reach' = IF last > end THEN last ELSE end
                        /\ result' = "written"
                   ELSE /\ result' = "refused" /\ UNCHANGED <<wire, reach>>
    BY <2>3
  <2> DEFINE length == SerializedLength(l, count)
             out == Encoded(l, m, count)
  <2>5. /\ length \in Nat /\ Len(written) \in Nat /\ Len(written) <= length
        /\ IsPrefix(written, out) /\ (count = Sizes(m) => out = written)
    <3> DEFINE v == messages + 1
    <3>1. v \in Nat
      BY <2>1
    <3> HIDE DEF v, l
    <3> SUFFICES LET k == Message(l, v, counts)
                     w == Laid(k, l.unwritten)
                 IN  /\ SerializedLength(l, count) \in Nat /\ Len(w) \in Nat
                     /\ Len(w) <= SerializedLength(l, count)
                     /\ IsPrefix(w, Encoded(l, k, count))
                     /\ count = Sizes(k) => Encoded(l, k, count) = w
      BY DEF v
    <3> QED BY <2>2, <3>1, WrittenOut
  <2>6. CASE Fits(length)
    <3>1. /\ sent' = m /\ declared' = count /\ wire'.payload = out /\ result' = "written"
          /\ reach' = IF HeaderLength + Len(written) > length + WrapperLength
                        THEN HeaderLength + Len(written)
                        ELSE length + WrapperLength
      BY <2>4, <2>6
    <3>2. written = Laid(m, l.unwritten)
      OBVIOUS
    <3> HIDE DEF l, m, written, length, out
    <3>3. /\ IsPrefix(Laid(sent', l.unwritten), wire'.payload)
          /\ declared' = Sizes(sent') => wire'.payload = Laid(sent', l.unwritten)
      BY <2>5, <3>1, <3>2, Zenon
    <3>4. reach' <= WriterSize
      BY <2>5, <2>6, <3>1, CodecAssumption DEF Fits, HeaderLength, WrapperLength
    <3> QED BY <2>1, <3>1, <3>3, <3>4
            DEF WriteInv, EncodedAsDocumented, WritesInsideBuffer, l
  <2>7. CASE ~Fits(length)
    <3>1. result' = "refused"
      BY <2>4, <2>7
    <3> QED BY <2>1, <3>1 DEF WriteInv, EncodedAsDocumented, WritesInsideBuffer
  <2> QED BY <2>6, <2>7
<1>3. CASE UNCHANGED vars
  BY <1>3 DEF vars, WriteInv, EncodedAsDocumented, WritesInsideBuffer
<1> QED BY <1>1, <1>2, <1>3 DEF Next

\* What a handler's callback is given is the message the receiver sent, whatever
\* the object it is decoded into held before, for any number of elements and any
\* bytes a newer receiver appends: UbloxSerializer::read() of every layout that
\* declares its elements faithfully.
THEOREM AlwaysDecodedAsSent ==
  ASSUME ReceivedFaithful
  PROVE  Spec => []DecodedAsSent
<1>1. Init => ReadInv
  BY InitReads
<1>2. ReadInv /\ [Next]_vars => ReadInv'
  BY NextReads
<1>3. ReadInv => DecodedAsSent
  BY DEF ReadInv
<1> QED BY <1>1, <1>2, <1>3, PTL DEF Spec

\* read() never looks past the payload of the frame it decodes.
THEOREM AlwaysReadsInsidePayload ==
  ASSUME ReceivedFaithful
  PROVE  Spec => []ReadsInsidePayload
<1>1. Init => ReadInv
  BY InitReads
<1>2. ReadInv /\ [Next]_vars => ReadInv'
  BY NextReads
<1>3. ReadInv => ReadsInsidePayload
  BY DEF ReadInv
<1> QED BY <1>1, <1>2, <1>3, PTL DEF Spec

\* What the driver sends is every field write() takes, in order, none cut off by
\* the checksum, also when the count beside CFG-GNSS's blocks is not their number;
\* and nothing else when it is, for any number of elements.
THEOREM AlwaysEncodedAsDocumented ==
  ASSUME ComposedFaithful
  PROVE  Spec => []EncodedAsDocumented
<1>1. Init => WriteInv
  BY InitWrites
<1>2. WriteInv /\ [Next]_vars => WriteInv'
  BY NextWrites
<1>3. WriteInv => EncodedAsDocumented
  BY DEF WriteInv
<1> QED BY <1>1, <1>2, <1>3, PTL DEF Spec

\* write() stays inside the buffer of configure(), whatever its size and
\* however many elements there are: what does not fit is refused.
THEOREM AlwaysWritesInsideBuffer ==
  ASSUME ComposedFaithful
  PROVE  Spec => []WritesInsideBuffer
<1>1. Init => WriteInv
  BY InitWrites
<1>2. WriteInv /\ [Next]_vars => WriteInv'
  BY NextWrites
<1>3. WriteInv => WritesInsideBuffer
  BY DEF WriteInv
<1> QED BY <1>1, <1>2, <1>3, PTL DEF Spec

=============================================================================
