----------------------- MODULE RecoveryLadder_proofs -----------------------
(***************************************************************************)
(* Lemmas about the recovery ladder, for the proofs of the modules that    *)
(* climb it: what a backoff is for every interval, ceiling and shift, and  *)
(* what the end of a pass does to the members of the ladder.               *)
(***************************************************************************)
EXTENDS RecoveryLadder, TLAPS

\* The shift is bounded by 16, so the doubling is a table of 17 entries.
LEMMA DoublingPositive == ASSUME NEW a \in 0..16 PROVE 2^a \in Nat \ {0}
<1>0.    a = 0 \/ a = 1 \/ a = 2 \/ a = 3 \/ a = 4 \/ a = 5 \/ a = 6 \/ a = 7
        \/ a = 8 \/ a = 9 \/ a = 10 \/ a = 11 \/ a = 12 \/ a = 13 \/ a = 14 \/ a = 15
        \/ a = 16
  OBVIOUS
<1>1. CASE a = 0  BY <1>1, Z3
<1>2. CASE a = 1  BY <1>2, Z3
<1>3. CASE a = 2  BY <1>3, Z3
<1>4. CASE a = 3  BY <1>4, Z3
<1>5. CASE a = 4  BY <1>5, Z3
<1>6. CASE a = 5  BY <1>6, Z3
<1>7. CASE a = 6  BY <1>7, Z3
<1>8. CASE a = 7  BY <1>8, Z3
<1>9. CASE a = 8  BY <1>9, Z3
<1>10. CASE a = 9  BY <1>10, Z3
<1>11. CASE a = 10 BY <1>11, Z3
<1>12. CASE a = 11 BY <1>12, Z3
<1>13. CASE a = 12 BY <1>13, Z3
<1>14. CASE a = 13 BY <1>14, Z3
<1>15. CASE a = 14 BY <1>15, Z3
<1>16. CASE a = 15 BY <1>16, Z3
<1>17. CASE a = 16 BY <1>17, Z3
<1>18. QED
  BY <1>0, <1>1, <1>2, <1>3, <1>4, <1>5, <1>6, <1>7,
     <1>8, <1>9, <1>10, <1>11, <1>12, <1>13, <1>14, <1>15,
     <1>16, <1>17

\* Nor does the doubling ever shrink.
LEMMA DoublingMonotone == ASSUME NEW a \in 1..16 PROVE 2^(a - 1) <= 2^a
<1>0.    a = 1 \/ a = 2 \/ a = 3 \/ a = 4 \/ a = 5 \/ a = 6 \/ a = 7 \/ a = 8
        \/ a = 9 \/ a = 10 \/ a = 11 \/ a = 12 \/ a = 13 \/ a = 14 \/ a = 15 \/ a = 16
  OBVIOUS
<1>1. CASE a = 1  BY <1>1, Z3
<1>2. CASE a = 2  BY <1>2, Z3
<1>3. CASE a = 3  BY <1>3, Z3
<1>4. CASE a = 4  BY <1>4, Z3
<1>5. CASE a = 5  BY <1>5, Z3
<1>6. CASE a = 6  BY <1>6, Z3
<1>7. CASE a = 7  BY <1>7, Z3
<1>8. CASE a = 8  BY <1>8, Z3
<1>9. CASE a = 9  BY <1>9, Z3
<1>10. CASE a = 10 BY <1>10, Z3
<1>11. CASE a = 11 BY <1>11, Z3
<1>12. CASE a = 12 BY <1>12, Z3
<1>13. CASE a = 13 BY <1>13, Z3
<1>14. CASE a = 14 BY <1>14, Z3
<1>15. CASE a = 15 BY <1>15, Z3
<1>16. CASE a = 16 BY <1>16, Z3
<1>17. QED
  BY <1>0, <1>1, <1>2, <1>3, <1>4, <1>5, <1>6, <1>7,
     <1>8, <1>9, <1>10, <1>11, <1>12, <1>13, <1>14, <1>15,
     <1>16

\* The backoff lies between one time unit and its ceiling.
LEMMA BackoffRange ==
  ASSUME NEW a \in Nat
  PROVE  Backoff(a) \in 1..BackoffMax
<1> DEFINE shift == Least(a, MaxBackoffShift)
<1>1. shift \in 0..16
  BY LadderAssumption DEF Least
<1>2. 2^shift \in Nat \ {0}
  BY <1>1, DoublingPositive
<1> HIDE DEF shift
<1>3. CycleTime * 2^shift \in Nat \ {0}
  <2>1. ASSUME NEW p \in Nat \ {0} PROVE CycleTime * p \in Nat \ {0}
    BY LadderAssumption
  <2>2. QED BY <1>2, <2>1
<1>4. Least(CycleTime * 2^shift, BackoffMax) \in 1..BackoffMax
  <2>1. ASSUME NEW i \in Nat \ {0} PROVE Least(i, BackoffMax) \in 1..BackoffMax
    BY LadderAssumption DEF Least
  <2>2. QED BY <1>3, <2>1
<1>5. QED BY <1>4 DEF Backoff, shift

\* At the bound of the shift one more pass does not shorten the backoff.
LEMMA BackoffMonotone ==
  Backoff(MaxBackoffShift - 1) <= Backoff(MaxBackoffShift)
<1> DEFINE S == MaxBackoffShift
<1>1. S \in 1..16 /\ S \in 0..16 /\ S - 1 \in 0..16
  BY LadderAssumption
<1>2. Least(S - 1, S) = S - 1 /\ Least(S, S) = S
  BY LadderAssumption DEF Least
<1> HIDE DEF S
<1>3. 2^(S - 1) <= 2^S /\ 2^(S - 1) \in Nat \ {0} /\ 2^S \in Nat \ {0}
  <2>1. 2^(S - 1) \in Nat \ {0}
    BY <1>1, DoublingPositive
  <2>2. 2^S \in Nat \ {0}
    BY <1>1, DoublingPositive
  <2>3. 2^(S - 1) <= 2^S
    BY <1>1, DoublingMonotone
  <2>4. QED BY <2>1, <2>2, <2>3
<1>4. ASSUME NEW p \in Nat, NEW q \in Nat, p <= q
      PROVE  Least(CycleTime * p, BackoffMax) <= Least(CycleTime * q, BackoffMax)
  <2>1. CycleTime * p \in Nat /\ CycleTime * q \in Nat /\ CycleTime * p <= CycleTime * q
    BY <1>4, LadderAssumption
  <2>2. ASSUME NEW i \in Nat, NEW j \in Nat, i <= j
        PROVE  Least(i, BackoffMax) <= Least(j, BackoffMax)
    BY <2>2, LadderAssumption DEF Least
  <2>3. QED BY <2>1, <2>2
<1>5. Least(CycleTime * 2^(S - 1), BackoffMax) <= Least(CycleTime * 2^S, BackoffMax)
  BY <1>3, <1>4
<1>6. QED BY <1>2, <1>5 DEF Backoff, S

\* What the passes of a fresh ladder at least double the interval to.
LEMMA DoublingAtLeast ==
  ASSUME NEW a \in 0..16
  PROVE  2^a >= 1 /\ (a >= 1 => 2^a >= 2) /\ (a >= 2 => 2^a >= 4)
<1>0. a = 0 \/ a = 1 \/ a = 2 \/ a \in 3 .. 16
  OBVIOUS
<1>1. 2^0 = 1 /\ 2^1 = 2 /\ 2^2 = 4
  BY Z3
<1>2. CASE a \in 3 .. 16
  <2>1. a = 3 \/ a = 4 \/ a = 5 \/ a = 6 \/ a = 7 \/ a = 8 \/ a = 9 \/ a = 10
          \/ a = 11 \/ a = 12 \/ a = 13 \/ a = 14 \/ a = 15 \/ a = 16
    BY <1>2
  <2>2. /\ 2^3 >= 4 /\ 2^4 >= 4 /\ 2^5 >= 4 /\ 2^6 >= 4 /\ 2^7 >= 4 /\ 2^8 >= 4
        /\ 2^9 >= 4 /\ 2^10 >= 4 /\ 2^11 >= 4 /\ 2^12 >= 4 /\ 2^13 >= 4
        /\ 2^14 >= 4 /\ 2^15 >= 4 /\ 2^16 >= 4
    BY Z3
  <2>3. 2^a >= 4
    BY <2>1, <2>2, Zenon
  <2>4. 2^a \in Nat
    BY DoublingPositive
  <2> QED BY <2>3, <2>4
<1>3. CASE a = 0
  BY <1>1, <1>3
<1>4. CASE a = 1
  BY <1>1, <1>4
<1>5. CASE a = 2
  BY <1>1, <1>5
<1> QED BY <1>0, <1>2, <1>3, <1>4, <1>5

\* The backoff of a later pass is no shorter than that of the first, the second
\* or the third.
LEMMA BackoffAtLeast ==
  ASSUME NEW a \in Nat
  PROVE  /\ Backoff(0) <= Backoff(a)
         /\ a >= 1 => Backoff(1) <= Backoff(a)
         /\ a >= 2 => Backoff(2) <= Backoff(a)
<1> DEFINE shift == Least(a, MaxBackoffShift)
<1>1. /\ shift \in 0..16 /\ (a >= 1 => shift >= 1) /\ (a >= 2 => shift >= 2)
      /\ Least(0, MaxBackoffShift) = 0 /\ Least(1, MaxBackoffShift) = 1
      /\ Least(2, MaxBackoffShift) = 2
  BY LadderAssumption DEF Least
<1>2. 2^0 = 1 /\ 2^1 = 2 /\ 2^2 = 4
  BY Z3
<1>3. PICK p \in Nat : p = 2^shift
  BY <1>1, DoublingPositive
<1>4. p >= 1 /\ (a >= 1 => p >= 2) /\ (a >= 2 => p >= 4)
  BY <1>1, <1>3, DoublingAtLeast
<1>5. ASSUME NEW q \in Nat, q <= p
      PROVE  Least(CycleTime * q, BackoffMax) <= Least(CycleTime * p, BackoffMax)
  <2>1. CycleTime * q \in Nat /\ CycleTime * p \in Nat /\ CycleTime * q <= CycleTime * p
    BY <1>5, LadderAssumption
  <2>2. ASSUME NEW i \in Nat, NEW j \in Nat, i <= j
        PROVE  Least(i, BackoffMax) <= Least(j, BackoffMax)
    BY <2>2, LadderAssumption DEF Least
  <2> QED BY <2>1, <2>2
<1>6. /\ Backoff(a) = Least(CycleTime * p, BackoffMax)
      /\ Backoff(0) = Least(CycleTime * 1, BackoffMax)
      /\ Backoff(1) = Least(CycleTime * 2, BackoffMax)
      /\ Backoff(2) = Least(CycleTime * 4, BackoffMax)
  BY <1>1, <1>2, <1>3 DEF Backoff
<1> HIDE DEF shift
<1>7. Backoff(0) <= Backoff(a)
  BY <1>4, <1>5, <1>6
<1>8. a >= 1 => Backoff(1) <= Backoff(a)
  BY <1>4, <1>5, <1>6
<1>9. a >= 2 => Backoff(2) <= Backoff(a)
  BY <1>4, <1>5, <1>6
<1> QED BY <1>7, <1>8, <1>9

=============================================================================
