---------------------------- MODULE SamplerProofs ------------------------------
(***************************************************************************)
(* What the deterministic sampler keeps, at every width of a word.         *)
(***************************************************************************)
EXTENDS Sampler, TLAPS

LEMMA Quotient ==
  ASSUME NEW a \in Nat, NEW b \in Nat, b > 0
  PROVE  /\ a \div b \in Nat
         /\ b * (a \div b) <= a
         /\ a < b * (a \div b) + b
  OBVIOUS

\* A quotient is the largest number that the divisor fits into so often.
LEMMA QuotientLargest ==
  ASSUME NEW a \in Nat, NEW b \in Nat, b > 0, NEW q \in Nat, b * q <= a
  PROVE  q <= a \div b
<1> DEFINE d == a \div b
<1>1. d \in Nat /\ a < b * d + b
  BY Quotient
<1> HIDE DEF d
<1>2. ASSUME d + 1 <= q PROVE FALSE
  <2>1. b * (d + 1) <= b * q
    BY <1>1, <1>2, SMT
  <2>2. b * (d + 1) = b * d + b
    BY <1>1, SMT
  <2> QED
    BY <1>1, <2>1, <2>2, SMT
<1> QED
  BY <1>1, <1>2 DEF d

LEMMA QuotientsFall ==
  ASSUME NEW a \in Nat, NEW b \in Nat, NEW c \in Nat, b > 0, b <= c
  PROVE  a \div c <= a \div b
<1> DEFINE q == a \div c
<1>1. q \in Nat /\ c * q <= a
  BY Quotient
<1> HIDE DEF q
<1>2. b * q <= c * q
  BY <1>1, SMT
<1>3. b * q \in Nat /\ c * q \in Nat
  BY <1>1, SMT
<1>4. b * q <= a
  BY <1>1, <1>2, <1>3, SMT
<1> QED
  BY <1>1, <1>4, QuotientLargest DEF q

\* What is kept at a rate is kept at each smaller one, so traces that several
\* services sample at their own rates are kept whole down the chain
\* (NewDeterministicSampler, Sample).
THEOREM NestedRates ==
  ASSUME NEW r \in Nat, NEW s \in Nat, r > 0, r <= s, s < W, NEW v \in Word,
         Sample(NewDeterministicSampler(s), v)
  PROVE  Sample(NewDeterministicSampler(r), v)
<1>0. W \in Nat /\ W > 1 /\ r < W
  BY WAssumption
<1>1. r % W = r /\ s % W = s
  BY <1>0
<1>2. CASE s = 1
  BY <1>2 DEF Sample, NewDeterministicSampler
<1>3. CASE s # 1
  <2>1. v <= (W - 1) \div s
    BY <1>1, <1>3 DEF Sample, NewDeterministicSampler
  <2>2. (W - 1) \div s <= (W - 1) \div r
    BY <1>0, QuotientsFall
  <2>3. (W - 1) \div s \in Nat /\ (W - 1) \div r \in Nat /\ v \in Nat
    BY <1>0, Quotient DEF Word
  <2>4. v <= (W - 1) \div r
    BY <2>1, <2>2, <2>3
  <2> QED
    BY <1>1, <2>4 DEF Sample, NewDeterministicSampler
<1> QED
  BY <1>2, <1>3

\* Of the W words a hash can have, a sampler keeps one in rate, as nearly as
\* whole numbers allow: its bound makes the kept ones upperBound + 1
\* ("the largest possible value divided by the sample rate").
THEOREM ShareKept ==
  ASSUME NEW r \in Nat, r > 0, r < W
  PROVE  LET kept == NewDeterministicSampler(r).upperBound + 1 IN
         /\ kept \in 1..W
         /\ r * (kept - 1) < W /\ W <= r * kept
<1> DEFINE q == (W - 1) \div r
<1>0. W \in Nat /\ W > 1 /\ r % W = r
  BY WAssumption
<1>1. q \in Nat /\ r * q <= W - 1 /\ W - 1 < r * q + r
  BY <1>0, Quotient
<1>2. NewDeterministicSampler(r).upperBound = q
  BY <1>0 DEF NewDeterministicSampler
<1> HIDE DEF q
<1>3. r * (q + 1) = r * q + r /\ r * q \in Nat
  BY <1>1, SMT
<1>4. q <= r * q
  BY <1>1, SMT
<1>5. (q + 1) - 1 = q
  BY <1>1
<1> QED
  BY <1>0, <1>1, <1>2, <1>3, <1>4, <1>5
===============================================================================
