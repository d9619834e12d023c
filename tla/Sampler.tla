------------------------------- MODULE Sampler --------------------------------
(***************************************************************************)
(* The deterministic sampler (sample/deterministic_sampler.go): which of   *)
(* the W values that the first word of a hash can have it keeps, for a     *)
(* sample rate that is wider than a word.  W is 2^32 in the code.          *)
(***************************************************************************)
EXTENDS Naturals

CONSTANT W

ASSUME WAssumption == W \in Nat /\ W > 1

Word == 0..W - 1

\* uint32(sampleRate) is zero: the division panics.
DividesByZero(rate) == rate % W = 0

NewDeterministicSampler(rate) ==
  [sampleRate |-> rate, upperBound |-> (W - 1) \div (rate % W)]

\* v is the first word of the hash of the determinant.
Sample(ds, v) == ds.sampleRate = 1 \/ v <= ds.upperBound
===============================================================================
