---------------------------- MODULE MCSpanChildren ----------------------------
(***************************************************************************)
(* SpanChildren on small instances: the children are interchangeable.      *)
(***************************************************************************)
EXTENDS SpanChildren, TLC

Symmetry == Permutations(Child)
===============================================================================
