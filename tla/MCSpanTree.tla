------------------------------ MODULE MCSpanTree ------------------------------
(***************************************************************************)
(* SpanTree on small instances.  The spans other than the root, and the    *)
(* goroutines, are interchangeable: no definition of SpanTree names one.   *)
(***************************************************************************)
EXTENDS SpanTreeImplements, TLC

Symmetry == Permutations(Span \ {Root}) \cup Permutations(Thread)
===============================================================================
