------------------------------ MODULE MCBeeline -------------------------------
(***************************************************************************)
(* Beeline with words of three bits and configurations that differ in what *)
(* one Init leaves behind for the next.                                    *)
(***************************************************************************)
EXTENDS Beeline

CONSTANTS c1, c2, n1, n2, h1

Cfg(c, name, rate, hook, pprof) ==
  [Client |-> c, ServiceName |-> name, SampleRate |-> rate, SamplerHook |-> hook,
   PprofTagging |-> pprof]

A == Cfg(c1, n1, 2, NoHook, TRUE)
B == Cfg(c2, n2, 3, NoHook, FALSE)
C == Cfg(c1, n2, 0, h1, FALSE)
D == Cfg(c2, n1, 8, NoHook, TRUE)

MCConfig == {A, B, C, D}

MCPlan == {<<A, B>>, <<C, A>>, <<D>>}

Symmetry == Permutations(Goroutine)
===============================================================================
