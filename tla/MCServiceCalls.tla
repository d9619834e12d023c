---------------------------- MODULE MCServiceCalls ----------------------------
(***************************************************************************)
(* ServiceCalls with two requests from elsewhere: one with a header of an  *)
(* unknown version, which reads like none but is forwarded like any, and   *)
(* one with a traceparent of which only the trace ID is read.              *)
(***************************************************************************)
EXTENDS ServiceCalls, TLC

CONSTANTS f1, t0, t1, t2, t3, t4, s1, s2, s3, s4

MCPadded == [s \in Hex16 |-> t0]
MCNewTraceID ==
  (s1 :> t1) @@ (s2 :> t2) @@ (s3 :> t3) @@ (s4 :> t4)
  @@ [s \in Hex16 |-> t0]

Honeycomb(version) ==
  <<[version |-> version, trace |-> t0, parent |-> f1, dataset |-> NoDataset,
     context |-> [decodes |-> TRUE, fields |-> NoFields], cut |-> "nowhere"]>>

Traceparent(parent, flags) ==
  [wellFormed |-> TRUE, version |-> 0, trace |-> t0, parent |-> parent, flags |-> flags]

MCForeignRequest ==
  [honeycomb: {Honeycomb(2)}, traceparent: {NoTraceparent}] \cup
  [honeycomb: {<<>>}, traceparent: {Traceparent(Zero16, 1)}]
===============================================================================
