-------------------------- MODULE SpanTreeImplements --------------------------
(***************************************************************************)
(* SpanTree implements SpanLifecycle.  A span closes when its              *)
(* childrenToSend is collected, and finishes when its event is dispatched  *)
(* or dropped, before isSent says so.                                      *)
(***************************************************************************)
EXTENDS SpanTree

Decided(s) ==
  isSent[s] \/ \E t \in Thread : at[t] = s /\ pc[t] = "mark"

Status(s) ==
  IF s \notin created THEN "absent"
  ELSE IF Decided(s) THEN "finished"
  ELSE IF s \in snapped THEN "closing" ELSE "open"

Lifecycle == INSTANCE SpanLifecycle WITH
  status <- [s \in Span |-> Status(s)],
  detached <- {s \in created : isAsync[s] \/ s \in late},
  delivered <- sends

\* Locks, cascades and concurrent Sends on one tree add up to the promise of
\* SpanLifecycle (createChildSpan, Send, sendByParent, sendLocked, send).
ImplementsLifecycle == Lifecycle!Spec

\* The same with its fairness: a closing span finishes, and the synchronous
\* spans below it are closed for it.
ImplementsFairLifecycle == Lifecycle!FairSpec
===============================================================================
