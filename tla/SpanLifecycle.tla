---------------------------- MODULE SpanLifecycle -----------------------------
(***************************************************************************)
(* What package trace promises about the spans of a trace, without locks,  *)
(* goroutines or children lists.  A span is open from its creation; one    *)
(* that begins to close owes its event until every synchronous child that  *)
(* was created in time has finished; then it finishes, and its event has   *)
(* been delivered once, or never if the sampler dropped it.  SpanTree      *)
(* implements this specification (SpanTreeImplements).                     *)
(***************************************************************************)
EXTENDS Naturals

CONSTANTS Span, Root, NoSpan

VARIABLES
  status,     \* "absent", "open", "closing" or "finished"
  parent,     \* the parent of each span
  detached,   \* the spans a closing parent does not wait for
  delivered   \* how often the span's event was delivered

vars == <<status, parent, detached, delivered>>

TypeOK ==
  /\ status \in [Span -> {"absent", "open", "closing", "finished"}]
  /\ parent \in [Span -> Span \cup {NoSpan}]
  /\ detached \subseteq Span
  /\ delivered \in [Span -> Nat]

Init ==
  /\ status = [s \in Span |-> IF s = Root THEN "open" ELSE "absent"]
  /\ parent = [s \in Span |-> NoSpan]
  /\ detached = {}
  /\ delivered = [s \in Span |-> 0]

\* A child is detached when it is asynchronous, and when it comes too late.
Create(p, c) ==
  /\ status[p] # "absent"
  /\ status[c] = "absent"
  /\ status' = [status EXCEPT ![c] = "open"]
  /\ parent' = [parent EXCEPT ![c] = p]
  /\ \/ detached' = detached \cup {c}
     \/ status[p] = "open" /\ UNCHANGED detached
  /\ UNCHANGED delivered

Close(s) ==
  /\ status[s] = "open"
  /\ status' = [status EXCEPT ![s] = "closing"]
  /\ UNCHANGED <<parent, detached, delivered>>

Finish(s) ==
  /\ status[s] = "closing"
  /\ \A c \in Span \ detached : parent[c] = s => status[c] = "finished"
  /\ status' = [status EXCEPT ![s] = "finished"]
  /\ \/ delivered' = [delivered EXCEPT ![s] = @ + 1]
     \/ UNCHANGED delivered
  /\ UNCHANGED <<parent, detached>>

\* To close a span is to close, in the end, the attached spans below it.
Next ==
  \/ \E p, c \in Span : Create(p, c)
  \/ \E s \in Span : Close(s) \/ Finish(s)

Spec == Init /\ [][Next]_vars

\* A closing span does finish, and its attached children are closed for it.
AttachedClosed(s) == Close(s) /\ s \notin detached /\ parent[s] \in Span
                     /\ status[parent[s]] = "closing"

FairSpec ==
  Spec /\ \A s \in Span : WF_vars(Finish(s)) /\ WF_vars(AttachedClosed(s))
===============================================================================
