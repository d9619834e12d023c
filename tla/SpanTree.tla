------------------------------- MODULE SpanTree -------------------------------
(***************************************************************************)
(* The spans of one in-process trace, as package trace (trace/trace.go)    *)
(* implements them: any number of goroutines create children, add fields   *)
(* and rollups, and call Send on the spans of one tree, at any time and in *)
(* any order.  Sending a span holds its sendLock while it sends the        *)
(* unsent synchronous children it finds, and then dispatches the span's    *)
(* event to libhoney.                                                      *)
(*                                                                         *)
(* A goroutine inside Send is a chain of frames, one per span of a path    *)
(* that leads down from the span it called Send on.  The chain is not      *)
(* stored: base[t] is its first span, at[t] its last, every frame but the  *)
(* last waits in the loop over childrenToSend, and a frame returns to the  *)
(* frame of its parent.                                                    *)
(*                                                                         *)
(* Data is abstracted to what the properties tell apart: the trace-level   *)
(* fields are the number of AddField calls made on the trace (a copy of    *)
(* the map is a prefix of those calls), a rollup is the contributions      *)
(* summed in it, numbered by the trace (so that those summed in the        *)
(* trace's are a prefix too), and the fields of a span are the number of   *)
(* AddField calls that reached its event.  The order of a children slice   *)
(* is abstracted to a set; the slice itself is the subject of module       *)
(* SpanChildren.                                                           *)
(***************************************************************************)
EXTENDS Naturals, FiniteSets

CONSTANTS
  Span,         \* the spans the process may create in this trace
  Root,         \* the root span
  Thread,       \* the goroutines
  NoSpan,       \* nil, as a *Span
  NoThread,     \* the owner of a free lock
  MaxFields,    \* bound: calls of Trace.AddField / Span.AddTraceField
  MaxRollups,   \* bound: calls of Span.AddRollupField
  MaxAdds       \* bound: calls of Span.AddField, per span

ASSUME RootAssumption == Root \in Span /\ NoSpan \notin Span
ASSUME ThreadAssumption == NoThread \notin Thread
ASSUME BoundAssumption ==
  MaxFields \in Nat /\ MaxRollups \in Nat /\ MaxAdds \in Nat

VARIABLES
  created,        \* the spans that exist
  parent,         \* Span.parent
  isAsync,        \* Span.isAsync
  isSent,         \* Span.isSent
  children,       \* Span.children, without its order
  sendLock,       \* the holder of Span.sendLock
  eventLock,      \* the holder of Span.eventLock while hooks run
  childrenToSend, \* the local of sendLocked, as collected
  unvisited,      \* the part of childrenToSend the loop has not visited
  event,          \* Span.ev, abstracted
  sends,          \* how often SendPresampled was called for the span
  traceFields,    \* Trace.traceLevelFields, as a number of writes
  traceRollup,    \* Trace.rollupFields: it has the contributions up to this one
  spanRollup,     \* Span.rollupFields, as the set of its contributions
  adding,         \* the contribution a goroutine has in hand
  pc, at, base,   \* the control of each goroutine
  \* History: never read by a guard or by another variable.
  snapped,        \* the spans whose childrenToSend has been collected
  late,           \* the spans created after their parent was snapped
  depth,          \* distance from the root
  sampled         \* the event's fields as the sampler saw them

treeVars == <<created, parent, isAsync, children, late, depth>>
lockVars == <<sendLock, eventLock>>
cascadeVars == <<childrenToSend, unvisited, snapped>>
dataVars == <<traceFields, traceRollup, spanRollup, adding>>
controlVars == <<pc, at, base>>
vars == <<treeVars, isSent, lockVars, cascadeVars, event, sends, sampled,
          dataVars, controlVars>>

-------------------------------------------------------------------------------
(* Where a goroutine can be.  "acquire": in Send or sendByParent, before   *)
(* the lock.  "rollup": between the halves of AddRollupField.  The rest    *)
(* are the stages of sendLocked and send, in order.                        *)
Sending == {"finish", "snapshot", "cascade", "fields", "classify", "sample",
            "hooks", "mark", "unlink"}
Stage == Sending \cup {"idle", "acquire", "rollup"}

SpanType == {"none", "root", "async", "leaf", "mid"}

Event == [duration: BOOLEAN, byParent: BOOLEAN, added: Nat, rollup: SUBSET Nat,
          fields: Nat, total: Nat, type: SpanType]

NewEvent == [duration |-> FALSE, byParent |-> FALSE, added |-> 0,
             rollup |-> {}, fields |-> 0, total |-> 0, type |-> "none"]

Init ==
  /\ created = {Root}
  /\ parent = [s \in Span |-> NoSpan]
  /\ isAsync = [s \in Span |-> FALSE]
  /\ isSent = [s \in Span |-> FALSE]
  /\ children = [s \in Span |-> {}]
  /\ sendLock = [s \in Span |-> NoThread]
  /\ eventLock = [s \in Span |-> NoThread]
  /\ childrenToSend = [s \in Span |-> {}]
  /\ unvisited = [s \in Span |-> {}]
  /\ event = [s \in Span |-> NewEvent]
  /\ sends = [s \in Span |-> 0]
  /\ traceFields = 0
  /\ traceRollup = 0
  /\ spanRollup = [s \in Span |-> {}]
  /\ adding = [t \in Thread |-> 0]
  /\ pc = [t \in Thread |-> "idle"]
  /\ at = [t \in Thread |-> NoSpan]
  /\ base = [t \in Thread |-> NoSpan]
  /\ snapped = {}
  /\ late = {}
  /\ depth = [s \in Span |-> 0]
  /\ sampled = [s \in Span |-> 0]

-------------------------------------------------------------------------------
(* The control of a goroutine.                                             *)

Goto(t, stage) ==
  /\ pc' = [pc EXCEPT ![t] = stage]
  /\ UNCHANGED <<at, base>>

\* The innermost frame returns: to the user from the span Send was called
\* on, else to the loop in the frame of the parent.
Return(t) ==
  \/ /\ at[t] = base[t]
     /\ pc' = [pc EXCEPT ![t] = "idle"]
     /\ at' = [at EXCEPT ![t] = NoSpan]
     /\ base' = [base EXCEPT ![t] = NoSpan]
  \/ /\ at[t] # base[t]
     /\ pc' = [pc EXCEPT ![t] = "cascade"]
     /\ at' = [at EXCEPT ![t] = parent[at[t]]]
     /\ UNCHANGED base

-------------------------------------------------------------------------------
(* Seeded faults.  Each is one of the definitions below with a plausible   *)
(* bug in it; none is part of Next.  README.md says which property each    *)
(* one breaks.                                                             *)

\* AddField without the event lock.
AddFieldUnlocked(t, s) ==
  /\ pc[t] = "idle"
  /\ s \in created
  /\ sends[s] = 0
  /\ event[s].added < MaxAdds
  /\ event' = [event EXCEPT ![s].added = @ + 1]
  /\ UNCHANGED <<treeVars, isSent, lockVars, cascadeVars, sends, sampled,
                 dataVars, controlVars>>

\* addRollupField without rollupLock: an update may be lost.
AddTraceRollupRacy(t, s) ==
  /\ pc[t] = "idle"
  /\ s \in created
  /\ traceRollup < MaxRollups
  /\ traceRollup' \in {traceRollup, traceRollup + 1}
  /\ adding' = [adding EXCEPT ![t] = traceRollup + 1]
  /\ pc' = [pc EXCEPT ![t] = "rollup"]
  /\ at' = [at EXCEPT ![t] = s]
  /\ UNCHANGED <<treeVars, isSent, lockVars, cascadeVars, event, sends,
                 sampled, traceFields, spanRollup, base>>

\* isSent is not looked at under the lock.
AcquireUnchecked(t) ==
  /\ pc[t] = "acquire"
  /\ sendLock[at[t]] = NoThread
  /\ sendLock' = [sendLock EXCEPT ![at[t]] = t]
  /\ event' = [event EXCEPT ![at[t]].byParent = at[t] # base[t]]
  /\ Goto(t, "finish")
  /\ UNCHANGED <<treeVars, isSent, eventLock, cascadeVars, sends, sampled,
                 dataVars>>

\* Send checks isSent but takes no lock.
AcquireUnlocked(t) ==
  /\ pc[t] = "acquire"
  /\ ~isSent[at[t]]
  /\ event' = [event EXCEPT ![at[t]].byParent = at[t] # base[t]]
  /\ Goto(t, "finish")
  /\ UNCHANGED <<treeVars, isSent, lockVars, cascadeVars, sends, sampled,
                 dataVars>>

\* Asynchronous children are queued as well.
SnapshotAll(t) ==
  LET s == at[t] IN
  /\ pc[t] = "snapshot"
  /\ childrenToSend' = [childrenToSend EXCEPT ![s] = children[s]]
  /\ unvisited' = [unvisited EXCEPT ![s] = children[s]]
  /\ snapped' = snapped \cup {s}
  /\ Goto(t, "cascade")
  /\ UNCHANGED <<treeVars, isSent, lockVars, event, sends, sampled, dataVars>>

\* The loop may stop before it has visited every child.
ChildrenSentEarly(t) ==
  /\ pc[t] = "cascade"
  /\ Goto(t, "fields")
  /\ UNCHANGED <<treeVars, isSent, lockVars, cascadeVars, event, sends,
                 sampled, dataVars>>

\* A span with only asynchronous children open counts as a leaf.
TypeOfSyncOnly(s) ==
  IF s = Root THEN "root"
  ELSE IF isAsync[s] THEN "async"
  ELSE IF {c \in children[s] : ~isAsync[c]} = {} THEN "leaf" ELSE "mid"

\* A dropped event is offered to the sampler again.
DropRetries(t) ==
  /\ pc[t] = "hooks"
  /\ eventLock' = [eventLock EXCEPT ![at[t]] = NoThread]
  /\ Goto(t, "sample")
  /\ UNCHANGED <<treeVars, isSent, sendLock, cascadeVars, event, sends,
                 sampled, dataVars>>

\* removeChildSpan removes the siblings as well.
UnlinkSiblings(t) ==
  /\ pc[t] = "unlink"
  /\ children' = [s \in Span |->
       IF s = parent[at[t]] THEN {} ELSE children[s]]
  /\ sendLock' = [sendLock EXCEPT ![at[t]] = NoThread]
  /\ Return(t)
  /\ UNCHANGED <<created, parent, isAsync, late, depth, isSent, eventLock,
                 cascadeVars, event, sends, sampled, dataVars>>

\* removeChildSpan does not find the child.
UnlinkNothing(t) ==
  /\ pc[t] = "unlink"
  /\ sendLock' = [sendLock EXCEPT ![at[t]] = NoThread]
  /\ Return(t)
  /\ UNCHANGED <<treeVars, isSent, eventLock, cascadeVars, event, sends,
                 sampled, dataVars>>

\* A cascaded Send returns past the frame that called it.
UnlinkUp(t) ==
  /\ pc[t] = "unlink"
  /\ sendLock' = [sendLock EXCEPT ![at[t]] = NoThread]
  /\ pc' = [pc EXCEPT ![t] = "cascade"]
  /\ at' = [at EXCEPT ![t] = parent[at[t]]]
  /\ UNCHANGED <<treeVars, isSent, eventLock, cascadeVars, event, sends,
                 sampled, dataVars, base>>

\* A path out of Send that does not unlock.
UnlinkLocked(t) ==
  /\ pc[t] = "unlink"
  /\ children' = [s \in Span |->
       IF s = parent[at[t]] THEN children[s] \ {at[t]} ELSE children[s]]
  /\ Return(t)
  /\ UNCHANGED <<created, parent, isAsync, late, depth, isSent, lockVars,
                 cascadeVars, event, sends, sampled, dataVars>>

-------------------------------------------------------------------------------
(* Calls that do not send.                                                 *)

\* createChildSpan: the parent's isSent and sendLock are not consulted.
CreateChild(t, p, c, async) ==
  /\ pc[t] = "idle"
  /\ p \in created
  /\ c \in Span \ created
  /\ created' = created \cup {c}
  /\ parent' = [parent EXCEPT ![c] = p]
  /\ isAsync' = [isAsync EXCEPT ![c] = async]
  /\ children' = [children EXCEPT ![p] = @ \cup {c}]
  /\ late' = IF p \in snapped THEN late \cup {c} ELSE late
  /\ depth' = [depth EXCEPT ![c] = depth[p] + 1]
  /\ UNCHANGED <<isSent, lockVars, cascadeVars, event, sends, sampled,
                 dataVars, controlVars>>

\* Span.AddField and AddFields wait for the event lock; libhoney ignores
\* a field added to an event that was already sent.
AddField(t, s) ==
  /\ pc[t] = "idle"
  /\ s \in created
  /\ eventLock[s] = NoThread
  /\ sends[s] = 0
  /\ event[s].added < MaxAdds
  /\ event' = [event EXCEPT ![s].added = @ + 1]
  /\ UNCHANGED <<treeVars, isSent, lockVars, cascadeVars, sends, sampled,
                 dataVars, controlVars>>

\* Trace.AddField, also reached by Span.AddTraceField.
AddTraceField(t) ==
  /\ pc[t] = "idle"
  /\ traceFields < MaxFields
  /\ traceFields' = traceFields + 1
  /\ UNCHANGED <<treeVars, isSent, lockVars, cascadeVars, event, sends,
                 sampled, traceRollup, spanRollup, adding, controlVars>>

\* Span.AddRollupField, first half: Trace.addRollupField.
AddTraceRollup(t, s) ==
  /\ pc[t] = "idle"
  /\ s \in created
  /\ traceRollup < MaxRollups
  /\ traceRollup' = traceRollup + 1
  /\ adding' = [adding EXCEPT ![t] = traceRollup + 1]
  /\ pc' = [pc EXCEPT ![t] = "rollup"]
  /\ at' = [at EXCEPT ![t] = s]
  /\ UNCHANGED <<treeVars, isSent, lockVars, cascadeVars, event, sends,
                 sampled, traceFields, spanRollup, base>>

\* Span.AddRollupField, second half: the span's own sum.
AddSpanRollup(t) ==
  /\ pc[t] = "rollup"
  /\ spanRollup' = [spanRollup EXCEPT ![at[t]] = @ \cup {adding[t]}]
  /\ adding' = [adding EXCEPT ![t] = 0]
  /\ pc' = [pc EXCEPT ![t] = "idle"]
  /\ at' = [at EXCEPT ![t] = NoSpan]
  /\ UNCHANGED <<treeVars, isSent, lockVars, cascadeVars, event, sends,
                 sampled, traceFields, traceRollup, base>>

-------------------------------------------------------------------------------
(* Sending.                                                                *)

\* Span.Send is called.
CallSend(t, s) ==
  /\ pc[t] = "idle"
  /\ s \in created
  /\ pc' = [pc EXCEPT ![t] = "acquire"]
  /\ at' = [at EXCEPT ![t] = s]
  /\ base' = [base EXCEPT ![t] = s]
  /\ UNCHANGED <<treeVars, isSent, lockVars, cascadeVars, event, sends,
                 sampled, dataVars>>

\* Trace.Send reads the root's isSent without a lock.  A stale FALSE leads
\* to the call CallSend(t, Root) already allows.
TraceSend(t) == ~isSent[Root] /\ CallSend(t, Root)

\* Send and sendByParent: the lock is free but the span has been sent.
SkipSent(t) ==
  /\ pc[t] = "acquire"
  /\ sendLock[at[t]] = NoThread
  /\ isSent[at[t]]
  /\ Return(t)
  /\ UNCHANGED <<treeVars, isSent, lockVars, cascadeVars, event, sends,
                 sampled, dataVars>>

\* Send, or sendByParent when a frame below cascaded to this span.
Acquire(t) ==
  /\ pc[t] = "acquire"
  /\ sendLock[at[t]] = NoThread
  /\ ~isSent[at[t]]
  /\ sendLock' = [sendLock EXCEPT ![at[t]] = t]
  /\ event' = [event EXCEPT ![at[t]].byParent = at[t] # base[t]]
  /\ Goto(t, "finish")
  /\ UNCHANGED <<treeVars, isSent, eventLock, cascadeVars, sends, sampled,
                 dataVars>>

\* sendLocked: duration, IDs and the span's own rollups go to the event.
Finish(t) ==
  /\ pc[t] = "finish"
  /\ event' = [event EXCEPT ![at[t]].duration = TRUE,
                            ![at[t]].rollup = spanRollup[at[t]]]
  /\ Goto(t, "snapshot")
  /\ UNCHANGED <<treeVars, isSent, lockVars, cascadeVars, sends, sampled,
                 dataVars>>

\* sendLocked: under childrenLock, the synchronous children are queued.
Snapshot(t) ==
  LET s == at[t]
      queue == {c \in children[s] : ~isAsync[c]} IN
  /\ pc[t] = "snapshot"
  /\ childrenToSend' = [childrenToSend EXCEPT ![s] = queue]
  /\ unvisited' = [unvisited EXCEPT ![s] = queue]
  /\ snapped' = snapped \cup {s}
  /\ Goto(t, "cascade")
  /\ UNCHANGED <<treeVars, isSent, lockVars, event, sends, sampled, dataVars>>

\* sendLocked: the loop over childrenToSend calls child.sendByParent().
SendChild(t) ==
  /\ pc[t] = "cascade"
  /\ \E c \in unvisited[at[t]] :
       /\ unvisited' = [unvisited EXCEPT ![at[t]] = @ \ {c}]
       /\ at' = [at EXCEPT ![t] = c]
  /\ pc' = [pc EXCEPT ![t] = "acquire"]
  /\ UNCHANGED <<treeVars, isSent, lockVars, childrenToSend, snapped, event,
                 sends, sampled, dataVars, base>>

\* The loop is over; send() begins.
ChildrenSent(t) ==
  /\ pc[t] = "cascade"
  /\ unvisited[at[t]] = {}
  /\ Goto(t, "fields")
  /\ UNCHANGED <<treeVars, isSent, lockVars, cascadeVars, event, sends,
                 sampled, dataVars>>

\* send: the trace-level fields are copied to the event.
CopyTraceFields(t) ==
  /\ pc[t] = "fields"
  /\ event' = [event EXCEPT ![at[t]].fields = traceFields]
  /\ Goto(t, "classify")
  /\ UNCHANGED <<treeVars, isSent, lockVars, cascadeVars, sends, sampled,
                 dataVars>>

\* send: under childrenLock.  "root" stands for "subroot" as well: which of
\* the two is fixed when the trace is created.
TypeOf(s) ==
  IF s = Root THEN "root"
  ELSE IF isAsync[s] THEN "async"
  ELSE IF children[s] = {} THEN "leaf" ELSE "mid"

\* send: the span type, and the trace's rollups on the root.
Classify(t) ==
  /\ pc[t] = "classify"
  /\ event' = [event EXCEPT
       ![at[t]].type = TypeOf(at[t]),
       ![at[t]].total = IF at[t] = Root THEN traceRollup ELSE @]
  /\ Goto(t, "sample")
  /\ UNCHANGED <<treeVars, isSent, lockVars, cascadeVars, sends, sampled,
                 dataVars>>

\* send: the event lock is taken and the sampler hook, or the default
\* sampler, decides.
Sample(t) ==
  /\ pc[t] = "sample"
  /\ eventLock[at[t]] = NoThread
  /\ eventLock' = [eventLock EXCEPT ![at[t]] = t]
  /\ sampled' = [sampled EXCEPT ![at[t]] = event[at[t]].added]
  /\ Goto(t, "hooks")
  /\ UNCHANGED <<treeVars, isSent, sendLock, cascadeVars, event, sends,
                 dataVars>>

\* send: the sampler kept the event; presend hook, then SendPresampled.
Dispatch(t) ==
  /\ pc[t] = "hooks"
  /\ sends' = [sends EXCEPT ![at[t]] = @ + 1]
  /\ eventLock' = [eventLock EXCEPT ![at[t]] = NoThread]
  /\ Goto(t, "mark")
  /\ UNCHANGED <<treeVars, isSent, sendLock, cascadeVars, event, sampled,
                 dataVars>>

\* send: the sampler dropped the event.
Drop(t) ==
  /\ pc[t] = "hooks"
  /\ eventLock' = [eventLock EXCEPT ![at[t]] = NoThread]
  /\ Goto(t, "mark")
  /\ UNCHANGED <<treeVars, isSent, sendLock, cascadeVars, event, sends,
                 sampled, dataVars>>

\* sendLocked: isSent = true.
Mark(t) ==
  /\ pc[t] = "mark"
  /\ isSent' = [isSent EXCEPT ![at[t]] = TRUE]
  /\ Goto(t, "unlink")
  /\ UNCHANGED <<treeVars, lockVars, cascadeVars, event, sends, sampled,
                 dataVars>>

\* sendLocked: parent.removeChildSpan; the deferred Unlock; the return.
Unlink(t) ==
  /\ pc[t] = "unlink"
  /\ children' = [s \in Span |->
       IF s = parent[at[t]] THEN children[s] \ {at[t]} ELSE children[s]]
  /\ sendLock' = [sendLock EXCEPT ![at[t]] = NoThread]
  /\ Return(t)
  /\ UNCHANGED <<created, parent, isAsync, late, depth, isSent, eventLock,
                 cascadeVars, event, sends, sampled, dataVars>>

-------------------------------------------------------------------------------
\* What the user's code may call, in any order, on any goroutine.
Call(t) ==
  \/ \E p, c \in Span, async \in BOOLEAN : CreateChild(t, p, c, async)
  \/ \E s \in Span : AddField(t, s)
  \/ AddTraceField(t)
  \/ \E s \in Span : AddTraceRollup(t, s)
  \/ \E s \in Span : CallSend(t, s)
  \/ TraceSend(t)

\* What the package then does.
Step(t) ==
  \/ AddSpanRollup(t)
  \/ SkipSent(t)
  \/ Acquire(t)
  \/ Finish(t)
  \/ Snapshot(t)
  \/ SendChild(t)
  \/ ChildrenSent(t)
  \/ CopyTraceFields(t)
  \/ Classify(t)
  \/ Sample(t)
  \/ Dispatch(t)
  \/ Drop(t)
  \/ Mark(t)
  \/ Unlink(t)

Next == \E t \in Thread : Call(t) \/ Step(t)

Spec == Init /\ [][Next]_vars

\* The Go scheduler runs every runnable goroutine; nothing obliges the user's
\* code to make a call.
FairSpec == Spec /\ \A t \in Thread : WF_vars(Step(t))
-------------------------------------------------------------------------------
(* Properties.                                                             *)

\* The variables have their types, the locks and the positions of the
\* goroutines those of the code (trace.go, struct Span).
VariableTypes ==
  /\ created \subseteq Span /\ Root \in created
  /\ parent \in [Span -> Span \cup {NoSpan}]
  /\ isAsync \in [Span -> BOOLEAN]
  /\ isSent \in [Span -> BOOLEAN]
  /\ children \in [Span -> SUBSET Span]
  /\ sendLock \in [Span -> Thread \cup {NoThread}]
  /\ eventLock \in [Span -> Thread \cup {NoThread}]
  /\ childrenToSend \in [Span -> SUBSET Span]
  /\ unvisited \in [Span -> SUBSET Span]
  /\ event \in [Span -> Event]
  /\ sends \in [Span -> Nat]
  /\ traceFields \in Nat
  /\ traceRollup \in Nat
  /\ spanRollup \in [Span -> SUBSET Nat]
  /\ adding \in [Thread -> Nat]
  /\ pc \in [Thread -> Stage]
  /\ DOMAIN at = Thread
  /\ base \in [Thread -> Span \cup {NoSpan}]
  /\ snapped \subseteq Span
  /\ late \subseteq Span
  /\ depth \in [Span -> Nat]
  /\ sampled \in [Span -> Nat]

\* The same, and a goroutine inside a call is at a span: the frame that
\* Return resumes is always one of the chain.
TypeOK ==
  /\ VariableTypes
  /\ \A t \in Thread : IF pc[t] = "idle" THEN at[t] = NoSpan
                                         ELSE at[t] \in created

\* Some goroutine is past the cascade of s, or s has been sent.
CascadeOver(s) ==
  \/ isSent[s]
  \/ \E t \in Thread :
       at[t] = s /\ pc[t] \in {"fields", "classify", "sample", "hooks", "mark"}

\* A span is handed to libhoney at most once, whoever sends it: the user,
\* concurrent goroutines, and the cascade of its parent (Send, sendByParent).
SentOnce == \A s \in Span : sends[s] <= 1

\* When a span's own dispatch begins, every synchronous child it had when it
\* collected childrenToSend has been sent, by the cascade or by others
\* (sendLocked; "the spans finish before their parents").
SyncChildrenGoFirst ==
  \A c \in created \ (late \cup {Root}) :
    ~isAsync[c] /\ CascadeOver(parent[c]) => isSent[c]

\* meta.sent_by_parent is only ever set on a synchronous span that its parent
\* had queued: asynchronous spans, and what hangs below them, outlive the
\* parent's Send (sendLocked, sendByParent).
AsyncOutlivesParent ==
  \A s \in created :
    event[s].byParent => ~isAsync[s] /\ s \in childrenToSend[parent[s]]

\* A span is in its parent's children from its creation until its Send has
\* marked it sent: it is neither lost nor kept (createChildSpan,
\* removeChildSpan).
LinkedUntilSent ==
  \A s \in created \ {Root} :
    s \in children[parent[s]]
      <=> (~isSent[s] \/ \E t \in Thread : at[t] = s /\ pc[t] = "unlink")

\* sendLocks are taken from the root downwards: a goroutine that waits for
\* the sendLock of a span holds sendLocks of shallower spans only, so no two
\* cascades wait for each other (Send, sendByParent).
LocksGoDown ==
  \A t \in Thread, s \in Span :
    pc[t] = "acquire" /\ sendLock[s] = t => depth[s] < depth[at[t]]

\* A span reported as a leaf has no open child but those created after it
\* looked: every other child, asynchronous or not, has been sent (send,
\* "classify span type").
LeafHasNoOpenChild ==
  \A c \in created \ (late \cup {Root}) :
    event[parent[c]].type = "leaf" => isSent[c]

\* What is dispatched is what the sampler saw: no AddField slips in between
\* the sampler hook and SendPresampled (send, eventLock).
SampledIsSent ==
  \A s \in Span : sends[s] > 0 => event[s].added = sampled[s]

\* A trace-level field that a queued child carries is carried by the parent
\* too: the parent copies the trace-level fields after the cascade (send,
\* "as late as possible").
FieldsReachParents ==
  \A p \in created : CascadeOver(p)
    /\ ~(\E t \in Thread : at[t] = p /\ pc[t] = "fields")
       => \A c \in childrenToSend[p] : event[c].fields <= event[p].fields

\* p and the spans its Send sent or waited for, through any number of cascades:
\* the least set with p and whatever its members have queued.
CascadeOf(p) ==
  {c \in Span : \A S \in SUBSET Span :
     p \in S /\ (\A s \in S : childrenToSend[s] \subseteq S) => c \in S}

\* The rollup total on the root's event has each contribution that is on the
\* root's own event or on one of the spans below it: AddRollupField adds to the
\* trace before it adds to the span, and the root reads the total after its
\* cascade (AddRollupField, sendLocked, send).
RollupCovers ==
  sends[Root] > 0 =>
    \A s \in CascadeOf(Root) : event[s].rollup \subseteq 1 .. event[Root].total

\* Every call of Send returns (Send, sendByParent).
SendReturns ==
  \A t \in Thread : pc[t] = "acquire" ~> pc[t] = "idle"
===============================================================================
