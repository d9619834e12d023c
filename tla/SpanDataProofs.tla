---------------------------- MODULE SpanDataProofs -----------------------------
(***************************************************************************)
(* What the events of SpanTree carry, for every set of spans and           *)
(* goroutines and every value of the bounds.                               *)
(***************************************************************************)
EXTENDS SpanTreeProofs

\* While the hooks run on a span, its event lock is theirs.
HookInv ==
  \A t \in Thread : pc[t] = "hooks" =>
    eventLock[at[t]] = t /\ event[at[t]].added = sampled[at[t]]

SampledInv == SampledIsSent /\ HookInv

\* No event has more trace-level fields than the trace.
FieldsInv ==
  /\ \A s \in Span : event[s].fields <= traceFields
  /\ FieldsReachParents

-------------------------------------------------------------------------------
(* The sampler and SendPresampled.                                         *)

\* The steps that change neither locks, samples, counts nor who is in the hooks,
\* and add no field.
LEMMA SampledElsewhere ==
  ASSUME SampledInv, sends' = sends, eventLock' = eventLock, sampled' = sampled,
         \A s \in Span : event'[s].added = event[s].added,
         \A u \in Thread : pc'[u] = "hooks" => pc[u] = "hooks" /\ at'[u] = at[u] /\ at[u] \in Span
  PROVE  SampledInv'
  BY DEF SampledInv, SampledIsSent, HookInv

LEMMA SampledStep == IInv /\ SampledInv /\ [Next]_vars => SampledInv'
<1> SUFFICES ASSUME IInv, SampledInv, [Next]_vars PROVE SampledInv'
  OBVIOUS
<1>0. /\ \A u \in Thread : pc[u] = "hooks" => at[u] \in Span
      /\ pc \in [Thread -> Stage] /\ DOMAIN at = Thread
      /\ event \in [Span -> Event] /\ sends \in [Span -> Nat]
      /\ sampled \in [Span -> Nat] /\ eventLock \in [Span -> Thread \cup {NoThread}]
  BY RootAssumption DEF IInv, TypeOK, VariableTypes, Sending
<1>1. CASE UNCHANGED vars
  BY <1>0, <1>1, SampledElsewhere
  DEF vars, treeVars, lockVars, cascadeVars, dataVars, controlVars
<1>2. ASSUME NEW t \in Thread, Call(t) PROVE SampledInv'
  <2>1. ASSUME NEW s \in Span, AddField(t, s) PROVE SampledInv'
    <3>1. eventLock[s] = NoThread /\ sends[s] = 0
      BY <2>1 DEF AddField
    <3>2. \A r \in Span \ {s} : event'[r] = event[r]
      BY <2>1 DEF AddField
    <3>3. \A u \in Thread : pc[u] = "hooks" => at[u] # s
      BY <3>1, ThreadAssumption DEF SampledInv, HookInv
    <3> QED
      BY <1>0, <2>1, <3>1, <3>2, <3>3
      DEF AddField, lockVars, controlVars, SampledInv, SampledIsSent, HookInv
  <2>2. CASE \/ \E p, c \in Span, async \in BOOLEAN : CreateChild(t, p, c, async)
             \/ AddTraceField(t)
             \/ \E s \in Span : AddTraceRollup(t, s)
             \/ \E s \in Span : CallSend(t, s)
             \/ TraceSend(t)
    <3>1. /\ sends' = sends /\ eventLock' = eventLock /\ sampled' = sampled
          /\ event' = event
      BY <2>2
      DEF CreateChild, AddTraceField, AddTraceRollup, CallSend, TraceSend,
          lockVars, dataVars, controlVars
    <3>2. \A u \in Thread : pc'[u] = "hooks" => pc[u] = "hooks" /\ at'[u] = at[u]
      BY <1>0, <2>2
      DEF CreateChild, AddTraceField, AddTraceRollup, CallSend, TraceSend,
          controlVars
    <3> QED
      BY <1>0, <3>1, <3>2, SampledElsewhere
  <2> QED
    BY <1>2, <2>1, <2>2 DEF Call
<1>3. ASSUME NEW t \in Thread, Step(t) PROVE SampledInv'
  <2> DEFINE r == at[t]
  <2>1. CASE Sample(t)
    <3>1. r \in Span /\ sends[r] = 0 /\ eventLock[r] = NoThread
      BY <2>1, RootAssumption
      DEF Sample, IInv, TypeOK, VariableTypes, SendInv, StageInv, Deciding, Sending
    <3>2. \A u \in Thread : pc[u] = "hooks" => at[u] # r
      BY <3>1, ThreadAssumption DEF SampledInv, HookInv
    <3>3. \A u \in Thread : pc'[u] = "hooks" => u = t \/ pc[u] = "hooks"
      BY <1>0, <2>1 DEF Sample, Goto
    <3>4. /\ at' = at /\ sends' = sends /\ event' = event
          /\ eventLock' = [eventLock EXCEPT ![r] = t]
          /\ sampled' = [sampled EXCEPT ![r] = event[r].added]
      BY <2>1 DEF Sample, Goto
    <3> QED
      BY <1>0, <3>1, <3>2, <3>3, <3>4 DEF SampledInv, SampledIsSent, HookInv
  <2>2. CASE Dispatch(t) \/ Drop(t)
    <3>1. r \in Span /\ eventLock[r] = t /\ event[r].added = sampled[r] /\ pc[t] = "hooks"
      BY <1>0, <2>2 DEF Dispatch, Drop, SampledInv, HookInv
    <3>2. \A u \in Thread \ {t} : pc[u] = "hooks" => at[u] # r
      BY <3>1 DEF SampledInv, HookInv
    <3>3. /\ at' = at /\ event' = event /\ sampled' = sampled
          /\ eventLock' = [eventLock EXCEPT ![r] = NoThread]
          /\ pc' = [pc EXCEPT ![t] = "mark"]
      BY <2>2 DEF Dispatch, Drop, Goto
    <3>4. \A s \in Span \ {r} : sends'[s] = sends[s]
      BY <1>0, <2>2 DEF Dispatch, Drop
    <3> QED
      BY <1>0, <3>1, <3>2, <3>3, <3>4 DEF SampledInv, SampledIsSent, HookInv
  <2>3. CASE \/ AddSpanRollup(t) \/ SkipSent(t) \/ Snapshot(t) \/ SendChild(t)
             \/ ChildrenSent(t) \/ Mark(t) \/ Unlink(t)
    <3>1. /\ sends' = sends /\ eventLock' = eventLock /\ sampled' = sampled
          /\ event' = event
      BY <2>3
      DEF AddSpanRollup, SkipSent, Snapshot, SendChild, ChildrenSent, Mark,
          Unlink, lockVars, dataVars
    <3>2. \A u \in Thread : pc'[u] = "hooks" => pc[u] = "hooks" /\ at'[u] = at[u]
      BY <1>0, <2>3
      DEF AddSpanRollup, SkipSent, Snapshot, SendChild, ChildrenSent, Mark,
          Unlink, Goto, Return
    <3> QED
      BY <1>0, <3>1, <3>2, SampledElsewhere
  <2>4. CASE Acquire(t) \/ Finish(t) \/ CopyTraceFields(t) \/ Classify(t)
    <3>1. sends' = sends /\ eventLock' = eventLock /\ sampled' = sampled
      BY <2>4 DEF Acquire, Finish, CopyTraceFields, Classify, lockVars, dataVars
    <3>2. \A s \in Span : event'[s].added = event[s].added
      <4>1. CASE Acquire(t)
        BY <1>0, <4>1 DEF Acquire, Event
      <4>2. CASE Finish(t)
        BY <1>0, <4>2 DEF Finish, Event
      <4>3. CASE CopyTraceFields(t)
        BY <1>0, <4>3 DEF CopyTraceFields, Event
      <4>4. CASE Classify(t)
        BY <1>0, <4>4 DEF Classify, Event
      <4> QED
        BY <2>4, <4>1, <4>2, <4>3, <4>4
    <3>3. \A u \in Thread : pc'[u] = "hooks" => pc[u] = "hooks" /\ at'[u] = at[u]
      BY <1>0, <2>4 DEF Acquire, Finish, CopyTraceFields, Classify, Goto
    <3> QED
      BY <1>0, <3>1, <3>2, <3>3, SampledElsewhere
  <2> QED
    BY <1>3, <2>1, <2>2, <2>3, <2>4 DEF Step
<1> QED
  BY <1>1, <1>2, <1>3 DEF Next

\* What is dispatched is what the sampler saw, for every interleaving of
\* AddField with Send (send, eventLock).
THEOREM SampledDispatched == Spec => []SampledIsSent
<1>1. Init => SampledInv
  BY DEF Init, SampledInv, SampledIsSent, HookInv
<1>2. SampledInv => SampledIsSent
  BY DEF SampledInv
<1> QED
  BY <1>1, <1>2, SampledStep, Inductive, PTL DEF Spec

-------------------------------------------------------------------------------
(* Trace-level fields.                                                     *)

\* The steps that change no fields and queue no children: a parent past its
\* cascade was so before.
LEMMA FieldsElsewhere ==
  ASSUME FieldsInv, traceFields' >= traceFields, traceFields \in Nat, traceFields' \in Nat,
         \A s \in Span : event[s].fields \in Nat /\ event'[s].fields = event[s].fields,
         childrenToSend' = childrenToSend, childrenToSend \in [Span -> SUBSET Span],
         created \subseteq Span, created' \subseteq Span,
         \A p \in created' :
           /\ CascadeOver(p)'
           /\ ~(\E t \in Thread : at'[t] = p /\ pc'[t] = "fields")
           => \/ childrenToSend[p] = {}
              \/ /\ p \in created /\ CascadeOver(p)
                 /\ ~(\E t \in Thread : at[t] = p /\ pc[t] = "fields")
  PROVE  FieldsInv'
<1>1. \A s \in Span : (event[s].fields)' <= traceFields'
  BY DEF FieldsInv
<1>2. FieldsReachParents'
  BY DEF FieldsInv, FieldsReachParents
<1> QED
  BY <1>1, <1>2 DEF FieldsInv

LEMMA FieldsStep == IInv /\ FieldsInv /\ [Next]_vars => FieldsInv'
<1> SUFFICES ASSUME IInv, FieldsInv, [Next]_vars PROVE FieldsInv'
  OBVIOUS
<1> DEFINE Copying(p) == \E t \in Thread : at[t] = p /\ pc[t] = "fields"
<1>0. /\ created \subseteq Span /\ event \in [Span -> Event] /\ traceFields \in Nat
      /\ childrenToSend \in [Span -> SUBSET Span] /\ isSent \in [Span -> BOOLEAN]
      /\ pc \in [Thread -> Stage] /\ DOMAIN at = Thread
      /\ \A s \in Span : event[s].fields \in Nat
  BY DEF IInv, TypeOK, VariableTypes, Event
<1>1. CASE UNCHANGED vars
  <2>1. \A p : CascadeOver(p)' <=> CascadeOver(p)
    BY <1>1 DEF vars, controlVars, CascadeOver
  <2> QED
    BY <1>0, <1>1, <2>1, FieldsElsewhere
    DEF vars, treeVars, lockVars, cascadeVars, dataVars, controlVars
<1>2. ASSUME NEW t \in Thread, Call(t) PROVE FieldsInv'
  <2>1. pc[t] = "idle"
    BY <1>2
    DEF Call, CreateChild, AddField, AddTraceField, AddTraceRollup, CallSend, TraceSend
  <2>2. pc'[t] \in {"idle", "acquire", "rollup"} /\ isSent' = isSent
        /\ \A u \in Thread \ {t} : pc'[u] = pc[u] /\ at'[u] = at[u]
    BY <1>0, <1>2, <2>1
    DEF Call, CreateChild, AddField, AddTraceField, AddTraceRollup, CallSend,
        TraceSend, controlVars, Goto
  <2>3. childrenToSend' = childrenToSend
    BY <1>2
    DEF Call, CreateChild, AddField, AddTraceField, AddTraceRollup, CallSend,
        TraceSend, cascadeVars
  <2>4. traceFields' \in Nat /\ traceFields' >= traceFields
    BY <1>0, <1>2
    DEF Call, CreateChild, AddField, AddTraceField, AddTraceRollup, CallSend,
        TraceSend, dataVars
  <2>5. \A s \in Span : event'[s].fields = event[s].fields
    <3>1. ASSUME NEW r \in Span, AddField(t, r) PROVE <2>5
      BY <1>0, <3>1 DEF AddField, Event
    <3>2. CASE ~(\E r \in Span : AddField(t, r))
      BY <1>2, <3>2
      DEF Call, CreateChild, AddTraceField, AddTraceRollup, CallSend, TraceSend
    <3> QED
      BY <3>1, <3>2
  <2>6. created' \subseteq Span /\ \A p \in created' \ created : childrenToSend[p] = {}
    <3>1. ASSUME NEW p \in Span, NEW c \in Span, NEW async \in BOOLEAN,
                 CreateChild(t, p, c, async)
          PROVE  <2>6
      <4>1. c \notin snapped
        BY <3>1 DEF CreateChild, IInv, SendInv
      <4> QED
        BY <1>0, <3>1, <4>1 DEF CreateChild, IInv, SendInv, SpanInv
    <3>2. CASE created' = created
      BY <1>0, <3>2
    <3>3. CASE ~(\E p, c \in Span, async \in BOOLEAN : CreateChild(t, p, c, async))
      <4>1. created' = created
        BY <1>2, <3>3
        DEF Call, AddField, AddTraceField, AddTraceRollup, CallSend, TraceSend, treeVars
      <4> QED
        BY <3>2, <4>1
    <3> QED
      BY <3>1, <3>3
  <2>7. \A p : CascadeOver(p)' => CascadeOver(p)
    BY <2>2 DEF CascadeOver
  <2>8. \A p : Copying(p) => Copying(p)'
    BY <2>1, <2>2
  <2> QED
    BY <1>0, <2>3, <2>4, <2>5, <2>6, <2>7, <2>8, FieldsElsewhere
<1>3. ASSUME NEW t \in Thread, Step(t) PROVE FieldsInv'
  <2> DEFINE r == at[t]
  <2>0. /\ created' = created
        /\ \A u \in Thread \ {t} : pc'[u] = pc[u] /\ at'[u] = at[u]
        /\ traceFields' = traceFields
    BY <1>0, <1>3
    DEF Step, AddSpanRollup, SkipSent, Acquire, Finish, Snapshot, SendChild,
        ChildrenSent, CopyTraceFields, Classify, Sample, Dispatch, Drop, Mark,
        Unlink, Goto, Return, treeVars, dataVars, controlVars
  <2>1. CASE CopyTraceFields(t)
    <3>1. r \in Span /\ ~isSent[r]
      BY <2>1
      DEF CopyTraceFields, IInv, TypeOK, VariableTypes, SendInv, StageInv, Deciding
    <3>2. /\ event'[r].fields = traceFields
          /\ \A s \in Span \ {r} : event'[s] = event[s]
      BY <1>0, <2>1, <3>1 DEF CopyTraceFields, Event
    <3>3. /\ childrenToSend' = childrenToSend /\ isSent' = isSent /\ at' = at
          /\ pc' = [pc EXCEPT ![t] = "classify"]
      BY <2>1 DEF CopyTraceFields, cascadeVars, Goto
    <3>4. \A p \in created : CascadeOver(p)' => CascadeOver(p)
      BY <1>0, <2>1, <3>3 DEF CascadeOver, CopyTraceFields
    <3>5. ASSUME NEW p \in created, CascadeOver(p) PROVE r \notin childrenToSend[p]
      BY <3>1, <3>5, <1>0
      DEF CascadeOver, IInv, SendInv, SpanInv, StageInv, AllSent, Sending
    <3>6. ASSUME NEW p \in created \ {r}, Copying(p) PROVE Copying(p)'
      BY <1>0, <3>3, <3>6
    <3>7. ASSUME NEW p \in created, CascadeOver(p)', ~Copying(p)',
                 NEW c \in childrenToSend'[p]
          PROVE  event'[c].fields <= event'[p].fields
      <4>1. c \in Span /\ c # r /\ CascadeOver(p)
        BY <1>0, <3>3, <3>4, <3>5, <3>7
      <4>2. CASE p = r
        BY <1>0, <3>2, <4>1, <4>2 DEF FieldsInv
      <4>3. CASE p # r
        BY <1>0, <3>2, <3>3, <3>6, <3>7, <4>1, <4>3 DEF FieldsInv, FieldsReachParents
      <4> QED
        BY <4>2, <4>3
    <3>8. FieldsReachParents'
      BY <2>0, <3>7 DEF FieldsReachParents
    <3>9. \A s \in Span : event'[s].fields <= traceFields'
      BY <1>0, <2>0, <3>1, <3>2 DEF FieldsInv
    <3> QED
      BY <3>8, <3>9 DEF FieldsInv
  <2>2. CASE Snapshot(t)
    <3>1. r \in Span /\ r \notin snapped
      BY <2>2 DEF Snapshot, IInv, TypeOK, VariableTypes, SendInv, StageInv
    <3>2. ~CascadeOver(r)
      BY <3>1 DEF CascadeOver, IInv, SendInv, SpanInv, StageInv, Deciding
    <3>3. /\ event' = event /\ isSent' = isSent /\ at' = at
          /\ pc' = [pc EXCEPT ![t] = "cascade"] /\ pc[t] = "snapshot"
          /\ \A s \in Span \ {r} : childrenToSend'[s] = childrenToSend[s]
      BY <1>0, <2>2 DEF Snapshot, Goto
    <3>4. \A p : CascadeOver(p)' => CascadeOver(p)
      BY <1>0, <3>3 DEF CascadeOver
    <3>5. \A p : Copying(p) => Copying(p)'
      BY <1>0, <3>3
    <3> QED
      BY <1>0, <2>0, <3>2, <3>3, <3>4, <3>5 DEF FieldsInv, FieldsReachParents
  <2>3. CASE \/ AddSpanRollup(t) \/ SkipSent(t) \/ Acquire(t) \/ Finish(t)
             \/ SendChild(t) \/ ChildrenSent(t) \/ Classify(t) \/ Sample(t)
             \/ Dispatch(t) \/ Drop(t) \/ Mark(t) \/ Unlink(t)
    <3>1. childrenToSend' = childrenToSend
      BY <2>3
      DEF AddSpanRollup, SkipSent, Acquire, Finish, SendChild, ChildrenSent,
          Classify, Sample, Dispatch, Drop, Mark, Unlink, cascadeVars
    <3>2. \A s \in Span : event'[s].fields = event[s].fields
      <4>1. CASE Acquire(t) \/ Finish(t) \/ Classify(t)
        BY <1>0, <4>1 DEF Acquire, Finish, Classify, Event
      <4>2. CASE ~(Acquire(t) \/ Finish(t) \/ Classify(t))
        BY <2>3, <4>2
        DEF AddSpanRollup, SkipSent, SendChild, ChildrenSent, Sample, Dispatch,
            Drop, Mark, Unlink
      <4> QED
        BY <4>1, <4>2
    <3>3. \A p \in created : Copying(p) => Copying(p)'
      <4>1. pc[t] # "fields"
        BY <2>3
        DEF AddSpanRollup, SkipSent, Acquire, Finish, SendChild, ChildrenSent,
            Classify, Sample, Dispatch, Drop, Mark, Unlink
      <4> QED
        BY <2>0, <4>1
    <3>4. \A p \in created : CascadeOver(p)' => CascadeOver(p) \/ Copying(p)'
      <4>1. CASE ChildrenSent(t)
        BY <1>0, <2>0, <4>1 DEF ChildrenSent, Goto, CascadeOver
      <4>2. CASE Classify(t) \/ Sample(t) \/ Dispatch(t) \/ Drop(t) \/ Mark(t)
        BY <1>0, <2>0, <4>2
        DEF Classify, Sample, Dispatch, Drop, Mark, Goto, CascadeOver
      <4>3. CASE \/ AddSpanRollup(t) \/ SkipSent(t) \/ Acquire(t) \/ Finish(t)
                 \/ SendChild(t) \/ Unlink(t)
        <5>1. isSent' = isSent
              /\ pc'[t] \notin {"fields", "classify", "sample", "hooks", "mark"}
          BY <1>0, <4>3
          DEF AddSpanRollup, SkipSent, Acquire, Finish, SendChild, Unlink, Goto, Return
        <5> QED
          BY <2>0, <5>1 DEF CascadeOver
      <4> QED
        BY <2>3, <4>1, <4>2, <4>3
    <3> QED
      BY <1>0, <2>0, <3>1, <3>2, <3>3, <3>4, FieldsElsewhere
  <2> QED
    BY <1>3, <2>1, <2>2, <2>3 DEF Step
<1> QED
  BY <1>1, <1>2, <1>3 DEF Next

\* A parent's event has the trace-level fields of the children it queued,
\* whenever they are added: it copies them after its cascade (send).
THEOREM FieldsReach == Spec => []FieldsReachParents
<1>1. Init => FieldsInv
  <2> SUFFICES ASSUME Init PROVE FieldsInv
    OBVIOUS
  <2>1. \A s \in Span : event[s].fields = 0 /\ childrenToSend[s] = {}
    BY DEF Init, NewEvent
  <2>2. created \subseteq Span /\ traceFields = 0
    BY RootAssumption DEF Init
  <2> QED
    BY <2>1, <2>2 DEF FieldsInv, FieldsReachParents
<1>2. FieldsInv => FieldsReachParents
  BY DEF FieldsInv
<1> QED
  BY <1>1, <1>2, FieldsStep, Inductive, PTL DEF Spec

-------------------------------------------------------------------------------
(* Rollups.                                                                *)

\* The root has read the trace's rollup.
Totalled ==
  \/ isSent[Root]
  \/ \E t \in Thread : at[t] = Root /\ pc[t] \in {"sample", "hooks", "mark"}

(***************************************************************************)
(* The trace has every contribution that a goroutine has in hand, a span   *)
(* has summed or an event reports; and once the root has read what the     *)
(* trace has, the spans of its cascade are sent and stay as they are.      *)
(***************************************************************************)
RollupInv ==
  /\ \A t \in Thread : pc[t] = "rollup" => adding[t] \in 1 .. traceRollup
  /\ \A s \in Span : /\ spanRollup[s] \subseteq 1 .. traceRollup
                     /\ event[s].rollup \subseteq 1 .. traceRollup
  /\ Totalled => \A c \in CascadeOf(Root) :
                   /\ c = Root \/ isSent[c]
                   /\ event[c].rollup \subseteq 1 .. event[Root].total

LEMMA CascadeClosed ==
  ASSUME childrenToSend \in [Span -> SUBSET Span]
  PROVE  /\ CascadeOf(Root) \subseteq Span /\ Root \in CascadeOf(Root)
         /\ \A s \in CascadeOf(Root) : childrenToSend[s] \subseteq CascadeOf(Root)
<1>1. CascadeOf(Root) \subseteq Span /\ Root \in CascadeOf(Root)
  BY RootAssumption DEF CascadeOf
<1>2. ASSUME NEW s \in CascadeOf(Root), NEW c \in childrenToSend[s]
      PROVE  c \in CascadeOf(Root)
  <2>1. c \in Span
    BY <1>1, <1>2
  <2>2. ASSUME NEW S \in SUBSET Span, Root \in S, \A x \in S : childrenToSend[x] \subseteq S
        PROVE  c \in S
    <3>1. s \in S
      BY <1>2, <2>2 DEF CascadeOf
    <3> QED
      BY <1>2, <2>2, <3>1
  <2> QED
    BY <2>1, <2>2 DEF CascadeOf
<1> QED
  BY <1>1, <1>2

\* A set with the root that is closed has all of its cascade.
LEMMA CascadeLeast ==
  ASSUME NEW S \in SUBSET Span, Root \in S, \A s \in S : childrenToSend[s] \subseteq S
  PROVE  CascadeOf(Root) \subseteq S
BY DEF CascadeOf

\* Nothing new is below the root while the queues of its cascade stay as they are.
LEMMA CascadeStays ==
  ASSUME childrenToSend \in [Span -> SUBSET Span],
         \A s \in CascadeOf(Root) : childrenToSend'[s] = childrenToSend[s]
  PROVE  CascadeOf(Root)' \subseteq CascadeOf(Root)
<1> DEFINE S == CascadeOf(Root)
<1>1. S \in SUBSET Span /\ Root \in S /\ \A s \in S : childrenToSend'[s] \subseteq S
  BY CascadeClosed
<1> HIDE DEF S
<1>2. \A c \in CascadeOf(Root)' : c \in S
  BY <1>1 DEF CascadeOf
<1> QED
  BY <1>2 DEF S

\* What a step must leave alone once the root has read the total.
CascadeKept ==
  /\ \A c \in CascadeOf(Root) :
       /\ childrenToSend'[c] = childrenToSend[c]
       /\ isSent[c] => isSent'[c]
       /\ event'[c].rollup = event[c].rollup
  /\ event'[Root].total = event[Root].total

LEMMA RollupElsewhere ==
  ASSUME RollupInv, childrenToSend \in [Span -> SUBSET Span],
         \A t \in Thread : pc'[t] = "rollup" => adding'[t] \in 1 .. traceRollup',
         \A s \in Span : spanRollup'[s] \subseteq 1 .. traceRollup',
         \A s \in Span : event'[s].rollup \subseteq 1 .. traceRollup',
         Totalled' => Totalled,
         Totalled => CascadeKept
  PROVE  RollupInv'
<1>1. ASSUME Totalled', NEW c \in CascadeOf(Root)'
      PROVE  (c = Root \/ isSent'[c]) /\ event'[c].rollup \subseteq 1 .. event'[Root].total
  <2>1. Totalled /\ CascadeKept
    BY <1>1
  <2>2. c \in CascadeOf(Root)
    BY <1>1, <2>1, CascadeStays DEF CascadeKept
  <2> QED
    BY <2>1, <2>2 DEF RollupInv, CascadeKept
<1> QED
  BY <1>1 DEF RollupInv

\* The same, when no sum, event or queue changes and no goroutine takes up a
\* contribution.
LEMMA RollupStill ==
  ASSUME RollupInv, childrenToSend \in [Span -> SUBSET Span],
         UNCHANGED <<traceRollup, spanRollup, adding, childrenToSend>>,
         \A s \in Span : /\ event'[s].rollup = event[s].rollup
                         /\ event'[s].total = event[s].total
                         /\ isSent[s] => isSent'[s],
         \A t \in Thread : pc'[t] = "rollup" => pc[t] = "rollup",
         Totalled' => Totalled
  PROVE  RollupInv'
<1>1. CascadeKept
  BY CascadeClosed, RootAssumption DEF CascadeKept
<1> QED
  BY <1>1, RollupElsewhere DEF RollupInv

\* A span that has not been snapped is not in the cascade of a root that has read
\* the total.
LEMMA UnsnappedOutside ==
  ASSUME IInv, RollupInv, Totalled, NEW t \in Thread, pc[t] \in {"finish", "snapshot"}
  PROVE  at[t] \notin CascadeOf(Root)
<1>1. at[t] \in Span /\ at[t] \notin snapped
  BY DEF IInv, TypeOK, VariableTypes, SendInv, StageInv
<1>2. ~isSent[at[t]]
  BY <1>1 DEF IInv, SendInv, SpanInv
<1>3. at[t] # Root
  <2>1. sendLock[at[t]] = t
    BY DEF IInv, LockInv, FrameInv, Sending
  <2>2. \A u \in Thread : pc[u] \in {"sample", "hooks", "mark"} => sendLock[at[u]] = u
    BY DEF IInv, LockInv, FrameInv, Sending
  <2> QED
    BY <1>2, <2>1, <2>2 DEF Totalled
<1> QED
  BY <1>2, <1>3 DEF RollupInv

LEMMA RollupStep == IInv /\ RollupInv /\ [Next]_vars => RollupInv'
<1> SUFFICES ASSUME IInv, RollupInv, [Next]_vars PROVE RollupInv'
  OBVIOUS
<1>0. /\ created \subseteq Span /\ event \in [Span -> Event] /\ traceRollup \in Nat
      /\ childrenToSend \in [Span -> SUBSET Span] /\ isSent \in [Span -> BOOLEAN]
      /\ pc \in [Thread -> Stage] /\ DOMAIN at = Thread /\ adding \in [Thread -> Nat]
      /\ spanRollup \in [Span -> SUBSET Nat]
  BY DEF IInv, TypeOK, VariableTypes
<1>1. CASE UNCHANGED vars
  <2>1. Totalled' <=> Totalled
    BY <1>1 DEF vars, controlVars, Totalled
  <2> QED
    BY <1>0, <1>1, <2>1, RollupStill
    DEF vars, treeVars, lockVars, cascadeVars, dataVars, controlVars
<1>2. ASSUME NEW t \in Thread, Call(t) PROVE RollupInv'
  <2>1. /\ pc[t] = "idle" /\ pc'[t] \in {"idle", "acquire", "rollup"}
        /\ isSent' = isSent /\ childrenToSend' = childrenToSend
        /\ \A u \in Thread \ {t} : pc'[u] = pc[u] /\ at'[u] = at[u]
    BY <1>0, <1>2
    DEF Call, CreateChild, AddField, AddTraceField, AddTraceRollup, CallSend,
        TraceSend, controlVars, cascadeVars
  <2>2. Totalled' => Totalled
    BY <2>1 DEF Totalled
  <2>3. \A s \in Span : event'[s].rollup = event[s].rollup /\ event'[s].total = event[s].total
    <3>1. ASSUME NEW r \in Span, AddField(t, r) PROVE <2>3
      BY <1>0, <3>1 DEF AddField, Event
    <3>2. CASE ~(\E r \in Span : AddField(t, r))
      BY <1>2, <3>2
      DEF Call, CreateChild, AddTraceField, AddTraceRollup, CallSend, TraceSend
    <3> QED
      BY <3>1, <3>2
  <2>4. ASSUME NEW s \in Span, AddTraceRollup(t, s) PROVE RollupInv'
    <3>1. /\ traceRollup' = traceRollup + 1 /\ adding' = [adding EXCEPT ![t] = traceRollup + 1]
          /\ spanRollup' = spanRollup
      BY <2>4 DEF AddTraceRollup
    <3>2. 1 .. traceRollup \subseteq 1 .. traceRollup' /\ traceRollup + 1 \in 1 .. traceRollup'
      BY <1>0, <3>1
    <3>3. \A u \in Thread : pc'[u] = "rollup" => adding'[u] \in 1 .. traceRollup'
      BY <1>0, <2>1, <3>1, <3>2 DEF RollupInv
    <3>4. \A r \in Span : /\ spanRollup'[r] \subseteq 1 .. traceRollup'
                          /\ event'[r].rollup \subseteq 1 .. traceRollup'
      BY <2>3, <3>1, <3>2 DEF RollupInv
    <3>5. CascadeKept
      BY <1>0, <2>1, <2>3, CascadeClosed, RootAssumption DEF CascadeKept
    <3> QED
      BY <1>0, <2>2, <3>3, <3>4, <3>5, RollupElsewhere
  <2>5. CASE \/ \E p, c \in Span, async \in BOOLEAN : CreateChild(t, p, c, async)
             \/ \E s \in Span : AddField(t, s)
             \/ AddTraceField(t)
             \/ \E s \in Span : CallSend(t, s)
             \/ TraceSend(t)
    <3>1. UNCHANGED <<traceRollup, spanRollup, adding>> /\ pc'[t] # "rollup"
      BY <1>0, <2>1, <2>5
      DEF CreateChild, AddField, AddTraceField, CallSend, TraceSend, dataVars, controlVars
    <3>2. \A u \in Thread : pc'[u] = "rollup" => pc[u] = "rollup"
      BY <2>1, <3>1
    <3> QED
      BY <1>0, <2>1, <2>2, <2>3, <3>1, <3>2, RollupStill
  <2> QED
    BY <1>2, <2>4, <2>5 DEF Call
<1>3. ASSUME NEW t \in Thread, Step(t) PROVE RollupInv'
  <2> DEFINE r == at[t]
  <2>0. \A u \in Thread \ {t} : pc'[u] = pc[u] /\ at'[u] = at[u]
    BY <1>0, <1>3
    DEF Step, AddSpanRollup, SkipSent, Acquire, Finish, Snapshot, SendChild,
        ChildrenSent, CopyTraceFields, Classify, Sample, Dispatch, Drop, Mark,
        Unlink, Goto, Return, controlVars
  <2>1. pc'[t] # "rollup"
    BY <1>0, <1>3
    DEF Step, AddSpanRollup, SkipSent, Acquire, Finish, Snapshot, SendChild,
        ChildrenSent, CopyTraceFields, Classify, Sample, Dispatch, Drop, Mark,
        Unlink, Goto, Return
  <2>2. \A u \in Thread : pc'[u] = "rollup" => pc[u] = "rollup"
    BY <2>0, <2>1
  <2>3. CASE AddSpanRollup(t)
    <3>1. /\ spanRollup' = [spanRollup EXCEPT ![r] = spanRollup[r] \cup {adding[t]}]
          /\ adding' = [adding EXCEPT ![t] = 0] /\ pc[t] = "rollup"
          /\ UNCHANGED <<traceRollup, event, isSent, childrenToSend>>
      BY <2>3 DEF AddSpanRollup, cascadeVars
    <3>2. \A s \in Span : spanRollup'[s] \subseteq 1 .. traceRollup'
      BY <1>0, <3>1 DEF RollupInv
    <3>3. \A u \in Thread : pc'[u] = "rollup" => adding'[u] \in 1 .. traceRollup'
      BY <1>0, <2>1, <2>2, <3>1 DEF RollupInv
    <3>4. \A s \in Span : event'[s].rollup \subseteq 1 .. traceRollup'
      BY <3>1 DEF RollupInv
    <3>5. Totalled' => Totalled
      <4>1. pc'[t] = "idle"
        BY <1>0, <2>3 DEF AddSpanRollup
      <4> QED
        BY <2>0, <3>1, <4>1 DEF Totalled
    <3>6. CascadeKept
      BY <1>0, <3>1, CascadeClosed DEF CascadeKept
    <3> QED
      BY <1>0, <3>2, <3>3, <3>4, <3>5, <3>6, RollupElsewhere
  <2>4. CASE Finish(t)
    <3>1. /\ event' = [event EXCEPT ![r].duration = TRUE, ![r].rollup = spanRollup[r]]
          /\ at' = at /\ pc' = [pc EXCEPT ![t] = "snapshot"] /\ pc[t] = "finish"
          /\ UNCHANGED <<traceRollup, spanRollup, adding, isSent, childrenToSend>>
      BY <2>4 DEF Finish, Goto, cascadeVars, dataVars
    <3>2. r \in Span
      BY <3>1 DEF IInv, TypeOK, VariableTypes
    <3>3. /\ event'[r].rollup = spanRollup[r] /\ event'[r].total = event[r].total
          /\ \A s \in Span \ {r} : event'[s] = event[s]
      BY <1>0, <3>1, <3>2 DEF Event
    <3>4. \A s \in Span : event'[s].rollup \subseteq 1 .. traceRollup'
      BY <3>1, <3>3 DEF RollupInv
    <3>5. Totalled' => Totalled
      BY <1>0, <3>1 DEF Totalled
    <3>6. Totalled => CascadeKept
      <4>1. Totalled => r \notin CascadeOf(Root)
        BY <3>1, UnsnappedOutside
      <4>2. event'[Root].total = event[Root].total
        BY <3>3, RootAssumption
      <4> QED
        BY <1>0, <3>1, <3>3, <4>1, <4>2, CascadeClosed DEF CascadeKept
    <3>7. /\ \A u \in Thread : pc'[u] = "rollup" => adding'[u] \in 1 .. traceRollup'
          /\ \A s \in Span : spanRollup'[s] \subseteq 1 .. traceRollup'
      BY <2>2, <3>1 DEF RollupInv
    <3> QED
      BY <1>0, <3>4, <3>5, <3>6, <3>7, RollupElsewhere
  <2>5. CASE Snapshot(t)
    <3>1. /\ \A s \in Span \ {r} : childrenToSend'[s] = childrenToSend[s]
          /\ at' = at /\ pc' = [pc EXCEPT ![t] = "cascade"] /\ pc[t] = "snapshot"
          /\ UNCHANGED <<traceRollup, spanRollup, adding, isSent, event>>
      BY <1>0, <2>5 DEF Snapshot, Goto, dataVars
    <3>2. Totalled' => Totalled
      BY <1>0, <3>1 DEF Totalled
    <3>3. Totalled => CascadeKept
      <4>1. Totalled => r \notin CascadeOf(Root)
        BY <3>1, UnsnappedOutside
      <4> QED
        BY <1>0, <3>1, <4>1, CascadeClosed DEF CascadeKept
    <3>4. /\ \A u \in Thread : pc'[u] = "rollup" => adding'[u] \in 1 .. traceRollup'
          /\ \A s \in Span : /\ spanRollup'[s] \subseteq 1 .. traceRollup'
                             /\ event'[s].rollup \subseteq 1 .. traceRollup'
      BY <2>2, <3>1 DEF RollupInv
    <3> QED
      BY <1>0, <3>2, <3>3, <3>4, RollupElsewhere
  <2>6. CASE Classify(t) /\ r = Root
    <3>1. /\ event' = [event EXCEPT ![Root].type = TypeOf(Root), ![Root].total = traceRollup]
          /\ pc[t] = "classify"
          /\ UNCHANGED <<traceRollup, spanRollup, adding, isSent, childrenToSend>>
      BY <2>6 DEF Classify, cascadeVars, dataVars
    <3>2. /\ event'[Root].total = traceRollup
          /\ \A s \in Span : event'[s].rollup = event[s].rollup
      BY <1>0, <3>1, RootAssumption DEF Event
    <3>3. /\ \A u \in Thread : pc'[u] = "rollup" => adding'[u] \in 1 .. traceRollup'
          /\ \A s \in Span : /\ spanRollup'[s] \subseteq 1 .. traceRollup'
                             /\ event'[s].rollup \subseteq 1 .. traceRollup'
      BY <2>2, <3>1, <3>2 DEF RollupInv
    <3> DEFINE S == {Root} \cup {s \in Span : isSent[s]}
    <3>4. /\ S \in SUBSET Span /\ Root \in S
          /\ \A s \in S : childrenToSend[s] \subseteq S
      <4>1. AllSent(childrenToSend[Root])
        BY <2>6, <3>1 DEF IInv, SendInv, StageInv, Sending
      <4>2. \A s \in Span : isSent[s] => AllSent(childrenToSend[s])
        BY DEF IInv, SendInv, SpanInv
      <4> QED
        BY <1>0, <4>1, <4>2, RootAssumption DEF AllSent
    <3>5. CascadeOf(Root)' \subseteq S
      <4> HIDE DEF S
      <4>1. CascadeOf(Root) \subseteq S
        BY <3>4, CascadeLeast
      <4>2. CascadeOf(Root)' \subseteq CascadeOf(Root)
        BY <1>0, <3>1, CascadeClosed, CascadeStays
      <4> QED
        BY <4>1, <4>2
    <3>6. \A c \in CascadeOf(Root)' :
            /\ c = Root \/ isSent'[c]
            /\ event'[c].rollup \subseteq 1 .. event'[Root].total
      BY <3>1, <3>2, <3>3, <3>5, RootAssumption
    <3> QED
      BY <3>3, <3>6 DEF RollupInv
  <2>7. CASE \/ SkipSent(t) \/ Acquire(t) \/ SendChild(t) \/ ChildrenSent(t)
             \/ CopyTraceFields(t) \/ (Classify(t) /\ r # Root)
             \/ Sample(t) \/ Dispatch(t) \/ Drop(t) \/ Mark(t) \/ Unlink(t)
    <3>1. UNCHANGED <<traceRollup, spanRollup, adding, childrenToSend>>
      BY <2>7
      DEF SkipSent, Acquire, SendChild, ChildrenSent, CopyTraceFields, Classify,
          Sample, Dispatch, Drop, Mark, Unlink, cascadeVars, dataVars
    <3>2. \A s \in Span : /\ event'[s].rollup = event[s].rollup
                          /\ event'[s].total = event[s].total
      <4>1. CASE Acquire(t) \/ CopyTraceFields(t)
        <5>1. CASE Acquire(t)
          BY <1>0, <5>1 DEF Acquire, Event
        <5>2. CASE CopyTraceFields(t)
          BY <1>0, <5>2 DEF CopyTraceFields, Event
        <5> QED
          BY <4>1, <5>1, <5>2
      <4>2. CASE Classify(t) /\ r # Root
        BY <1>0, <4>2 DEF Classify, Event
      <4>3. CASE \/ SkipSent(t) \/ SendChild(t) \/ ChildrenSent(t)
                 \/ Sample(t) \/ Dispatch(t) \/ Drop(t) \/ Mark(t) \/ Unlink(t)
        BY <4>3
        DEF SkipSent, SendChild, ChildrenSent, Sample, Dispatch, Drop, Mark, Unlink
      <4> QED
        BY <2>7, <4>1, <4>2, <4>3
    <3>3. \A s \in Span : isSent[s] => isSent'[s]
      <4>1. CASE Mark(t)
        BY <1>0, <4>1 DEF Mark
      <4>2. CASE ~Mark(t)
        BY <2>7, <4>2
        DEF SkipSent, Acquire, SendChild, ChildrenSent, CopyTraceFields, Classify,
            Sample, Dispatch, Drop, Unlink
      <4> QED
        BY <4>1, <4>2
    <3>4. Totalled' => Totalled
      <4>1. CASE Mark(t)
        <5>1. /\ pc[t] = "mark" /\ at' = at
              /\ \A s \in Span \ {r} : isSent'[s] = isSent[s]
          BY <1>0, <4>1 DEF Mark, Goto
        <5>2. pc'[t] = "unlink"
          BY <1>0, <4>1 DEF Mark, Goto
        <5> QED
          BY <2>0, <5>1, <5>2, RootAssumption DEF Totalled
      <4>2. CASE Sample(t) \/ Dispatch(t) \/ Drop(t)
        <5>1. pc[t] \in {"sample", "hooks"} /\ at' = at /\ isSent' = isSent
          BY <4>2 DEF Sample, Dispatch, Drop, Goto
        <5> QED
          BY <2>0, <5>1 DEF Totalled
      <4>3. CASE Classify(t) /\ r # Root
        <5>1. at' = at /\ isSent' = isSent
          BY <4>3 DEF Classify, Goto
        <5> QED
          BY <2>0, <4>3, <5>1 DEF Totalled
      <4>4. CASE \/ SkipSent(t) \/ Acquire(t) \/ SendChild(t) \/ ChildrenSent(t)
                 \/ CopyTraceFields(t) \/ Unlink(t)
        <5>1. isSent' = isSent /\ pc'[t] \notin {"sample", "hooks", "mark"}
          BY <1>0, <4>4
          DEF SkipSent, Acquire, SendChild, ChildrenSent, CopyTraceFields, Unlink,
              Goto, Return
        <5> QED
          BY <2>0, <5>1 DEF Totalled
      <4> QED
        BY <2>7, <4>1, <4>2, <4>3, <4>4
    <3> QED
      BY <1>0, <2>2, <3>1, <3>2, <3>3, <3>4, RollupStill
  <2>8. CASE Classify(t)
    BY <2>6, <2>7, <2>8
  <2> QED
    BY <1>3, <2>3, <2>4, <2>5, <2>7, <2>8 DEF Step
<1> QED
  BY <1>1, <1>2, <1>3 DEF Next

\* The total on the root's event has each contribution that its own event or one
\* of a span below it reports, for any tree and any goroutines that add while it
\* is sent: the trace is added to first, and the root reads last (AddRollupField,
\* sendLocked, send).
THEOREM TotalsCover == Spec => []RollupCovers
<1>1. Init => RollupInv
  <2> SUFFICES ASSUME Init PROVE RollupInv
    OBVIOUS
  <2>1. \A s \in Span : ~isSent[s] /\ spanRollup[s] = {} /\ event[s].rollup = {}
    BY DEF Init, NewEvent
  <2>2. \A t \in Thread : pc[t] = "idle"
    BY DEF Init
  <2> QED
    BY <2>1, <2>2, RootAssumption DEF RollupInv, Totalled
<1>2. IInv /\ RollupInv => RollupCovers
  <2> SUFFICES ASSUME IInv, RollupInv, sends[Root] > 0 PROVE Totalled
    BY DEF RollupInv, RollupCovers
  <2>1. Root \in snapped /\ SpanInv(Root)
    BY RootAssumption DEF IInv, SendInv, SpanInv
  <2>2. CASE sendLock[Root] = NoThread
    BY <2>1, <2>2 DEF SpanInv, Totalled
  <2>3. CASE sendLock[Root] # NoThread
    <3>1. PICK t \in Thread : sendLock[Root] = t
      BY <2>3, RootAssumption DEF IInv, TypeOK, VariableTypes
    <3>2. at[t] = Root
      BY <3>1, RootAssumption DEF IInv, SendInv, WaitingInv
    <3>3. pc[t] \in Sending
      BY <3>1, <3>2, RootAssumption DEF IInv, LockInv, HeldInv, InSend
    <3>4. StageInv(t)
      BY DEF IInv, SendInv
    <3> QED
      BY <2>1, <3>2, <3>3, <3>4 DEF StageInv, Sending, Deciding, Totalled
  <2> QED
    BY <2>2, <2>3
<1> QED
  BY <1>1, <1>2, RollupStep, Inductive, PTL DEF Spec
===============================================================================
