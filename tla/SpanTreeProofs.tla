--------------------------- MODULE SpanTreeProofs ----------------------------
(***************************************************************************)
(* Proofs about SpanTree, for every set of spans and goroutines and every  *)
(* value of the bounds.                                                    *)
(***************************************************************************)
EXTENDS SpanTreeImplements, TLAPS

-------------------------------------------------------------------------------
(* The inductive invariant.                                                *)

\* The shape of the tree, and what the lists of children may hold.
TreeInv ==
  /\ \A c \in created \ {Root} :
       parent[c] \in created /\ depth[c] = depth[parent[c]] + 1
  /\ \A c \in (Span \ created) \cup {Root} : parent[c] = NoSpan
  /\ late \subseteq created
  /\ \A p \in Span :
       children[p] \subseteq {c \in created \ {Root} : parent[c] = p}
  /\ \A p \in Span :
       childrenToSend[p] \subseteq
         {c \in created \ {Root} : parent[c] = p /\ ~isAsync[c]}
  /\ \A p \in Span : unvisited[p] \subseteq childrenToSend[p]

InSend == Sending \cup {"acquire"}

\* The innermost frame of t: it lies on or below the span t called Send on,
\* its sendLock is held once it is past "acquire", and so is its parent's
\* when it was entered by a cascade.
FrameInv(t) ==
  /\ IF pc[t] = "idle" THEN at[t] = NoSpan ELSE at[t] \in created
  /\ pc[t] \in Sending => sendLock[at[t]] = t
  /\ pc[t] \in InSend =>
       /\ base[t] \in created
       /\ depth[base[t]] <= depth[at[t]]
       /\ at[t] # base[t] => /\ at[t] # Root
                             /\ sendLock[parent[at[t]]] = t
                             /\ depth[base[t]] < depth[at[t]]

\* A sendLock that t holds belongs to a frame between the two ends of its
\* chain, one frame per depth.
HeldInv(t, s) ==
  sendLock[s] = t =>
    /\ pc[t] \in InSend
    /\ s \in created
    /\ depth[base[t]] <= depth[s]
    /\ s # base[t] => /\ s # Root
                      /\ sendLock[parent[s]] = t
                      /\ depth[base[t]] < depth[s]
    /\ depth[s] <= depth[at[t]]
    /\ depth[s] = depth[at[t]] => s = at[t] /\ pc[t] # "acquire"

LockInv ==
  /\ \A t \in Thread : FrameInv(t)
  /\ \A t \in Thread, s \in Span : HeldInv(t, s)
  /\ \A s, r \in Span :
       sendLock[s] # NoThread /\ sendLock[s] = sendLock[r] /\ depth[s] = depth[r]
         => s = r

Deciding == {"cascade", "fields", "classify", "sample", "hooks"}

AllSent(S) == \A c \in S : isSent[c]

\* What the innermost frame of t has done to its span.
StageInv(t) ==
  LET s == at[t] IN
  /\ pc[t] \in {"finish", "snapshot"} => s \notin snapped
  /\ pc[t] \in Deciding => s \in snapped /\ ~isSent[s] /\ sends[s] = 0
  /\ pc[t] = "mark" => s \in snapped /\ ~isSent[s]
  /\ pc[t] = "unlink" => isSent[s]
  /\ pc[t] \in Sending \ {"finish", "snapshot", "cascade"} =>
       AllSent(childrenToSend[s])
  /\ pc[t] \in InSend /\ s # base[t] => s \in childrenToSend[parent[s]]

\* The other frames of t wait in the loop over childrenToSend; a child the
\* loop has visited is sent, or is the frame above.
WaitingInv(t, s) ==
  sendLock[s] = t =>
    /\ s # at[t] => s \in snapped /\ ~isSent[s] /\ sends[s] = 0
    /\ s # base[t] => s \in childrenToSend[parent[s]]
    /\ \A c \in childrenToSend[s] \ unvisited[s] :
         \/ isSent[c]
         \/ sendLock[c] = t
         \/ at[t] = c /\ pc[t] = "acquire"

\* A span in which no goroutine is sending is wholly unsent or wholly sent.
SpanInv(s) ==
  /\ s \notin snapped => childrenToSend[s] = {} /\ sends[s] = 0
  /\ sends[s] <= 1
  /\ isSent[s] => s \in snapped /\ AllSent(childrenToSend[s])
  /\ sendLock[s] = NoThread /\ s \in snapped => isSent[s]

SendInv ==
  /\ snapped \subseteq created
  /\ \A t \in Thread : StageInv(t)
  /\ \A t \in Thread, s \in Span : WaitingInv(t, s)
  /\ \A s \in Span : SpanInv(s)

\* What the lists of children, and the events, say about the children.
ChildInv ==
  /\ LinkedUntilSent
  /\ LeafHasNoOpenChild
  /\ \A p \in Span : event[p].type = "leaf" => p \in snapped
  /\ \A c \in created \ (late \cup {Root}) :
       ~isAsync[c] /\ parent[c] \in snapped
         => c \in childrenToSend[parent[c]] \/ isSent[c]
  /\ \A s \in Span : event[s].byParent =>
       s \in created \ {Root} /\ s \in childrenToSend[parent[s]]

IInv == TypeOK /\ TreeInv /\ LockInv /\ SendInv /\ ChildInv

LEMMA TypeInit == Init => VariableTypes
  BY RootAssumption DEF Init, VariableTypes, NewEvent, Event, SpanType, Stage

\* The fields of an event may be set one by one.
LEMMA EventTypes ==
  ASSUME NEW e \in Event
  PROVE  /\ e.added \in Nat /\ e.total \in Nat
         /\ \A n \in Nat : [e EXCEPT !.added = n] \in Event
         /\ \A n \in Nat : [e EXCEPT !.fields = n] \in Event
         /\ \A b \in BOOLEAN : [e EXCEPT !.byParent = b] \in Event
         /\ \A R \in SUBSET Nat, b \in BOOLEAN :
              [e EXCEPT !.duration = b, !.rollup = R] \in Event
         /\ \A n \in Nat, k \in SpanType :
              [e EXCEPT !.type = k, !.total = n] \in Event
  BY DEF Event

LEMMA TypeStep == TypeOK /\ [Next]_vars => VariableTypes'
<1> SUFFICES ASSUME TypeOK, [Next]_vars PROVE VariableTypes'
  OBVIOUS
<1> USE DEF TypeOK, VariableTypes, treeVars, lockVars, cascadeVars, dataVars, controlVars
<1>1. CASE UNCHANGED vars
  BY <1>1 DEF vars
<1>2. ASSUME NEW t \in Thread, Call(t) PROVE VariableTypes'
  <2>1. ASSUME NEW p \in Span, NEW c \in Span, NEW async \in BOOLEAN,
               CreateChild(t, p, c, async)
        PROVE  VariableTypes'
    BY <2>1 DEF CreateChild
  <2>2. ASSUME NEW s \in Span, AddField(t, s) PROVE VariableTypes'
    <3>0. event[s].added \in Nat
      BY event[s] \in Event DEF Event
    <3>1. event[s].added + 1 \in Nat
      BY <3>0
    <3>2. event' = [event EXCEPT ![s] = [event[s] EXCEPT
                                           !.added = event[s].added + 1]]
      BY <2>2 DEF AddField
    <3>3. event'[s] \in Event
      BY <3>1, <3>2, EventTypes
    <3> QED
      BY <2>2, <3>2, <3>3 DEF AddField
  <2>3. CASE AddTraceField(t)
    BY <2>3 DEF AddTraceField
  <2>4. ASSUME NEW s \in Span, AddTraceRollup(t, s) PROVE VariableTypes'
    BY <2>4 DEF AddTraceRollup, Stage
  <2>5. ASSUME NEW s \in Span, CallSend(t, s) PROVE VariableTypes'
    BY <2>5 DEF CallSend, Stage
  <2>6. CASE TraceSend(t)
    BY <2>6, <2>5, RootAssumption DEF TraceSend
  <2> QED
    BY <1>2, <2>1, <2>2, <2>3, <2>4, <2>5, <2>6 DEF Call
<1>3. ASSUME NEW t \in Thread, Step(t) PROVE VariableTypes'
  <2>1. CASE AddSpanRollup(t)
    BY <2>1 DEF AddSpanRollup, Stage
  <2>2. CASE SkipSent(t)
    <3>1. CASE at[t] = base[t]
      BY <2>2, <3>1 DEF SkipSent, Return, Stage
    <3>2. CASE at[t] # base[t]
      BY <2>2, <3>2 DEF SkipSent, Return, Stage, Sending
    <3> QED
      BY <3>1, <3>2
  <2>3. CASE Acquire(t)
    <3>1. at[t] \in Span
      BY <2>3 DEF Acquire, Sending
    <3>2. event' = [event EXCEPT ![at[t]] = [event[at[t]] EXCEPT
                                               !.byParent = at[t] # base[t]]]
      BY <2>3 DEF Acquire
    <3>3. event'[at[t]] \in Event
      BY <3>1, <3>2, EventTypes
    <3>4. event' \in [Span -> Event]
      BY <3>2, <3>3
    <3> QED
      BY <2>3, <3>1, <3>4 DEF Acquire, Goto, Stage, Sending
  <2>4. CASE Finish(t)
    <3>1. at[t] \in Span
      BY <2>4 DEF Finish, Sending
    <3>2. event' = [event EXCEPT ![at[t]] = [event[at[t]] EXCEPT
                                               !.duration = TRUE,
                                               !.rollup = spanRollup[at[t]]]]
      BY <2>4 DEF Finish
    <3>3. event'[at[t]] \in Event
      BY <3>1, <3>2, EventTypes
    <3>4. event' \in [Span -> Event]
      BY <3>2, <3>3
    <3> QED
      BY <2>4, <3>1, <3>4 DEF Finish, Goto, Stage, Sending
  <2>5. CASE Snapshot(t)
    BY <2>5 DEF Snapshot, Goto, Stage, Sending
  <2>6. CASE SendChild(t)
    BY <2>6 DEF SendChild, Stage, Sending
  <2>7. CASE ChildrenSent(t)
    BY <2>7 DEF ChildrenSent, Goto, Stage, Sending
  <2>8. CASE CopyTraceFields(t)
    <3>1. at[t] \in Span
      BY <2>8 DEF CopyTraceFields, Sending
    <3>2. event' = [event EXCEPT ![at[t]] = [event[at[t]] EXCEPT
                                               !.fields = traceFields]]
      BY <2>8 DEF CopyTraceFields
    <3>3. event'[at[t]] \in Event
      BY <3>1, <3>2, EventTypes
    <3>4. event' \in [Span -> Event]
      BY <3>2, <3>3
    <3> QED
      BY <2>8, <3>1, <3>4 DEF CopyTraceFields, Goto, Stage, Sending
  <2>9. CASE Classify(t)
    <3>1. at[t] \in Span
      BY <2>9 DEF Classify, Sending
    <3>2. PICK n \in Nat :
            event' = [event EXCEPT ![at[t]] = [event[at[t]] EXCEPT
                                                 !.type = TypeOf(at[t]),
                                                 !.total = n]]
      <4>1. CASE at[t] = Root
        BY <2>9, <4>1 DEF Classify
      <4>2. CASE at[t] # Root
        BY <2>9, <4>2, <3>1, EventTypes DEF Classify
      <4> QED
        BY <4>1, <4>2
    <3>3. TypeOf(at[t]) \in SpanType
      BY DEF TypeOf, SpanType
    <3>4. event'[at[t]] \in Event
      BY <3>1, <3>2, <3>3, EventTypes
    <3>5. event' \in [Span -> Event]
      BY <3>2, <3>4
    <3> QED
      BY <2>9, <3>1, <3>5 DEF Classify, Goto, Stage, Sending
  <2>10. CASE Sample(t)
    BY <2>10 DEF Sample, Goto, Stage, Sending, Event
  <2>11. CASE Dispatch(t)
    BY <2>11 DEF Dispatch, Goto, Stage, Sending
  <2>12. CASE Drop(t)
    BY <2>12 DEF Drop, Goto, Stage, Sending
  <2>13. CASE Mark(t)
    BY <2>13 DEF Mark, Goto, Stage, Sending
  <2>14. CASE Unlink(t)
    BY <2>14 DEF Unlink, Return, Stage, Sending
  <2> QED
    BY <1>3, <2>1, <2>2, <2>3, <2>4, <2>5, <2>6, <2>7, <2>8, <2>9, <2>10,
       <2>11, <2>12, <2>13, <2>14 DEF Step
<1> QED
  BY <1>1, <1>2, <1>3 DEF Next

-------------------------------------------------------------------------------
(* The tree.                                                               *)

LEMMA TreeStep == TypeOK /\ TreeInv /\ [Next]_vars => TreeInv'
<1> SUFFICES ASSUME TypeOK, TreeInv, [Next]_vars PROVE TreeInv'
  OBVIOUS
<1> USE DEF TypeOK, VariableTypes, TreeInv,
            treeVars, lockVars, cascadeVars, dataVars, controlVars
<1>1. CASE UNCHANGED <<treeVars, cascadeVars>>
  BY <1>1
<1>2. ASSUME NEW t \in Thread, NEW p \in Span, NEW c \in Span,
             NEW async \in BOOLEAN, CreateChild(t, p, c, async)
      PROVE  TreeInv'
  BY <1>2 DEF CreateChild
<1>3. ASSUME NEW t \in Thread, Snapshot(t) PROVE TreeInv'
  BY <1>3 DEF Snapshot
<1>4. ASSUME NEW t \in Thread, SendChild(t) PROVE TreeInv'
  BY <1>4 DEF SendChild
<1>5. ASSUME NEW t \in Thread, Unlink(t) PROVE TreeInv'
  BY <1>5 DEF Unlink
<1> HIDE DEF TypeOK, VariableTypes, TreeInv
<1>6. ASSUME NEW t \in Thread, NEW s \in Span,
             \/ AddField(t, s) \/ AddTraceField(t) \/ AddTraceRollup(t, s)
             \/ CallSend(t, s) \/ TraceSend(t)
      PROVE  TreeInv'
  BY <1>1, <1>6
  DEF AddField, AddTraceField, AddTraceRollup, CallSend, TraceSend
<1>7. ASSUME NEW t \in Thread,
             \/ AddSpanRollup(t) \/ SkipSent(t) \/ Acquire(t) \/ Finish(t)
             \/ ChildrenSent(t) \/ CopyTraceFields(t) \/ Classify(t)
             \/ Sample(t) \/ Dispatch(t) \/ Drop(t) \/ Mark(t)
      PROVE  TreeInv'
  BY <1>1, <1>7
  DEF AddSpanRollup, SkipSent, Acquire, Finish, ChildrenSent, CopyTraceFields,
      Classify, Sample, Dispatch, Drop, Mark
<1>8. ASSUME UNCHANGED vars PROVE TreeInv'
  BY <1>1, <1>8 DEF vars
<1> QED
  BY <1>2, <1>3, <1>4, <1>5, <1>6, <1>7, <1>8, RootAssumption
  DEF Next, Call, Step

-------------------------------------------------------------------------------
(* The locks.                                                              *)

LEMMA LockStep == TypeOK /\ TreeInv /\ LockInv /\ [Next]_vars => LockInv'
<1> SUFFICES ASSUME TypeOK, TreeInv, LockInv, [Next]_vars PROVE LockInv'
  OBVIOUS
<1> USE DEF TypeOK, VariableTypes, TreeInv, LockInv, FrameInv, HeldInv, InSend,
            Sending, Stage, treeVars, lockVars, cascadeVars, dataVars,
            controlVars
<1> USE RootAssumption, ThreadAssumption
<1>1. CASE UNCHANGED <<treeVars, sendLock, pc, at, base>>
  BY <1>1
<1>2. ASSUME NEW t \in Thread, NEW p \in Span, NEW c \in Span,
             NEW async \in BOOLEAN, CreateChild(t, p, c, async)
      PROVE  LockInv'
  BY <1>2 DEF CreateChild
<1>3. ASSUME NEW t \in Thread, NEW s \in Span, AddTraceRollup(t, s)
      PROVE  LockInv'
  BY <1>3 DEF AddTraceRollup
<1>4. ASSUME NEW t \in Thread, AddSpanRollup(t) PROVE LockInv'
  BY <1>4 DEF AddSpanRollup
<1>5. ASSUME NEW t \in Thread, NEW s \in Span, CallSend(t, s)
      PROVE  LockInv'
  BY <1>5 DEF CallSend
<1>6. ASSUME NEW t \in Thread, SkipSent(t) PROVE LockInv'
  <2>1. CASE at[t] = base[t]
    BY <1>6, <2>1 DEF SkipSent, Return
  <2>2. CASE at[t] # base[t]
    <3>1. /\ parent[at[t]] \in created
          /\ depth[at[t]] = depth[parent[at[t]]] + 1
          /\ sendLock[parent[at[t]]] = t
      BY <1>6, <2>2 DEF SkipSent
    <3>2. ASSUME NEW s \in Span, sendLock[s] = t
          PROVE  /\ depth[s] <= depth[parent[at[t]]]
                 /\ depth[s] = depth[parent[at[t]]] => s = parent[at[t]]
      BY <1>6, <2>2, <3>1, <3>2 DEF SkipSent
    <3>3. \A u \in Thread : FrameInv(u)'
      BY <1>6, <2>2, <3>1 DEF SkipSent, Return
    <3>4. \A u \in Thread, s \in Span : HeldInv(u, s)'
      BY <1>6, <2>2, <3>1, <3>2 DEF SkipSent, Return
    <3> QED
      BY <1>6, <3>3, <3>4 DEF SkipSent
  <2> QED
    BY <2>1, <2>2
<1>7. ASSUME NEW t \in Thread, Acquire(t) PROVE LockInv'
  BY <1>7 DEF Acquire, Goto
<1>8. ASSUME NEW t \in Thread, SendChild(t) PROVE LockInv'
  BY <1>8 DEF SendChild
<1>9. ASSUME NEW t \in Thread, NEW from \in Sending, NEW to \in Sending,
             pc[t] = from, Goto(t, to), UNCHANGED <<treeVars, sendLock>>
      PROVE  LockInv'
  BY <1>9 DEF Goto
<1>10. ASSUME NEW t \in Thread, Unlink(t) PROVE LockInv'
  <2>1. CASE at[t] = base[t]
    <3>1. \A s \in Span : sendLock[s] = t => s = at[t]
      BY <1>10, <2>1 DEF Unlink
    <3>2. \A u \in Thread : FrameInv(u)'
      BY <1>10, <2>1 DEF Unlink, Return
    <3>3. \A u \in Thread, s \in Span : HeldInv(u, s)'
      BY <1>10, <2>1, <3>1 DEF Unlink, Return
    <3> QED
      BY <1>10, <3>2, <3>3 DEF Unlink
  <2>2. CASE at[t] # base[t]
    <3>1. /\ parent[at[t]] \in created
          /\ depth[at[t]] = depth[parent[at[t]]] + 1
          /\ sendLock[parent[at[t]]] = t
      BY <1>10, <2>2 DEF Unlink
    <3> QED
      BY <1>10, <2>2, <3>1 DEF Unlink, Return
  <2> QED
    BY <2>1, <2>2
<1> HIDE DEF TypeOK, VariableTypes, TreeInv, LockInv, FrameInv, HeldInv
<1>11. ASSUME NEW t \in Thread, NEW s \in Span,
              AddField(t, s) \/ AddTraceField(t) \/ TraceSend(t)
       PROVE  LockInv'
  BY <1>1, <1>5, <1>11 DEF AddField, AddTraceField, TraceSend
<1>12. ASSUME NEW t \in Thread,
              \/ Finish(t) \/ Snapshot(t) \/ ChildrenSent(t)
              \/ CopyTraceFields(t) \/ Classify(t) \/ Sample(t)
              \/ Dispatch(t) \/ Drop(t) \/ Mark(t)
       PROVE  LockInv'
  BY <1>9, <1>12
  DEF Finish, Snapshot, ChildrenSent, CopyTraceFields, Classify, Sample,
      Dispatch, Drop, Mark
<1>13. ASSUME UNCHANGED vars PROVE LockInv'
  BY <1>1, <1>13 DEF vars
<1> QED
  BY <1>2, <1>3, <1>4, <1>5, <1>6, <1>7, <1>8, <1>10, <1>11, <1>12, <1>13
  DEF Next, Call, Step

-------------------------------------------------------------------------------
(* The stages of a Send.                                                   *)

LEMMA SendStep ==
  TypeOK /\ TreeInv /\ LockInv /\ SendInv /\ [Next]_vars => SendInv'
<1> SUFFICES ASSUME TypeOK, TreeInv, LockInv, SendInv, [Next]_vars
             PROVE  SendInv'
  OBVIOUS
<1> USE DEF TypeOK, VariableTypes, TreeInv, LockInv, FrameInv, HeldInv, InSend,
            SendInv, StageInv, WaitingInv, SpanInv, AllSent, Deciding,
            Sending, Stage, treeVars, lockVars, cascadeVars, dataVars,
            controlVars
<1> USE RootAssumption, ThreadAssumption
<1>1. CASE UNCHANGED <<treeVars, isSent, sendLock, cascadeVars, sends,
                       controlVars>>
  BY <1>1
<1>2. ASSUME NEW t \in Thread, NEW p \in Span, NEW c \in Span,
             NEW async \in BOOLEAN, CreateChild(t, p, c, async)
      PROVE  SendInv'
  BY <1>2 DEF CreateChild
<1>3. ASSUME NEW t \in Thread, NEW s \in Span, AddTraceRollup(t, s)
      PROVE  SendInv'
  BY <1>3 DEF AddTraceRollup
<1>4. ASSUME NEW t \in Thread, AddSpanRollup(t) PROVE SendInv'
  BY <1>4 DEF AddSpanRollup
<1>5. ASSUME NEW t \in Thread, NEW s \in Span, CallSend(t, s)
      PROVE  SendInv'
  BY <1>5 DEF CallSend
<1>6. ASSUME NEW t \in Thread, SkipSent(t) PROVE SendInv'
  <2>1. \A u \in Thread : StageInv(u)'
    BY <1>6 DEF SkipSent, Return
  <2>2. \A u \in Thread, s \in Span : WaitingInv(u, s)'
    BY <1>6 DEF SkipSent, Return
  <2> QED
    BY <1>6, <2>1, <2>2 DEF SkipSent
<1>7. ASSUME NEW t \in Thread, Acquire(t) PROVE SendInv'
  BY <1>7 DEF Acquire, Goto
<1>8. ASSUME NEW t \in Thread, Snapshot(t) PROVE SendInv'
  BY <1>8 DEF Snapshot, Goto
<1>9. ASSUME NEW t \in Thread, SendChild(t) PROVE SendInv'
  BY <1>9 DEF SendChild
<1>10. ASSUME NEW t \in Thread, ChildrenSent(t) PROVE SendInv'
  BY <1>10 DEF ChildrenSent, Goto
<1>11. ASSUME NEW t \in Thread, Dispatch(t) PROVE SendInv'
  BY <1>11 DEF Dispatch, Goto
<1>12. ASSUME NEW t \in Thread, Mark(t) PROVE SendInv'
  BY <1>12 DEF Mark, Goto
<1>13. ASSUME NEW t \in Thread, Unlink(t) PROVE SendInv'
  <2>1. CASE at[t] = base[t]
    <3>1. \A s \in Span : sendLock[s] = t => s = at[t]
      BY <1>13, <2>1 DEF Unlink
    <3> QED
      BY <1>13, <2>1, <3>1 DEF Unlink, Return
  <2>2. CASE at[t] # base[t]
    <3>1. /\ parent[at[t]] \in created
          /\ depth[at[t]] = depth[parent[at[t]]] + 1
          /\ sendLock[parent[at[t]]] = t
          /\ parent[at[t]] \in snapped
          /\ ~isSent[parent[at[t]]]
          /\ sends[parent[at[t]]] = 0
      BY <1>13, <2>2 DEF Unlink
    <3>2. \A c \in childrenToSend[parent[at[t]]] :
            sendLock[c] = t => c = at[t]
      BY <1>13, <2>2, <3>1 DEF Unlink
    <3>3. ASSUME NEW u \in Thread PROVE StageInv(u)'
      <4>1. CASE u = t
        BY <1>13, <2>2, <3>1, <3>2, <4>1 DEF Unlink, Return
      <4>2. CASE u # t
        BY <1>13, <2>2, <4>2 DEF Unlink, Return
      <4> QED
        BY <4>1, <4>2
    <3>4. \A u \in Thread, s \in Span : WaitingInv(u, s)'
      BY <1>13, <2>2, <3>1 DEF Unlink, Return
    <3>5. \A s \in Span : SpanInv(s)'
      BY <1>13, <2>2 DEF Unlink
    <3> QED
      BY <1>13, <3>3, <3>4, <3>5 DEF Unlink
  <2> QED
    BY <2>1, <2>2
<1>14. ASSUME NEW t \in Thread, Finish(t) PROVE SendInv'
  BY <1>14 DEF Finish, Goto
<1>15. ASSUME NEW t \in Thread,
              \/ CopyTraceFields(t) \/ Classify(t) \/ Sample(t) \/ Drop(t)
       PROVE  SendInv'
  BY <1>15 DEF CopyTraceFields, Classify, Sample, Drop, Goto
<1> HIDE DEF TypeOK, VariableTypes, TreeInv, LockInv, SendInv
<1>16. ASSUME NEW t \in Thread, NEW s \in Span,
              AddField(t, s) \/ AddTraceField(t) \/ TraceSend(t)
       PROVE  SendInv'
  BY <1>1, <1>5, <1>16 DEF AddField, AddTraceField, TraceSend
<1>17. ASSUME UNCHANGED vars PROVE SendInv'
  BY <1>1, <1>17 DEF vars
<1> QED
  BY <1>2, <1>3, <1>4, <1>5, <1>6, <1>7, <1>8, <1>9, <1>10, <1>11, <1>12,
     <1>13, <1>14, <1>15, <1>16, <1>17
  DEF Next, Call, Step

-------------------------------------------------------------------------------
(* The children.                                                           *)

LEMMA ChildStep == IInv /\ [Next]_vars => ChildInv'
<1> SUFFICES ASSUME IInv, [Next]_vars PROVE ChildInv'
  OBVIOUS
<1> USE DEF IInv, TypeOK, VariableTypes, TreeInv, LockInv, FrameInv, HeldInv,
            InSend, SendInv, StageInv, WaitingInv, SpanInv, Deciding, ChildInv,
            LinkedUntilSent, LeafHasNoOpenChild, Sending, Stage, treeVars,
            lockVars, cascadeVars, dataVars, controlVars
<1> USE RootAssumption, ThreadAssumption
<1>1. CASE UNCHANGED <<treeVars, isSent, cascadeVars, event, controlVars>>
  BY <1>1
<1>2. ASSUME NEW t \in Thread, NEW p \in Span, NEW c \in Span,
             NEW async \in BOOLEAN, CreateChild(t, p, c, async)
      PROVE  ChildInv'
  BY <1>2 DEF CreateChild
<1>3. ASSUME NEW t \in Thread, NEW s \in Span, AddTraceRollup(t, s)
      PROVE  ChildInv'
  BY <1>3 DEF AddTraceRollup
<1>4. ASSUME NEW t \in Thread, AddSpanRollup(t) PROVE ChildInv'
  BY <1>4 DEF AddSpanRollup
<1>5. ASSUME NEW t \in Thread, NEW s \in Span, CallSend(t, s)
      PROVE  ChildInv'
  BY <1>5 DEF CallSend
<1>6. ASSUME NEW t \in Thread, SkipSent(t) PROVE ChildInv'
  <2>1. \A u \in Thread, c \in Span :
          (at'[u] = c /\ pc'[u] = "unlink") <=> (at[u] = c /\ pc[u] = "unlink")
    BY <1>6 DEF SkipSent, Return
  <2>2. LinkedUntilSent'
    BY <1>6, <2>1 DEF SkipSent
  <2> QED
    BY <1>6, <2>2 DEF SkipSent
<1>7. ASSUME NEW t \in Thread, Acquire(t) PROVE ChildInv'
  BY <1>7 DEF Acquire, Goto, Event
<1>8. ASSUME NEW t \in Thread, Snapshot(t) PROVE ChildInv'
  BY <1>8 DEF Snapshot, Goto
<1>9. ASSUME NEW t \in Thread, SendChild(t) PROVE ChildInv'
  BY <1>9 DEF SendChild
<1>10. ASSUME NEW t \in Thread, Mark(t) PROVE ChildInv'
  BY <1>10 DEF Mark, Goto
<1>11. ASSUME NEW t \in Thread, Unlink(t) PROVE ChildInv'
  <2>1. \A u \in Thread \ {t} : at'[u] = at[u] /\ pc'[u] = pc[u]
    BY <1>11 DEF Unlink, Return
  <2>2. pc'[t] # "unlink" /\ isSent[at[t]]
    BY <1>11 DEF Unlink, Return
  <2>3. \A u \in Thread \ {t} : pc[u] = "unlink" => at[u] # at[t]
    BY <1>11 DEF Unlink
  <2>4. ASSUME NEW c \in created \ {Root}
        PROVE  c \in children'[parent[c]]
                 <=> (~isSent[c] \/ \E u \in Thread :
                                      at'[u] = c /\ pc'[u] = "unlink")
    <3>1. CASE c = at[t]
      <4>1. c \notin children'[parent[c]]
        BY <1>11, <3>1 DEF Unlink
      <4>2. isSent[c] /\ \A u \in Thread : ~(at'[u] = c /\ pc'[u] = "unlink")
        BY <2>1, <2>2, <2>3, <3>1
      <4> QED
        BY <4>1, <4>2
    <3>2. CASE c # at[t]
      <4>1. c \in children'[parent[c]] <=> c \in children[parent[c]]
        BY <1>11, <3>2 DEF Unlink
      <4>2. \A u \in Thread : (at'[u] = c /\ pc'[u] = "unlink")
                                <=> (at[u] = c /\ pc[u] = "unlink")
        BY <2>1, <2>2, <3>2
      <4> QED
        BY <4>1, <4>2
    <3> QED
      BY <3>1, <3>2
  <2>5. LinkedUntilSent'
    BY <1>11, <2>4 DEF Unlink
  <2> QED
    BY <1>11, <2>5 DEF Unlink
<1>12. ASSUME NEW t \in Thread, Finish(t) PROVE ChildInv'
  BY <1>12 DEF Finish, Goto, Event
<1>13. ASSUME NEW t \in Thread, CopyTraceFields(t) PROVE ChildInv'
  BY <1>13 DEF CopyTraceFields, Goto, Event
<1>14. ASSUME NEW t \in Thread, Classify(t) PROVE ChildInv'
  <2>1. at[t] \in Span /\ at[t] \in snapped
    BY <1>14 DEF Classify
  <2>2. \A s \in Span : event'[s].byParent = event[s].byParent
    BY <1>14, <2>1 DEF Classify, Event
  <2>3. /\ event'[at[t]].type = TypeOf(at[t])
        /\ \A s \in Span \ {at[t]} : event'[s] = event[s]
    BY <1>14, <2>1 DEF Classify, Event
  <2>4. LinkedUntilSent'
    BY <1>14 DEF Classify, Goto
  <2>5. ASSUME NEW c \in created \ (late \cup {Root}),
               event'[parent[c]].type = "leaf"
        PROVE  isSent[c]
    <3>1. CASE parent[c] = at[t]
      <4>1. c \notin children[parent[c]]
        BY <2>3, <2>5, <3>1 DEF TypeOf
      <4> QED
        BY <4>1
    <3>2. CASE parent[c] # at[t]
      BY <2>3, <2>5, <3>2
    <3> QED
      BY <3>1, <3>2
  <2>6. LeafHasNoOpenChild'
    BY <1>14, <2>5 DEF Classify
  <2>7. \A p \in Span : event'[p].type = "leaf" => p \in snapped
    BY <2>1, <2>3
  <2> QED
    BY <1>14, <2>2, <2>4, <2>6, <2>7 DEF Classify
<1>15. ASSUME NEW t \in Thread,
              ChildrenSent(t) \/ Sample(t) \/ Dispatch(t) \/ Drop(t)
       PROVE  ChildInv'
  BY <1>15 DEF ChildrenSent, Sample, Dispatch, Drop, Goto
<1>16. ASSUME NEW t \in Thread, NEW s \in Span, AddField(t, s)
       PROVE  ChildInv'
  BY <1>16 DEF AddField, Event
<1> HIDE DEF IInv, ChildInv
<1>17. ASSUME NEW t \in Thread, AddTraceField(t) \/ TraceSend(t)
       PROVE  ChildInv'
  BY <1>1, <1>5, <1>17 DEF AddTraceField, TraceSend
<1>18. ASSUME UNCHANGED vars PROVE ChildInv'
  BY <1>1, <1>18 DEF vars
<1> QED
  BY <1>2, <1>3, <1>4, <1>5, <1>6, <1>7, <1>8, <1>9, <1>10, <1>11, <1>12,
     <1>13, <1>14, <1>15, <1>16, <1>17, <1>18
  DEF Next, Call, Step

-------------------------------------------------------------------------------
(* The theorems.                                                           *)

LEMMA Inductive == Spec => []IInv
<1>1. Init => IInv
  <2>1. Init => TypeOK
    BY TypeInit DEF Init, TypeOK
  <2>2. Init => TreeInv /\ LockInv /\ SendInv
    BY RootAssumption, ThreadAssumption
    DEF Init, TreeInv, LockInv, FrameInv, HeldInv, InSend, Sending, SendInv,
        StageInv, WaitingInv, SpanInv, AllSent, Deciding
  <2>3. Init => ChildInv
    BY DEF Init, ChildInv, LinkedUntilSent, LeafHasNoOpenChild, NewEvent
  <2> QED
    BY <2>1, <2>2, <2>3 DEF IInv
<1>2. IInv /\ [Next]_vars => IInv'
  <2> SUFFICES ASSUME IInv, [Next]_vars PROVE IInv'
    OBVIOUS
  <2>1. VariableTypes' /\ TreeInv' /\ LockInv' /\ SendInv' /\ ChildInv'
    BY TypeStep, TreeStep, LockStep, SendStep, ChildStep DEF IInv
  <2>2. TypeOK'
    BY <2>1 DEF TypeOK, LockInv, FrameInv
  <2> QED
    BY <2>1, <2>2 DEF IInv
<1> QED
  BY <1>1, <1>2, PTL DEF Spec

\* The variables keep their types in every behaviour of the package; the frame
\* that Return resumes is always there (struct Span, sendLocked).
THEOREM TypeCorrect == Spec => []TypeOK
<1>1. IInv => TypeOK
  BY DEF IInv
<1> QED
  BY Inductive, <1>1, PTL

\* No span is handed to libhoney twice, for any tree and any number of
\* goroutines that call Send (Send, sendByParent, sendLocked).
THEOREM AtMostOnce == Spec => []SentOnce
<1>1. IInv => SentOnce
  BY DEF IInv, SendInv, SpanInv, SentOnce
<1> QED
  BY Inductive, <1>1, PTL

\* A span's own dispatch begins after that of the synchronous children it had
\* when it looked (sendLocked).
THEOREM ChildrenFirst == Spec => []SyncChildrenGoFirst
<1>1. IInv => SyncChildrenGoFirst
  <2> SUFFICES ASSUME IInv, NEW c \in created \ (late \cup {Root}),
                      ~isAsync[c], CascadeOver(parent[c])
               PROVE  isSent[c]
    BY DEF SyncChildrenGoFirst
  <2>1. parent[c] \in snapped /\ AllSent(childrenToSend[parent[c]])
    BY DEF IInv, TypeOK, VariableTypes, TreeInv, SendInv, StageInv, SpanInv,
           Deciding, Sending, CascadeOver
  <2> QED
    BY <2>1 DEF IInv, ChildInv, AllSent
<1> QED
  BY Inductive, <1>1, PTL

\* Only a synchronous child its parent had queued is sent by the parent
\* (sendByParent).
THEOREM AsyncUntouched == Spec => []AsyncOutlivesParent
<1>1. IInv => AsyncOutlivesParent
  BY DEF IInv, TypeOK, VariableTypes, TreeInv, ChildInv, AsyncOutlivesParent
<1> QED
  BY Inductive, <1>1, PTL

\* A span is in its parent's children exactly while it is unsent
\* (createChildSpan, removeChildSpan).
THEOREM NeitherLostNorKept == Spec => []LinkedUntilSent
<1>1. IInv => LinkedUntilSent
  BY DEF IInv, ChildInv
<1> QED
  BY Inductive, <1>1, PTL

\* The order in which sendLocks are taken has no cycle (Send, sendByParent).
THEOREM LockOrder == Spec => []LocksGoDown
<1>1. IInv => LocksGoDown
  <2> SUFFICES ASSUME IInv, NEW t \in Thread, NEW s \in Span,
                      pc[t] = "acquire", sendLock[s] = t
               PROVE  depth[s] < depth[at[t]]
    BY DEF LocksGoDown
  <2>1. HeldInv(t, s)
    BY DEF IInv, LockInv
  <2>2. depth[s] \in Nat /\ depth[at[t]] \in Nat
    BY DEF IInv, TypeOK, VariableTypes
  <2> QED
    BY <2>1, <2>2 DEF HeldInv
<1> QED
  BY Inductive, <1>1, PTL

\* A leaf has no open child but those that came too late (send).
THEOREM LeavesAreLeaves == Spec => []LeafHasNoOpenChild
<1>1. IInv => LeafHasNoOpenChild
  BY DEF IInv, ChildInv
<1> QED
  BY Inductive, <1>1, PTL

-------------------------------------------------------------------------------
(* SpanTree implements SpanLifecycle: a step closes one span, finishes one *)
(* span, creates one, or changes nothing the abstract specification sees.  *)

LEMMA ImplementsInit == Init => Lifecycle!Init
  BY RootAssumption DEF Init, Lifecycle!Init, Status, Decided

LEMMA StutterStep ==
  ASSUME IInv, UNCHANGED <<created, parent, isAsync, late, sends, snapped>>,
         \A s \in Span : Decided(s)' <=> Decided(s)
  PROVE  UNCHANGED Lifecycle!vars
  BY DEF Lifecycle!vars, Status

\* A step of t leaves the decisions alone unless the hooks of t return.
LEMMA DecidedSteps ==
  ASSUME IInv, NEW t \in Thread, Call(t) \/ Step(t), pc[t] # "hooks"
  PROVE  \A s \in Span : Decided(s)' <=> Decided(s)
<1> USE DEF IInv, TypeOK, VariableTypes, treeVars, lockVars, cascadeVars,
            dataVars, controlVars, Goto, Return
<1>1. \A u \in Thread \ {t} : at'[u] = at[u] /\ pc'[u] = pc[u]
  BY DEF Call, Step, CreateChild, AddField, AddTraceField, AddTraceRollup,
         CallSend, TraceSend, AddSpanRollup, SkipSent, Acquire, Finish,
         Snapshot, SendChild, ChildrenSent, CopyTraceFields, Classify, Sample,
         Dispatch, Drop, Mark, Unlink
<1>2. CASE pc[t] = "mark"
  <2>1. Mark(t)
    BY <1>2
    DEF Call, Step, CreateChild, AddField, AddTraceField, AddTraceRollup,
        CallSend, TraceSend, AddSpanRollup, SkipSent, Acquire, Finish,
        Snapshot, SendChild, ChildrenSent, CopyTraceFields, Classify, Sample,
        Dispatch, Drop, Unlink
  <2> QED
    BY <1>1, <1>2, <2>1 DEF Mark, Decided
<1>3. CASE pc[t] # "mark"
  <2>1. isSent' = isSent /\ pc'[t] # "mark"
    BY <1>3
    DEF Call, Step, CreateChild, AddField, AddTraceField, AddTraceRollup,
        CallSend, TraceSend, AddSpanRollup, SkipSent, Acquire, Finish,
        Snapshot, SendChild, ChildrenSent, CopyTraceFields, Classify, Sample,
        Dispatch, Drop, Mark, Unlink
  <2> QED
    BY <1>1, <1>3, <2>1 DEF Decided
<1> QED
  BY <1>2, <1>3

LEMMA CreateImplements ==
  ASSUME IInv, NEW t \in Thread, NEW p \in Span, NEW c \in Span,
         NEW async \in BOOLEAN, CreateChild(t, p, c, async)
  PROVE  Lifecycle!Create(p, c)
<1>1. \A s \in Span : Decided(s)' <=> Decided(s)
  <2>1. pc[t] = "idle" /\ Call(t)
    BY DEF Call, CreateChild
  <2> QED
    BY <2>1, DecidedSteps
<1>2. ~Decided(c) /\ c \notin snapped /\ c # p
  BY DEF CreateChild, Decided, IInv, TypeOK, SendInv, SpanInv
<1>3. p \notin snapped => ~Decided(p)
  BY DEF Decided, IInv, TypeOK, VariableTypes, SendInv, SpanInv, StageInv
<1>4. /\ Status(p) # "absent"
      /\ Status(c) = "absent"
      /\ p \notin snapped => Status(p) = "open"
  BY <1>3 DEF CreateChild, Status
<1>5. [s \in Span |-> Status(s)]'
        = [[s \in Span |-> Status(s)] EXCEPT ![c] = "open"]
  BY <1>1, <1>2 DEF CreateChild, Status, cascadeVars
<1>6. {s \in created : isAsync[s] \/ s \in late}'
        = {s \in created : isAsync[s] \/ s \in late}
            \cup (IF async \/ p \in snapped THEN {c} ELSE {})
  BY <1>2 DEF CreateChild, IInv, TypeOK, VariableTypes, TreeInv
<1> QED
  BY <1>4, <1>5, <1>6 DEF Lifecycle!Create, CreateChild

LEMMA SnapshotImplements ==
  ASSUME IInv, NEW t \in Thread, Snapshot(t)
  PROVE  Lifecycle!Close(at[t])
<1>1. \A s \in Span : Decided(s)' <=> Decided(s)
  BY DecidedSteps DEF Step, Snapshot
<1>2. /\ at[t] \in created
      /\ at[t] \in Span
      /\ at[t] \notin snapped
      /\ ~Decided(at[t])
  BY DEF Snapshot, Decided, IInv, TypeOK, VariableTypes, SendInv, SpanInv,
         StageInv
<1>3. [s \in Span |-> Status(s)]'
        = [[s \in Span |-> Status(s)] EXCEPT ![at[t]] = "closing"]
  BY <1>1, <1>2 DEF Snapshot, Status, treeVars
<1> QED
  BY <1>2, <1>3 DEF Lifecycle!Close, Status, Snapshot, treeVars

LEMMA HooksImplement ==
  ASSUME IInv, NEW t \in Thread, Dispatch(t) \/ Drop(t)
  PROVE  Lifecycle!Finish(at[t])
<1> DEFINE r == at[t]
<1>1. /\ r \in created /\ r \in Span
      /\ r \in snapped /\ ~isSent[r]
      /\ AllSent(childrenToSend[r])
      /\ pc[t] = "hooks" /\ sendLock[r] = t
  BY DEF Dispatch, Drop, IInv, TypeOK, VariableTypes, SendInv, StageInv,
         Deciding, Sending, LockInv, FrameInv
<1>2. \A u \in Thread \ {t} : pc[u] = "mark" => at[u] # r
  BY <1>1 DEF IInv, LockInv, FrameInv, Sending
<1>3. ~Decided(r)
  BY <1>1, <1>2 DEF Decided
<1>4. \A s \in Span : Decided(s)' <=> (Decided(s) \/ s = r)
  BY <1>1 DEF Dispatch, Drop, Goto, Decided, IInv, TypeOK, VariableTypes
<1>5. [s \in Span |-> Status(s)]'
        = [[s \in Span |-> Status(s)] EXCEPT ![r] = "finished"]
  BY <1>1, <1>4 DEF Dispatch, Drop, Status, treeVars, cascadeVars
<1>6. Status(r) = "closing"
  BY <1>1, <1>3 DEF Status
<1>7. ASSUME NEW c \in Span \ {s \in created : isAsync[s] \/ s \in late},
             parent[c] = r
      PROVE  Status(c) = "finished"
  <2>1. c \in created \ (late \cup {Root}) /\ ~isAsync[c]
    BY <1>1, <1>7, RootAssumption DEF IInv, TreeInv
  <2>2. isSent[c]
    BY <1>1, <1>7, <2>1 DEF IInv, ChildInv, AllSent
  <2> QED
    BY <2>1, <2>2 DEF Status, Decided
<1>8. \/ sends' = [sends EXCEPT ![r] = @ + 1]
      \/ sends' = sends
  BY DEF Dispatch, Drop
<1>9. UNCHANGED <<parent, {s \in created : isAsync[s] \/ s \in late}>>
  BY DEF Dispatch, Drop, treeVars
<1> QED
  BY <1>5, <1>6, <1>7, <1>8, <1>9, <1>1 DEF Lifecycle!Finish

LEMMA ImplementsStep == IInv /\ [Next]_vars => [Lifecycle!Next]_(Lifecycle!vars)
<1> SUFFICES ASSUME IInv, [Next]_vars
             PROVE  [Lifecycle!Next]_(Lifecycle!vars)
  OBVIOUS
<1>1. CASE UNCHANGED vars
  BY <1>1, StutterStep
  DEF vars, treeVars, cascadeVars, controlVars, Decided
<1>2. ASSUME NEW t \in Thread, NEW p \in Span, NEW c \in Span,
             NEW async \in BOOLEAN, CreateChild(t, p, c, async)
      PROVE  Lifecycle!Next
  BY <1>2, CreateImplements DEF Lifecycle!Next
<1>3. ASSUME NEW t \in Thread, Snapshot(t) PROVE Lifecycle!Next
  BY <1>3, SnapshotImplements
  DEF Lifecycle!Next, Snapshot, IInv, TypeOK, VariableTypes
<1>4. ASSUME NEW t \in Thread, Dispatch(t) \/ Drop(t) PROVE Lifecycle!Next
  BY <1>4, HooksImplement
  DEF Lifecycle!Next, Dispatch, Drop, IInv, TypeOK, VariableTypes
<1>5. ASSUME NEW t \in Thread, NEW s \in Span,
             \/ AddField(t, s) \/ AddTraceField(t) \/ AddTraceRollup(t, s)
             \/ CallSend(t, s) \/ TraceSend(t)
      PROVE  UNCHANGED Lifecycle!vars
  <2>1. /\ pc[t] # "hooks" /\ Call(t)
        /\ UNCHANGED <<created, parent, isAsync, late, sends, snapped>>
    BY <1>5
    DEF Call, AddField, AddTraceField, AddTraceRollup, CallSend, TraceSend,
        treeVars, cascadeVars
  <2> QED
    BY <2>1, DecidedSteps, StutterStep
<1>6. ASSUME NEW t \in Thread,
             \/ AddSpanRollup(t) \/ SkipSent(t) \/ Acquire(t) \/ Finish(t)
             \/ SendChild(t) \/ ChildrenSent(t) \/ CopyTraceFields(t)
             \/ Classify(t) \/ Sample(t) \/ Mark(t) \/ Unlink(t)
      PROVE  UNCHANGED Lifecycle!vars
  <2>1. /\ pc[t] # "hooks" /\ Step(t)
        /\ UNCHANGED <<created, parent, isAsync, late, sends, snapped>>
    BY <1>6
    DEF Step, AddSpanRollup, SkipSent, Acquire, Finish, SendChild,
        ChildrenSent, CopyTraceFields, Classify, Sample, Mark, Unlink,
        treeVars, cascadeVars
  <2> QED
    BY <2>1, DecidedSteps, StutterStep
<1> QED
  BY <1>1, <1>2, <1>3, <1>4, <1>5, <1>6, RootAssumption DEF Next, Call, Step

\* Every behaviour of the package, for any tree and any number of goroutines,
\* is one that SpanLifecycle allows (createChildSpan, Send, sendByParent,
\* sendLocked, send).
THEOREM Implementation == Spec => ImplementsLifecycle
<1>1. IInv /\ [Next]_vars => [Lifecycle!Next]_(Lifecycle!vars)
  BY ImplementsStep
<1> QED
  BY Inductive, ImplementsInit, <1>1, PTL
  DEF Spec, ImplementsLifecycle, Lifecycle!Spec
===============================================================================
