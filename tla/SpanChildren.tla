----------------------------- MODULE SpanChildren -----------------------------
(***************************************************************************)
(* The slice Span.children of one parent span (trace/trace.go), which      *)
(* SpanTree takes for a set.  A Go slice is a header, an array and a       *)
(* length, and several headers may share an array: removeChildSpan shifts  *)
(* the array in place, createChildSpan writes behind its end or moves to a *)
(* larger one, and GetChildren hands the header itself to the user, who    *)
(* walks it without a lock.  The cascade of the parent's Send walks too,   *)
(* but over a copy.                                                        *)
(***************************************************************************)
EXTENDS Naturals, FiniteSets, Sequences, SequencesExt

CONSTANTS
  Child,      \* the children the process may create below the parent
  Walker,     \* the goroutines that walk the result of GetChildren
  NoSpan      \* nil, as a *Span

ASSUME NoSpanAssumption == NoSpan \notin Child
ASSUME ChildAssumption == IsFiniteSet(Child)

VARIABLES
  heap,       \* the arrays allocated so far, each a sequence as long as its cap
  children,   \* Span.children: a slice
  status,     \* "absent", "open", "marked" (isSent, still linked) or "gone"
  isAsync,    \* Span.isAsync
  sender,     \* the parent's Send: "idle", "cascade" or "done"
  queue,      \* childrenToSend: a slice
  sending,    \* the loop's position in childrenToSend
  child,      \* the loop's variable, nil between two children
  walk,       \* each walker's place, slice, position and visited children
  \* History: never read by a guard or by another variable.
  queued,     \* the synchronous children linked when the cascade began
  peak        \* the most children ever linked at one time

vars == <<heap, children, status, isAsync, sender, queue, sending, child,
          walk, queued, peak>>

-------------------------------------------------------------------------------
(* Slices.                                                                 *)

Slice == [array: Nat, len: Nat]
nil == [array |-> 0, len |-> 0]

Cap(s) == IF s.array = 0 THEN 0 ELSE Len(heap[s.array])

\* The elements of a slice.
Elements(s) ==
  IF s.array = 0 THEN <<>> ELSE SubSeq(heap[s.array], 1, s.len)

\* A walker has loaded nothing, one word of the header ("array", "len"), or is
\* in the loop; linked and disturbed are history.
WalkPlace == {"start", "array", "len", "loop", "done", "wild"}
NotWalking == [pc |-> "start", array |-> 0, len |-> 0, next |-> 1,
               visited |-> {}, linked |-> {}, disturbed |-> FALSE]

Linked == {c \in Child : status[c] \in {"open", "marked"}}

Init ==
  /\ heap = <<>>
  /\ children = nil
  /\ status = [c \in Child |-> "absent"]
  /\ isAsync = [c \in Child |-> FALSE]
  /\ sender = "idle"
  /\ queue = nil
  /\ sending = 1
  /\ child = NoSpan
  /\ walk = [w \in Walker |-> NotWalking]
  /\ queued = {}
  /\ peak = 0

\* The synchronous children in the order they are in.
Ascending(S) ==
  CHOOSE place \in [1 .. Cardinality(S) -> S] :
    \A i, j \in DOMAIN place : i < j => place[i] < place[j]

SyncPlaces == {i \in 1 .. children.len : ~isAsync[heap[children.array][i]]}
SyncChildren == [i \in 1 .. Cardinality(SyncPlaces) |->
                   heap[children.array][Ascending(SyncPlaces)[i]]]

-------------------------------------------------------------------------------
(* Seeded faults.  Each is one of the definitions below with a plausible   *)
(* bug in it; none is part of Next.  README.md says which property each    *)
(* one breaks.                                                             *)

\* childrenToSend is the slice of the children itself.
CopyOfAlias == [heap |-> heap, slice |-> children]

\* A new child is put before the others, in place.
AppendedInFront(c) ==
  LET full == children.len = Cap(children)
      old == Elements(children)
      room == IF full THEN 2 * children.len + 1 ELSE Cap(children)
      array == [i \in 1 .. room |->
                  IF i = 1 THEN c
                  ELSE IF i <= children.len + 1 THEN old[i - 1] ELSE NoSpan] IN
  IF full THEN [heap |-> Append(heap, array),
                slice |-> [array |-> Len(heap) + 1, len |-> children.len + 1]]
  ELSE [heap |-> [heap EXCEPT ![children.array] = array],
        slice |-> [children EXCEPT !.len = @ + 1]]

\* The shift starts one element too late.
RemovedLate(index) ==
  [i \in DOMAIN heap[children.array] |->
     IF index < i /\ i < children.len
     THEN heap[children.array][i + 1] ELSE heap[children.array][i]]

\* make([]*Span, len(s.children)): the copy begins with as many nils.
CopyAfterNils ==
  LET sync == SyncChildren
      nils == [i \in 1 .. children.len |-> NoSpan] IN
  [heap |-> Append(heap, nils \o sync),
   slice |-> [array |-> Len(heap) + 1, len |-> children.len + Len(sync)]]

\* removeChildSpan does not find the child.
RemoveNothing(c) == UNCHANGED <<heap, children>>

-------------------------------------------------------------------------------
(* The operations of the parent on the slice, each under childrenLock.     *)

\* The capacity append gives a slice of pointers that is full.
Grown(cap) == IF cap = 0 THEN 1 ELSE 2 * cap

\* append(s.children, newSpan): in place while there is room.
Appended(c) ==
  IF children.len < Cap(children)
  THEN [heap |-> [heap EXCEPT ![children.array][children.len + 1] = c],
        slice |-> [children EXCEPT !.len = @ + 1]]
  ELSE [heap |-> Append(heap, [i \in 1 .. Grown(children.len) |->
                    IF i <= children.len THEN heap[children.array][i]
                    ELSE IF i = children.len + 1 THEN c ELSE NoSpan]),
        slice |-> [array |-> Len(heap) + 1, len |-> children.len + 1]]

CreateChild(c, async) ==
  /\ status[c] = "absent"
  /\ status' = [status EXCEPT ![c] = "open"]
  /\ isAsync' = [isAsync EXCEPT ![c] = async]
  /\ heap' = Appended(c).heap
  /\ children' = Appended(c).slice
  /\ peak' = Max({peak, Cardinality(Linked) + 1})
  /\ UNCHANGED <<sender, queue, sending, child, walk, queued>>

\* append(s.children[:index], s.children[index+1:]...): the array is shifted
\* in place, its last element stays where it is as well.
Removed(index) ==
  [i \in DOMAIN heap[children.array] |->
     IF index <= i /\ i < children.len
     THEN heap[children.array][i + 1] ELSE heap[children.array][i]]

\* removeChildSpan: the last place the child is found at.
RemoveChild(c) ==
  LET places == {i \in 1 .. children.len : heap[children.array][i] = c} IN
  IF places = {} THEN UNCHANGED <<heap, children>>
  ELSE /\ heap' = [heap EXCEPT ![children.array] = Removed(Max(places))]
       /\ children' = [children EXCEPT !.len = @ - 1]

\* A child's own Send is over but for its last step: isSent is set.
MarkSent(c) ==
  /\ status[c] = "open"
  /\ status' = [status EXCEPT ![c] = "marked"]
  /\ UNCHANGED <<heap, children, isAsync, sender, queue, sending, child, walk,
                 queued, peak>>

\* The last step: it is removed from its parent, and its sendLock is free.
Unlink(c) ==
  /\ status[c] = "marked"
  /\ status' = [status EXCEPT ![c] = "gone"]
  /\ RemoveChild(c)
  /\ walk' = [w \in Walker |-> [walk[w] EXCEPT
                !.disturbed = @ \/ walk[w].pc \in {"array", "len", "loop"}]]
  /\ UNCHANGED <<isAsync, sender, queue, sending, child, queued, peak>>

-------------------------------------------------------------------------------
(* The cascade of the parent's Send.                                       *)

\* make([]*Span, 0, len(s.children)), then append of the synchronous ones;
\* without children childrenToSend stays nil.
CopyOfSync ==
  LET sync == SyncChildren IN
  IF children.len = 0 THEN [heap |-> heap, slice |-> nil]
  ELSE [heap |-> Append(heap, [i \in 1 .. children.len |->
                    IF i <= Len(sync) THEN sync[i] ELSE NoSpan]),
        slice |-> [array |-> Len(heap) + 1, len |-> Len(sync)]]

Snapshot ==
  /\ sender = "idle"
  /\ heap' = CopyOfSync.heap
  /\ queue' = CopyOfSync.slice
  /\ sender' = "cascade"
  /\ queued' = {c \in Linked : ~isAsync[c]}
  /\ UNCHANGED <<children, status, isAsync, sending, child, walk, peak>>

\* for _, child := range childrenToSend
NextChild ==
  /\ sender = "cascade" /\ child = NoSpan /\ sending <= queue.len
  /\ child' = heap[queue.array][sending]
  /\ sending' = sending + 1
  /\ UNCHANGED <<heap, children, status, isAsync, sender, queue, walk,
                 queued, peak>>

\* child.sendByParent(): an open child is sent here, a marked one is waited
\* for at its sendLock.
SendByParent ==
  /\ child # NoSpan /\ status[child] = "open"
  /\ status' = [status EXCEPT ![child] = "marked"]
  /\ UNCHANGED <<heap, children, isAsync, sender, queue, sending, child, walk,
                 queued, peak>>

ChildSent ==
  /\ child # NoSpan /\ status[child] = "gone"
  /\ child' = NoSpan
  /\ UNCHANGED <<heap, children, status, isAsync, sender, queue, sending, walk,
                 queued, peak>>

CascadeDone ==
  /\ sender = "cascade" /\ child = NoSpan /\ sending > queue.len
  /\ sender' = "done"
  /\ UNCHANGED <<heap, children, status, isAsync, queue, sending, child, walk,
                 queued, peak>>

-------------------------------------------------------------------------------
(* A walk: for _, c := range parent.GetChildren().  The header is loaded   *)
(* without childrenLock, its words one after the other, in either order.   *)

Walking(w, changed) ==
  /\ walk' = [walk EXCEPT ![w] = changed]
  /\ UNCHANGED <<heap, children, status, isAsync, sender, queue, sending,
                 child, queued, peak>>

GetChildren(w) ==
  /\ walk[w].pc = "start"
  /\ \/ Walking(w, [walk[w] EXCEPT !.pc = "array", !.linked = Linked,
                                   !.array = children.array])
     \/ Walking(w, [walk[w] EXCEPT !.pc = "len", !.linked = Linked,
                                   !.len = children.len])

GetChildrenRest(w) ==
  \/ /\ walk[w].pc = "array"
     /\ Walking(w, [walk[w] EXCEPT !.pc = "loop", !.len = children.len])
  \/ /\ walk[w].pc = "len"
     /\ Walking(w, [walk[w] EXCEPT !.pc = "loop", !.array = children.array])

\* The loop reads the array as it is now.  Behind the end of the array there
\* is memory of any content: nothing is said of the walker any more.
Visit(w) ==
  /\ walk[w].pc = "loop" /\ walk[w].next <= walk[w].len
  /\ LET slice == [array |-> walk[w].array, len |-> walk[w].len] IN
       IF walk[w].next <= Cap(slice)
       THEN Walking(w, [walk[w] EXCEPT !.next = @ + 1,
              !.visited = @ \cup {heap[slice.array][walk[w].next]}])
       ELSE Walking(w, [walk[w] EXCEPT !.pc = "wild"])

WalkDone(w) ==
  /\ walk[w].pc = "loop" /\ walk[w].next > walk[w].len
  /\ Walking(w, [walk[w] EXCEPT !.pc = "done"])

-------------------------------------------------------------------------------
Next ==
  \/ \E c \in Child, async \in BOOLEAN : CreateChild(c, async)
  \/ \E c \in Child : MarkSent(c) \/ Unlink(c)
  \/ Snapshot \/ NextChild \/ SendByParent \/ ChildSent \/ CascadeDone
  \/ \E w \in Walker :
       GetChildren(w) \/ GetChildrenRest(w) \/ Visit(w) \/ WalkDone(w)

Spec == Init /\ [][Next]_vars

-------------------------------------------------------------------------------
(* Properties.                                                             *)

\* The slices lie within their arrays, everything in an array is a span or
\* nil, and nothing in a slice of the parent is nil (struct Span,
\* createChildSpan, removeChildSpan, sendLocked).
TypeOK ==
  /\ \A a \in DOMAIN heap : heap[a] \in Seq(Child \cup {NoSpan})
  /\ \A s \in {children, queue} :
       /\ s \in Slice /\ s.array \in 0 .. Len(heap) /\ s.len <= Cap(s)
       /\ NoSpan \notin ToSet(Elements(s))
  /\ status \in [Child -> {"absent", "open", "marked", "gone"}]
  /\ isAsync \in [Child -> BOOLEAN]
  /\ sender \in {"idle", "cascade", "done"} /\ sending \in Nat
  /\ child \in Child \cup {NoSpan}
  /\ walk \in [Walker -> [pc: WalkPlace, array: 0 .. Len(heap), len: Nat,
                          next: Nat, visited: SUBSET (Child \cup {NoSpan}),
                          linked: SUBSET Child, disturbed: BOOLEAN]]
  /\ queued \subseteq Child /\ peak \in Nat

\* The slice is the set of children that SpanTree takes it for: each linked
\* child is in it once, and nothing else is (createChildSpan,
\* removeChildSpan).
ListsLinked ==
  /\ ToSet(Elements(children)) = Linked
  /\ IsInjective(Elements(children))

\* When the loop over childrenToSend ends, every synchronous child that was
\* linked when it was collected is sent and unlinked, although each of them
\* shifted the children's array on its way out (sendLocked).
CascadeReachesQueued ==
  sender = "done" => \A c \in queued : status[c] = "gone"

\* A walk over GetChildren during which no child was unlinked sees every child
\* that was linked when it began, whatever children were created meanwhile
\* (GetChildren, createChildSpan).
WalkSeesLinked ==
  \A w \in Walker :
    walk[w].pc = "done" /\ ~walk[w].disturbed => walk[w].linked \subseteq walk[w].visited

\* The spans that only the tail of the array keeps from the collector, and the
\* linked ones, are never more than were linked at one time: a long-lived
\* parent does not collect the children it has had (removeChildSpan).
Retained == {c \in Child : /\ status[c] = "gone" /\ children.array # 0
                           /\ c \in ToSet(heap[children.array])}
RetentionBounded == Cardinality(Retained) + Cardinality(Linked) <= peak

\* As a comment of sendLocked has it: "Remove this span from its parent's
\* children list so that it can be GC'd".
SentSpansReleased == Retained = {}
===============================================================================
