-------------------------- MODULE SpanChildrenProofs --------------------------
(***************************************************************************)
(* Theorems about SpanChildren, for any finite set of children and any     *)
(* walkers: the slices, place by place, hold what the properties say of    *)
(* them as sets.                                                           *)
(***************************************************************************)
EXTENDS SpanChildren, TLAPS, FiniteSetTheorems, WellFoundedInduction

-------------------------------------------------------------------------------
(* The places of a finite set of numbers in ascending order.               *)

IsAscending(f, S) ==
  /\ f \in [1 .. Cardinality(S) -> S]
  /\ \A i, j \in 1 .. Cardinality(S) : i < j => f[i] < f[j]

\* A set of numbers up to n can be listed in ascending order.
LEMMA AscendingExists ==
  ASSUME NEW n \in Nat, NEW S \in SUBSET (1 .. n)
  PROVE  \E f : IsAscending(f, S)
<1> DEFINE Listable(T) == \E f : IsAscending(f, T)
           Bad == {m \in Nat : \E T \in SUBSET (1 .. m) : ~Listable(T)}
<1>1. SUFFICES ASSUME Bad # {} PROVE FALSE
  OBVIOUS
<1>2. PICK x \in Bad : \A y \in Bad : ~(<<y, x>> \in OpToRel(<, Nat))
  <2> HIDE DEF Bad
  <2>1. Bad \subseteq Nat
    BY DEF Bad
  <2> QED
    BY <1>1, <2>1, WFMin, NatLessThanWellFounded
<1>3. \A y \in Bad : ~(y < x)
  BY <1>2 DEF OpToRel
<1>4. PICK T \in SUBSET (1 .. x) : ~Listable(T)
  OBVIOUS
<1>5. x \in Nat
  OBVIOUS
<1>6. IsFiniteSet(T) /\ Cardinality(T) \in Nat
  <2>1. IsFiniteSet(1 .. x)
    BY <1>5, FS_Interval
  <2>2. IsFiniteSet(T)
    BY <2>1, FS_Subset
  <2> QED
    BY <2>2, FS_CardinalityType
<1>7. T # {}
  <2>1. ASSUME T = {} PROVE IsAscending([i \in 1 .. 0 |-> 0], T)
    BY <2>1, FS_EmptySet DEF IsAscending
  <2> QED
    BY <2>1, <1>4
<1>8. x # 0
  <2> HIDE DEF Bad, Listable
  <2>1. 1 .. 0 = {}
    OBVIOUS
  <2> QED
    BY <1>7, <2>1
<1>9. x - 1 \in Nat /\ x - 1 < x
  BY <1>5, <1>8
<1>10. \A U \in SUBSET (1 .. x - 1) : Listable(U)
  BY <1>3, <1>9
<1>11. x \in T
  <2>1. ASSUME x \notin T PROVE T \in SUBSET (1 .. x - 1)
    BY <2>1, <1>5, <1>8
  <2> QED
    BY <2>1, <1>10, <1>4
<1> DEFINE U == T \ {x}
           n1 == Cardinality(T)
<1>12. U \in SUBSET (1 .. x - 1)
  BY <1>5, <1>8
<1>13. PICK f : IsAscending(f, U)
  BY <1>12, <1>10
<1>14. Cardinality(U) = n1 - 1 /\ n1 - 1 \in Nat
  <2>1. Cardinality(U) = n1 - 1
    BY <1>6, <1>11, FS_RemoveElement
  <2>2. IsFiniteSet(U) /\ Cardinality(U) \in Nat
    BY <1>6, FS_Subset, FS_CardinalityType
  <2> QED
    BY <2>1, <2>2
<1> DEFINE g == [i \in 1 .. n1 |-> IF i = n1 THEN x ELSE f[i]]
<1>15. f \in [1 .. n1 - 1 -> U] /\ \A i, j \in 1 .. n1 - 1 : i < j => f[i] < f[j]
  BY <1>13, <1>14 DEF IsAscending
<1>16. IsAscending(g, T)
  <2> HIDE DEF U
  <2>0. U \subseteq T /\ \A u \in U : u \in Nat /\ u < x
    BY <1>12, <1>5, <1>9 DEF U
  <2>01. n1 \in Nat /\ \A i \in 1 .. n1 : i # n1 => i \in 1 .. n1 - 1
    BY <1>6
  <2> HIDE DEF n1
  <2>1. g \in [1 .. n1 -> T]
    BY <1>15, <2>0, <2>01, <1>11
  <2>2. ASSUME NEW i \in 1 .. n1, NEW j \in 1 .. n1, i < j PROVE g[i] < g[j]
    <3>1. i # n1 /\ i \in 1 .. n1 - 1
      BY <2>2, <2>01
    <3>2. CASE j = n1
      BY <3>1, <3>2, <1>15, <2>0
    <3>3. CASE j # n1
      BY <3>1, <3>3, <1>15, <2>01, <2>2
    <3> QED
      BY <3>2, <3>3
  <2> QED
    BY <2>1, <2>2 DEF IsAscending, n1
<1> QED
  BY <1>16, <1>4

\* Ascending(S) is such a list, and no place of S is missing from it.
LEMMA AscendingOnto ==
  ASSUME NEW n \in Nat, NEW S \in SUBSET (1 .. n)
  PROVE  /\ Cardinality(S) \in Nat /\ Cardinality(S) <= n
         /\ Ascending(S) \in [1 .. Cardinality(S) -> S]
         /\ \A s \in S : \E i \in 1 .. Cardinality(S) : Ascending(S)[i] = s
<1> DEFINE m == Cardinality(S)
           f == Ascending(S)
<1>1. IsFiniteSet(S) /\ m \in Nat /\ m <= n
  <2>1. IsFiniteSet(1 .. n) /\ Cardinality(1 .. n) = n
    BY FS_Interval
  <2>2. IsFiniteSet(S) /\ Cardinality(S) <= Cardinality(1 .. n)
    BY <2>1, FS_Subset
  <2>3. m \in Nat
    BY <2>2, FS_CardinalityType
  <2> QED
    BY <2>1, <2>2, <2>3
<1>2. f \in [1 .. m -> S] /\ \A i, j \in 1 .. m : i < j => f[i] < f[j]
  <2>1. \E g \in [1 .. m -> S] : \A i, j \in DOMAIN g : i < j => g[i] < g[j]
    BY AscendingExists DEF IsAscending
  <2> QED
    BY <2>1 DEF Ascending
<1>3. f \in Injection(1 .. m, S)
  <2> HIDE DEF f, m
  <2>1. \A i \in 1 .. m : f[i] \in Nat
    <3>1. \A s \in S : s \in Nat
      OBVIOUS
    <3> QED
      BY <1>2, <3>1
  <2>2. \A i, j \in 1 .. m : f[i] = f[j] => i = j
    BY <1>1, <1>2, <2>1
  <2> QED
    BY <1>2, <2>2 DEF Injection, IsInjective
<1>4. f \in Surjection(1 .. m, S)
  <2>1. IsFiniteSet(1 .. m) /\ Cardinality(1 .. m) = m
    BY <1>1, FS_Interval
  <2> QED
    BY <1>1, <1>3, <2>1, FS_Injection
<1> QED
  BY <1>1, <1>2, <1>4 DEF Surjection

-------------------------------------------------------------------------------
(* The inductive invariant, place by place.                                *)

Element == Child \cup {NoSpan}

HeapOK == heap \in Seq(Seq(Element))

\* The slice s lies in its array and holds no nil.
SliceOK(s) ==
  /\ s \in Slice
  /\ s.array = 0 => s.len = 0
  /\ s.array # 0 => /\ s.array \in 1 .. Len(heap) /\ s.len <= Len(heap[s.array])
                    /\ \A i \in 1 .. s.len : heap[s.array][i] \in Child

StateOK ==
  /\ status \in [Child -> {"absent", "open", "marked", "gone"}]
  /\ isAsync \in [Child -> BOOLEAN]
  /\ sender \in {"idle", "cascade", "done"} /\ sending \in Nat \ {0}
  /\ child \in Element
  /\ queued \subseteq Child /\ peak \in Nat

Walk == [pc: WalkPlace, array: Nat, len: Nat, next: Nat \ {0},
         visited: SUBSET Element, linked: SUBSET Child, disturbed: BOOLEAN]

WalkOK ==
  /\ walk \in [Walker -> Walk]
  /\ \A w \in Walker : walk[w].array <= Len(heap)

Shape == /\ HeapOK /\ SliceOK(children) /\ SliceOK(queue) /\ StateOK /\ WalkOK

\* Each linked child has a place, and no other has.
Listed == \A c \in Child :
  c \in Linked <=> \E i \in 1 .. children.len : heap[children.array][i] = c

Once == \A i, j \in 1 .. children.len :
  heap[children.array][i] = heap[children.array][j] => i = j

\* The queue is a copy: what is written to the children's array is not written
\* to it.
NoAlias ==
  /\ queue.array # 0 => queue.array # children.array
  /\ sender = "idle" => queue = nil /\ sending = 1 /\ child = NoSpan

\* The queued children are in the queue, and those the loop has left behind are
\* sent.
QueueInv ==
  /\ \A c \in queued : sender # "idle" /\ \E i \in 1 .. queue.len : heap[queue.array][i] = c
  /\ \A i \in 1 .. queue.len : i < sending =>
       \/ status[heap[queue.array][i]] = "gone"
       \/ heap[queue.array][i] = child
  /\ sender = "done" => sending > queue.len /\ child = NoSpan

\* No child is behind the place of the last of as many as were ever linked.
PeakInv ==
  /\ children.len <= peak
  /\ children.array # 0 =>
       \A i \in 1 .. Len(heap[children.array]) :
         heap[children.array][i] # NoSpan => i <= peak

\* Place i of array a is c's and will be while no child is removed.
Settled(a, i, c) ==
  a # 0 /\ i <= children.len /\ i <= Len(heap[a]) /\ heap[a][i] = c

\* What an undisturbed walker k will still come by.
WalkerInv(k) ==
  /\ k.pc = "start" => k.next = 1
  /\ k.pc = "array" => k.next = 1 /\ \A c \in k.linked :
       \E i \in Nat \ {0} : Settled(k.array, i, c)
  /\ k.pc = "len" => k.next = 1 /\ \A c \in k.linked :
       \E i \in 1 .. k.len : Settled(children.array, i, c)
  /\ k.pc = "loop" => \A c \in k.linked :
       \E i \in 1 .. k.len : /\ Settled(k.array, i, c)
                             /\ i < k.next => c \in k.visited
  /\ k.pc = "done" => k.linked \subseteq k.visited

WalkInv == \A w \in Walker : ~walk[w].disturbed => WalkerInv(walk[w])

IInv == /\ Shape /\ Listed /\ Once /\ NoAlias /\ QueueInv /\ PeakInv /\ WalkInv

-------------------------------------------------------------------------------
(* What the operations on the slice do to it, in places.                   *)

LEMMA ArrayOfFunction ==
  ASSUME NEW n \in Nat, NEW f \in [1 .. n -> Element]
  PROVE  f \in Seq(Element) /\ Len(f) = n /\ DOMAIN f = 1 .. n
OBVIOUS

\* heap' is heap and one more array.
LEMMA Allocated ==
  ASSUME HeapOK, NEW array \in Seq(Element), heap' = Append(heap, array)
  PROVE  /\ heap' \in Seq(Seq(Element)) /\ Len(heap') = Len(heap) + 1
         /\ \A a \in 1 .. Len(heap) : heap'[a] = heap[a]
         /\ heap'[Len(heap) + 1] = array
BY DEF HeapOK

\* append: nothing changes but the place behind the last, in the same array or
\* in a larger copy.
Appends(c) ==
  /\ heap' \in Seq(Seq(Element)) /\ Len(heap) <= Len(heap')
  /\ \A a \in 1 .. Len(heap) :
       /\ Len(heap'[a]) = Len(heap[a])
       /\ \A i \in 1 .. Len(heap[a]) :
            a # children.array \/ i # children.len + 1 => heap'[a][i] = heap[a][i]
  /\ children' \in Slice /\ children'.array \in 1 .. Len(heap')
  /\ children'.array = children.array \/ children'.array = Len(heap) + 1
  /\ children'.len = children.len + 1
  /\ children'.len <= Len(heap'[children'.array])
  /\ \A i \in 1 .. children.len : heap'[children'.array][i] = heap[children.array][i]
  /\ heap'[children'.array][children.len + 1] = c
  /\ \A i \in 1 .. Len(heap'[children'.array]) : i > children.len + 1 =>
       \/ heap'[children'.array][i] = NoSpan
       \/ /\ children.array # 0 /\ i <= Len(heap[children.array])
          /\ heap'[children'.array][i] = heap[children.array][i]

LEMMA AppendedAppends ==
  ASSUME HeapOK, SliceOK(children), NEW c \in Child,
         heap' = Appended(c).heap, children' = Appended(c).slice
  PROVE  Appends(c)
<1>1. c \in Element /\ NoSpan \in Element /\ children.len \in Nat
      /\ children.array \in Nat
  BY DEF Element, SliceOK, Slice
<1>2. CASE children.len < Cap(children)
  <2> DEFINE b == children.array
             n == children.len + 1
  <2>1. b \in 1 .. Len(heap) /\ n \in 1 .. Len(heap[b])
    BY <1>1, <1>2 DEF SliceOK, Cap, Slice
  <2>2. heap' = [heap EXCEPT ![b][n] = c] /\ children' = [children EXCEPT !.len = n]
    BY <1>2 DEF Appended
  <2>3. heap[b] \in Seq(Element) /\ [heap[b] EXCEPT ![n] = c] \in Seq(Element)
    BY <1>1, <2>1 DEF HeapOK
  <2>4. heap' \in Seq(Seq(Element)) /\ Len(heap') = Len(heap)
    BY <2>1, <2>2, <2>3 DEF HeapOK
  <2>5. \A a \in 1 .. Len(heap) : a # b => heap'[a] = heap[a]
    BY <2>2 DEF HeapOK
  <2>6. heap'[b] = [heap[b] EXCEPT ![n] = c]
    <3> HIDE DEF b, n
    <3>1. b \in DOMAIN heap
      BY <2>1 DEF HeapOK
    <3> QED
      BY <2>2, <3>1
  <2>7. Len(heap'[b]) = Len(heap[b]) /\ heap'[b][n] = c
        /\ \A i \in 1 .. Len(heap[b]) : i # n => heap'[b][i] = heap[b][i]
    BY <2>1, <2>3, <2>6
  <2>8. children' \in Slice /\ children'.array = b /\ children'.len = n
    BY <1>1, <2>2 DEF SliceOK, Slice
  <2>9. \A a \in 1 .. Len(heap) :
          /\ Len(heap'[a]) = Len(heap[a])
          /\ \A i \in 1 .. Len(heap[a]) : a # b \/ i # n => heap'[a][i] = heap[a][i]
    BY <2>5, <2>7
  <2>10. \A i \in 1 .. children.len : i \in 1 .. Len(heap[b]) /\ i # n
    BY <1>1, <2>1
  <2>11. Len(heap) \in Nat
    BY DEF HeapOK
  <2>12. \A i \in 1 .. Len(heap'[b]) : i > n => heap'[b][i] = heap[b][i]
    BY <1>1, <2>1, <2>7
  <2>13. b # 0 /\ \A i \in 1 .. Len(heap'[b]) : i <= Len(heap[b])
    BY <2>1, <2>7
  <2> HIDE DEF b
  <2> QED
    BY <1>1, <2>1, <2>4, <2>7, <2>8, <2>9, <2>10, <2>11, <2>12, <2>13 DEF Appends, b
<1>3. CASE ~(children.len < Cap(children))
  <2> DEFINE n == children.len
             g == Grown(n)
             array == [i \in 1 .. g |-> IF i <= n THEN heap[children.array][i]
                                        ELSE IF i = n + 1 THEN c ELSE NoSpan]
  <2>1. g \in Nat /\ n + 1 <= g
    BY <1>1 DEF Grown
  <2>2. \A i \in 1 .. n : heap[children.array][i] \in Element
    BY <1>1 DEF SliceOK, Element
  <2>3. array \in [1 .. g -> Element]
    <3> HIDE DEF g
    <3> QED BY <1>1, <2>1, <2>2
  <2>4. heap' = Append(heap, array)
        /\ children' = [array |-> Len(heap) + 1, len |-> n + 1]
    BY <1>3 DEF Appended
  <2>5. array \in Seq(Element) /\ Len(array) = g
    <3> HIDE DEF array, g
    <3> QED BY <2>1, <2>3, ArrayOfFunction
  <2>6. \A i \in 1 .. g : /\ i <= n => array[i] = heap[children.array][i]
                          /\ i = n + 1 => array[i] = c
                          /\ i > n + 1 => array[i] = NoSpan
    <3> HIDE DEF g
    <3> QED BY <1>1, <2>1
  <2> HIDE DEF array, g
  <2>7. /\ heap' \in Seq(Seq(Element)) /\ Len(heap') = Len(heap) + 1
        /\ \A a \in 1 .. Len(heap) : heap'[a] = heap[a]
        /\ heap'[Len(heap) + 1] = array
    BY <2>4, <2>5, Allocated
  <2>8. Len(heap) \in Nat
    BY DEF HeapOK
  <2>9. children' \in Slice /\ children'.array = Len(heap) + 1 /\ children'.len = n + 1
    BY <1>1, <2>4, <2>8 DEF Slice
  <2>10. \A i \in 1 .. n : i \in 1 .. g
    BY <1>1, <2>1
  <2>11. n + 1 \in 1 .. g
    BY <1>1, <2>1
  <2>12. /\ \A i \in 1 .. n : heap'[children'.array][i] = heap[children.array][i]
         /\ heap'[children'.array][n + 1] = c
         /\ \A i \in 1 .. Len(heap'[children'.array]) : i > n + 1 =>
              heap'[children'.array][i] = NoSpan
    <3>1. heap'[children'.array] = array
      BY <2>7, <2>9
    <3> HIDE DEF n
    <3>2. \A i \in 1 .. n : array[i] = heap[children.array][i]
      BY <2>6, <2>10
    <3>3. array[n + 1] = c
      BY <2>6, <2>11
    <3>4. \A i \in 1 .. Len(array) : i > n + 1 => array[i] = NoSpan
      BY <2>5, <2>6
    <3> QED
      BY <3>1, <3>2, <3>3, <3>4
  <2>13. Len(heap) <= Len(heap') /\ children'.array \in 1 .. Len(heap')
    BY <2>7, <2>8, <2>9
  <2>14. children'.len <= Len(heap'[children'.array])
    BY <2>1, <2>5, <2>7, <2>9
  <2>15. \A a \in 1 .. Len(heap) : Len(heap'[a]) = Len(heap[a])
                                  /\ \A i \in 1 .. Len(heap[a]) : heap'[a][i] = heap[a][i]
    BY <2>7
  <2> QED
    BY <2>7, <2>9, <2>12, <2>13, <2>14, <2>15 DEF Appends
<1> QED
  BY <1>2, <1>3

\* removeChildSpan: the places behind c's move down by one.
Removes(c) ==
  /\ heap' \in Seq(Seq(Element)) /\ Len(heap') = Len(heap)
  /\ \A a \in 1 .. Len(heap) : /\ Len(heap'[a]) = Len(heap[a])
                               /\ a # children.array => heap'[a] = heap[a]
  /\ children.array \in 1 .. Len(heap) /\ children.len \in Nat \ {0}
  /\ children' \in Slice /\ children'.array = children.array
  /\ children'.len = children.len - 1
  /\ \E p \in 1 .. children.len :
       /\ heap[children.array][p] = c
       /\ \A i \in 1 .. Len(heap[children.array]) :
            heap'[children.array][i] =
              IF p <= i /\ i < children.len THEN heap[children.array][i + 1]
              ELSE heap[children.array][i]

LEMMA RemoveChildRemoves ==
  ASSUME HeapOK, SliceOK(children), Listed, Once, NEW c \in Linked, RemoveChild(c)
  PROVE  Removes(c)
<1> DEFINE b == children.array
           n == children.len
           places == {i \in 1 .. n : heap[b][i] = c}
<1>1. PICK p \in 1 .. n : heap[b][p] = c
  BY DEF Listed, Linked
<1>2. places = {p}
  BY <1>1 DEF Once
<1>3. n \in Nat \ {0} /\ b \in 1 .. Len(heap) /\ n <= Len(heap[b]) /\ p \in Nat
  BY <1>1 DEF SliceOK, Slice
<1>4. Max(places) = p
  BY <1>2, <1>3 DEF Max
<1>5. heap' = [heap EXCEPT ![b] = Removed(p)] /\ children' = [children EXCEPT !.len = n - 1]
  BY <1>2, <1>4 DEF RemoveChild
<1>6. heap[b] \in Seq(Element) /\ Len(heap[b]) \in Nat
  BY <1>3 DEF HeapOK
<1>7. Removed(p) \in Seq(Element) /\ Len(Removed(p)) = Len(heap[b])
  <2>1. Removed(p) \in [1 .. Len(heap[b]) -> Element]
    BY <1>3, <1>6 DEF Removed
  <2> QED
    BY <2>1, <1>6, ArrayOfFunction
<1>8. \A i \in 1 .. Len(heap[b]) :
        Removed(p)[i] = IF p <= i /\ i < n THEN heap[b][i + 1] ELSE heap[b][i]
  BY <1>6 DEF Removed
<1>9. /\ heap' \in Seq(Seq(Element)) /\ Len(heap') = Len(heap)
      /\ \A a \in 1 .. Len(heap) : a # b => heap'[a] = heap[a]
      /\ heap'[b] = Removed(p)
  BY <1>3, <1>5, <1>7 DEF HeapOK
<1>10. children' \in Slice /\ children'.array = b /\ children'.len = n - 1
  BY <1>3, <1>5 DEF SliceOK, Slice
<1> HIDE <1>5
<1> QED
  BY <1>1, <1>3, <1>7, <1>8, <1>9, <1>10 DEF Removes

\* The copy: in an array of its own, every synchronous child of the slice and
\* no nil.
Copies ==
  /\ heap' \in Seq(Seq(Element)) /\ Len(heap) <= Len(heap')
  /\ \A a \in 1 .. Len(heap) : heap'[a] = heap[a]
  /\ queue' \in Slice
  /\ queue'.array = 0 => queue'.len = 0
  /\ queue'.array # 0 => /\ queue'.array = Len(heap) + 1 /\ Len(heap') = Len(heap) + 1
                         /\ queue'.len <= Len(heap'[queue'.array])
                         /\ \A i \in 1 .. queue'.len : heap'[queue'.array][i] \in Child
  /\ \A i \in 1 .. children.len : ~isAsync[heap[children.array][i]] =>
       \E j \in 1 .. queue'.len : heap'[queue'.array][j] = heap[children.array][i]

LEMMA CopyOfSyncCopies ==
  ASSUME HeapOK, SliceOK(children),
         heap' = CopyOfSync.heap, queue' = CopyOfSync.slice
  PROVE  Copies
<1> DEFINE n == children.len
           b == children.array
           m == Cardinality(SyncPlaces)
           sync == SyncChildren
<1>1. n \in Nat /\ b \in Nat /\ \A i \in 1 .. n : heap[b][i] \in Child
  BY DEF SliceOK, Slice
<1>2. /\ m \in Nat /\ m <= n
      /\ Ascending(SyncPlaces) \in [1 .. m -> SyncPlaces]
      /\ \A s \in SyncPlaces : \E i \in 1 .. m : Ascending(SyncPlaces)[i] = s
  BY <1>1, AscendingOnto DEF SyncPlaces
<1>3. /\ sync \in [1 .. m -> Child]
      /\ \A s \in SyncPlaces : \E i \in 1 .. m : sync[i] = heap[b][s]
  <2>1. SyncPlaces \subseteq 1 .. n
    BY DEF SyncPlaces
  <2>2. \A i \in 1 .. m : sync[i] = heap[b][Ascending(SyncPlaces)[i]]
                          /\ Ascending(SyncPlaces)[i] \in SyncPlaces
    BY <1>2 DEF SyncChildren
  <2>3. sync = [i \in 1 .. m |-> heap[b][Ascending(SyncPlaces)[i]]]
    BY DEF SyncChildren
  <2> HIDE DEF sync, m
  <2> QED
    BY <1>1, <1>2, <2>1, <2>2, <2>3
<1>4. sync \in Seq(Child) /\ Len(sync) = m
  <2> HIDE DEF sync, m
  <2> QED BY <1>2, <1>3
<1>5. CASE n = 0
  <2>1. heap' = heap /\ queue' = nil
    BY <1>5 DEF CopyOfSync
  <2> QED
    BY <1>1, <1>5, <2>1 DEF Copies, nil, Slice, HeapOK
<1>6. CASE n # 0
  <2> DEFINE array == [i \in 1 .. n |-> IF i <= m THEN sync[i] ELSE NoSpan]
  <2>1. heap' = Append(heap, array)
        /\ queue' = [array |-> Len(heap) + 1, len |-> m]
    BY <1>4, <1>6 DEF CopyOfSync
  <2>2. array \in [1 .. n -> Element] /\ \A i \in 1 .. m : array[i] = sync[i]
    <3> HIDE DEF sync, m
    <3>1. \A i \in 1 .. m : i \in 1 .. n /\ i <= m
      BY <1>1, <1>2
    <3>2. \A i \in 1 .. n : i <= m => i \in 1 .. m
      BY <1>1, <1>2
    <3>3. \A i \in 1 .. n : (IF i <= m THEN sync[i] ELSE NoSpan) \in Element
      BY <3>2, <1>3 DEF Element
    <3> QED
      BY <3>1, <3>3
  <2> HIDE DEF array, sync, m
  <2>3. array \in Seq(Element) /\ Len(array) = n
    BY <1>1, <2>2, ArrayOfFunction
  <2>4. /\ heap' \in Seq(Seq(Element)) /\ Len(heap') = Len(heap) + 1
        /\ \A a \in 1 .. Len(heap) : heap'[a] = heap[a]
        /\ heap'[Len(heap) + 1] = array
    BY <2>1, <2>3, Allocated
  <2>5. Len(heap) \in Nat
    BY DEF HeapOK
  <2>6. queue' \in Slice /\ queue'.array = Len(heap) + 1 /\ queue'.len = m
    BY <1>2, <2>1, <2>5 DEF Slice
  <2>7. \A i \in 1 .. n : ~isAsync[heap[b][i]] => i \in SyncPlaces
    BY DEF SyncPlaces
  <2>8. \A i \in 1 .. m : array[i] \in Child
    BY <1>3, <2>2
  <2>9. \A i \in 1 .. n : ~isAsync[heap[b][i]] => \E j \in 1 .. m : array[j] = heap[b][i]
    BY <1>3, <2>2, <2>7
  <2> QED
    <3>1. Len(heap) + 1 # 0 /\ Len(heap) <= Len(heap')
      BY <2>4, <2>5
    <3>2. queue'.len <= Len(heap'[queue'.array])
      BY <1>2, <2>3, <2>4, <2>6
    <3>3. \A i \in 1 .. queue'.len : heap'[queue'.array][i] \in Child
      BY <2>4, <2>6, <2>8
    <3>4. \A i \in 1 .. n : ~isAsync[heap[b][i]] =>
            \E j \in 1 .. queue'.len : heap'[queue'.array][j] = heap[b][i]
      BY <2>4, <2>6, <2>9
    <3> QED
      BY <2>4, <2>6, <3>1, <3>2, <3>3, <3>4 DEF Copies
<1> QED
  BY <1>5, <1>6

-------------------------------------------------------------------------------
(* Counting.                                                               *)

LEMMA MaxOfTwo ==
  ASSUME NEW m \in Nat, NEW n \in Nat
  PROVE  Max({m, n}) \in Nat /\ m <= Max({m, n}) /\ n <= Max({m, n})
BY DEF Max

\* The slice has a place for each linked child and no more.
LEMMA LinkedCounted ==
  ASSUME SliceOK(children), Listed, Once
  PROVE  Cardinality(Linked) = children.len
<1> DEFINE n == children.len
           f == [i \in 1 .. n |-> heap[children.array][i]]
<1>1. n \in Nat /\ \A i \in 1 .. n : heap[children.array][i] \in Child
  BY DEF SliceOK, Slice
<1>2. f \in [1 .. n -> Linked]
  BY <1>1 DEF Listed
<1>3. \A i, j \in 1 .. n : f[i] = f[j] => i = j
  BY DEF Once
<1>4. \A c \in Linked : \E i \in 1 .. n : f[i] = c
  BY DEF Listed, Linked
<1>5. f \in Bijection(1 .. n, Linked)
  <2> HIDE DEF f, n
  <2> QED
    BY <1>2, <1>3, <1>4 DEF Bijection, Injection, Surjection, IsInjective
<1>6. IsFiniteSet(1 .. n) /\ Cardinality(1 .. n) = n
  <2>1. 1 \in Int /\ n \in Int /\ (IF 1 > n THEN 0 ELSE n - 1 + 1) = n
    BY <1>1
  <2> HIDE DEF f, n
  <2> QED
    BY <2>1, FS_Interval
<1>7. ExistsBijection(1 .. n, Linked)
  BY <1>5 DEF ExistsBijection
<1> QED
  BY <1>6, <1>7, FS_Bijection

-------------------------------------------------------------------------------
(* Steps that leave the arrays and the slices as they are.                 *)

\* A walk goes on after a step that leaves the walkers alone and removes no
\* child: what is settled stays so.
SettledStays ==
  /\ \A a \in 1 .. Len(heap), i \in Nat \ {0}, c \in Child :
       Settled(a, i, c) => Settled(a, i, c)'
  /\ \A i \in Nat \ {0}, c \in Child :
       Settled(children.array, i, c) => children'.array # 0 /\ i <= children'.len
         /\ i <= Len(heap'[children'.array]) /\ heap'[children'.array][i] = c

LEMMA WalksGoOn ==
  ASSUME WalkOK, WalkInv, SettledStays, walk' = walk
  PROVE  WalkInv'
<1> SUFFICES ASSUME NEW w \in Walker, ~walk[w].disturbed
             PROVE  WalkerInv(walk[w])'
  BY DEF WalkInv
<1> DEFINE k == walk[w]
<1>1. WalkerInv(k) /\ k.linked \subseteq Child /\ k.len \in Nat /\ k.array \in 0 .. Len(heap)
  BY DEF WalkInv, WalkOK, Walk
<1>2. ASSUME NEW i \in Nat \ {0}, NEW c \in k.linked, Settled(k.array, i, c)
      PROVE  Settled(k.array, i, c)'
  <2>1. k.array \in 1 .. Len(heap) /\ c \in Child
    BY <1>1, <1>2 DEF Settled
  <2>2. \A a \in 1 .. Len(heap) : Settled(a, i, c) => Settled(a, i, c)'
    BY <2>1 DEF SettledStays
  <2> QED
    BY <1>2, <2>1, <2>2 DEF Settled
<1>3. ASSUME NEW i \in Nat \ {0}, NEW c \in k.linked, Settled(children.array, i, c)
      PROVE  Settled(children.array, i, c)'
  BY <1>1, <1>3 DEF SettledStays, Settled
<1>4. \A i \in 1 .. k.len : i \in Nat \ {0}
  BY <1>1
<1>5. k' = k
  OBVIOUS
<1>6. k.pc = "array" => k.next = 1 /\ \A c \in k.linked :
        \E i \in Nat \ {0} : Settled(k.array, i, c)'
  BY <1>1, <1>2 DEF WalkerInv
<1>7. k.pc = "len" => k.next = 1 /\ \A c \in k.linked :
        \E i \in 1 .. k.len : Settled(children.array, i, c)'
  BY <1>1, <1>3, <1>4 DEF WalkerInv
<1>8. k.pc = "loop" => \A c \in k.linked :
        \E i \in 1 .. k.len : Settled(k.array, i, c)' /\ (i < k.next => c \in k.visited)
  BY <1>1, <1>2, <1>4 DEF WalkerInv
<1> HIDE DEF SettledStays, k
<1> QED
  BY <1>1, <1>5, <1>6, <1>7, <1>8 DEF WalkerInv, k

\* The loop over childrenToSend and the first half of a child's Send.
LEMMA QuietKeeps ==
  ASSUME IInv, UNCHANGED <<heap, children, queue, walk, peak, queued>>,
         StateOK', Linked' = Linked, QueueInv',
         sender' = "idle" => UNCHANGED <<sender, sending, child>>
  PROVE  IInv'
<1>1. Shape'
  BY DEF IInv, Shape, HeapOK, SliceOK, WalkOK
<1>2. Listed' /\ Once' /\ PeakInv'
  BY DEF IInv, Listed, Once, PeakInv
<1>3. NoAlias'
  BY DEF IInv, NoAlias
<1>4. WalkInv'
  <2>1. SettledStays
    BY DEF SettledStays, Settled
  <2> QED
    BY <2>1, WalksGoOn DEF IInv, Shape
<1> QED
  BY <1>1, <1>2, <1>3, <1>4 DEF IInv

\* A queued child's place in the queue holds a child.
LEMMA QueueHolds ==
  ASSUME SliceOK(queue)
  PROVE  queue.len \in Nat /\ \A i \in 1 .. queue.len : heap[queue.array][i] \in Child
BY DEF SliceOK, Slice

LEMMA MarkSentKeeps ==
  ASSUME IInv, NEW c \in Child, MarkSent(c)
  PROVE  IInv'
<1> USE DEF MarkSent
<1>1. StateOK'
  BY DEF IInv, Shape, StateOK
<1>2. Linked' = Linked
  BY DEF IInv, Shape, StateOK, Linked
<1>3. QueueInv'
  BY QueueHolds DEF IInv, Shape, StateOK, QueueInv
<1> QED
  BY <1>1, <1>2, <1>3, QuietKeeps

LEMMA NextChildKeeps ==
  ASSUME IInv, NextChild
  PROVE  IInv'
<1> USE DEF NextChild
<1>1. sending \in 1 .. queue.len /\ queue.len \in Nat
  BY QueueHolds DEF IInv, Shape, StateOK
<1>2. StateOK'
  BY <1>1, QueueHolds DEF IInv, Shape, StateOK, Element
<1>3. Linked' = Linked
  BY DEF Linked
<1>4. QueueInv'
  <2>1. \A i \in 1 .. queue.len : i < sending' => i < sending \/ i = sending
    BY <1>1
  <2>2. \A i \in 1 .. queue.len : i < sending => status[heap[queue.array][i]] = "gone"
    BY QueueHolds, NoSpanAssumption DEF IInv, Shape, QueueInv
  <2>3. \A i \in 1 .. queue.len : i < sending' =>
          \/ status'[heap'[queue'.array][i]] = "gone"
          \/ heap'[queue'.array][i] = child'
    BY <2>1, <2>2
  <2> QED
    BY <2>3 DEF IInv, QueueInv
<1> QED
  BY <1>2, <1>3, <1>4, QuietKeeps

LEMMA SendByParentKeeps ==
  ASSUME IInv, SendByParent
  PROVE  IInv'
<1> USE DEF SendByParent
<1>1. StateOK'
  BY DEF IInv, Shape, StateOK, Element
<1>2. Linked' = Linked
  BY DEF IInv, Shape, StateOK, Linked
<1>3. QueueInv'
  BY QueueHolds DEF IInv, Shape, StateOK, QueueInv
<1> QED
  BY <1>1, <1>2, <1>3, QuietKeeps

LEMMA ChildSentKeeps ==
  ASSUME IInv, ChildSent
  PROVE  IInv'
<1> USE DEF ChildSent
<1>1. StateOK'
  BY DEF IInv, Shape, StateOK, Element
<1>2. Linked' = Linked
  BY DEF Linked
<1>3. QueueInv'
  BY QueueHolds DEF IInv, Shape, StateOK, QueueInv
<1>4. sender # "idle"
  BY DEF IInv, NoAlias
<1> QED
  BY <1>1, <1>2, <1>3, <1>4, QuietKeeps

LEMMA CascadeDoneKeeps ==
  ASSUME IInv, CascadeDone
  PROVE  IInv'
<1> USE DEF CascadeDone
<1>1. StateOK'
  BY DEF IInv, Shape, StateOK
<1>2. Linked' = Linked
  BY DEF Linked
<1>3. QueueInv'
  BY DEF IInv, QueueInv
<1> QED
  BY <1>1, <1>2, <1>3, QuietKeeps

-------------------------------------------------------------------------------
(* Steps that change the slice.                                            *)

\* What is done to the children's array is not done to the queue.
LEMMA QueueUntouched ==
  ASSUME HeapOK, SliceOK(queue), NoAlias, queue' = queue,
         heap' \in Seq(Seq(Element)), Len(heap) <= Len(heap'),
         \A a \in 1 .. Len(heap) :
           /\ Len(heap'[a]) = Len(heap[a])
           /\ a # children.array => \A i \in 1 .. Len(heap[a]) : heap'[a][i] = heap[a][i]
  PROVE  /\ \A i \in 1 .. queue.len : heap'[queue.array][i] = heap[queue.array][i]
         /\ SliceOK(queue)'
<1>1. CASE queue.array = 0
  BY <1>1 DEF SliceOK, Slice
<1>2. CASE queue.array # 0
  <2>1. /\ queue.array \in 1 .. Len(heap) /\ queue.array # children.array
        /\ queue.len \in Nat /\ queue.len <= Len(heap[queue.array])
        /\ \A i \in 1 .. queue.len : heap[queue.array][i] \in Child
    BY <1>2 DEF SliceOK, Slice, NoAlias
  <2>2. heap[queue.array] \in Seq(Element) /\ Len(heap) \in Nat /\ Len(heap') \in Nat
    BY <2>1 DEF HeapOK
  <2>3. \A i \in 1 .. queue.len : i \in 1 .. Len(heap[queue.array])
    BY <2>1, <2>2
  <2>4. \A i \in 1 .. queue.len : heap'[queue.array][i] = heap[queue.array][i]
    BY <2>1, <2>3
  <2>5. queue.array \in 1 .. Len(heap')
    BY <2>1, <2>2
  <2> QED
    BY <2>1, <2>4, <2>5 DEF SliceOK
<1> QED
  BY <1>1, <1>2

LEMMA CreateChildKeeps ==
  ASSUME IInv, NEW c \in Child, NEW async \in BOOLEAN, CreateChild(c, async)
  PROVE  IInv'
<1> DEFINE b == children.array
           n == children.len
           b1 == children'.array
<1>0. /\ HeapOK /\ SliceOK(children) /\ SliceOK(queue) /\ StateOK /\ WalkOK
      /\ Listed /\ Once /\ NoAlias /\ QueueInv /\ PeakInv /\ WalkInv
  BY DEF IInv, Shape
<1>1. Appends(c)
  BY <1>0, AppendedAppends DEF CreateChild
<1>2. /\ n \in Nat /\ b \in 0 .. Len(heap) /\ Len(heap) \in Nat
      /\ b = 0 => n = 0
      /\ b # 0 => n <= Len(heap[b])
      /\ \A i \in 1 .. n : heap[b][i] \in Child
  BY <1>0 DEF HeapOK, SliceOK, Slice
<1>3. n + 1 <= peak' /\ peak <= peak' /\ peak' \in Nat
  <2>1. Cardinality(Linked) = n
    BY <1>0, LinkedCounted
  <2> QED
    BY <1>0, <1>2, <2>1, MaxOfTwo DEF CreateChild, StateOK
<1>4. StateOK'
  BY <1>0, <1>3 DEF StateOK, CreateChild
<1>5. Linked' = Linked \cup {c} /\ c \notin Linked
  BY <1>0 DEF StateOK, CreateChild, Linked
<1>6. \A i \in 1 .. n : heap[b][i] \in Linked
  BY <1>0, <1>2 DEF Listed
<1>7. SliceOK(children)'
  <2>1. \A i \in 1 .. n + 1 : i \in 1 .. n \/ i = n + 1
    BY <1>2
  <2>2. \A i \in 1 .. n + 1 : heap'[b1][i] \in Child
    BY <1>1, <1>2, <2>1 DEF Appends
  <2> QED
    BY <1>1, <1>2, <2>2 DEF Appends, SliceOK, Slice
<1>8. queue' = queue
  BY DEF CreateChild
<1>9. /\ \A i \in 1 .. queue.len : heap'[queue.array][i] = heap[queue.array][i]
      /\ SliceOK(queue)'
  <2>1. /\ heap' \in Seq(Seq(Element)) /\ Len(heap) <= Len(heap')
        /\ \A a \in 1 .. Len(heap) :
             /\ Len(heap'[a]) = Len(heap[a])
             /\ a # b => \A i \in 1 .. Len(heap[a]) : heap'[a][i] = heap[a][i]
    BY <1>1 DEF Appends
  <2> QED
    BY <1>0, <1>8, <2>1, QueueUntouched
<1>10. Shape'
  BY <1>0, <1>1, <1>4, <1>7, <1>9 DEF Shape, HeapOK, WalkOK, Walk, CreateChild, Appends
<1>11. Listed'
  <2> SUFFICES ASSUME NEW d \in Child
               PROVE  d \in Linked' <=> \E i \in 1 .. n + 1 : heap'[b1][i] = d
    BY <1>1 DEF Listed, Appends
  <2>1. \A i \in 1 .. n + 1 : i \in 1 .. n \/ i = n + 1
    BY <1>2
  <2>2. n + 1 \in 1 .. n + 1 /\ \A i \in 1 .. n : i \in 1 .. n + 1
    BY <1>2
  <2>3. heap'[b1][n + 1] = c /\ \A i \in 1 .. n : heap'[b1][i] = heap[b][i]
    BY <1>1 DEF Appends
  <2> QED
    BY <1>0, <1>5, <2>1, <2>2, <2>3 DEF Listed
<1>12. Once'
  <2>1. \A i \in 1 .. n + 1 : i \in 1 .. n \/ i = n + 1
    BY <1>2
  <2>2. heap'[b1][n + 1] = c /\ \A i \in 1 .. n : heap'[b1][i] = heap[b][i]
    BY <1>1 DEF Appends
  <2>3. \A i, j \in 1 .. n + 1 : heap'[b1][i] = heap'[b1][j] => i = j
    BY <1>0, <1>5, <1>6, <2>1, <2>2 DEF Once
  <2> QED
    BY <1>1, <2>3 DEF Once, Appends
<1>13. NoAlias'
  BY <1>0, <1>1 DEF NoAlias, Appends, CreateChild, SliceOK
<1>14. QueueInv'
  <2>1. \A d \in Child : status[d] = "gone" => status'[d] = "gone"
    BY <1>0 DEF StateOK, CreateChild
  <2>2. \A i \in 1 .. queue.len : heap[queue.array][i] \in Child
    BY <1>0, QueueHolds
  <2>3. UNCHANGED <<sender, sending, child, queued, queue>>
    BY DEF CreateChild
  <2> QED
    BY <1>0, <1>9, <2>1, <2>2, <2>3 DEF QueueInv
<1>15. PeakInv'
  <2>1. ASSUME NEW i \in 1 .. Len(heap'[b1]), heap'[b1][i] # NoSpan
        PROVE  i <= peak'
    <3>1. CASE i <= n + 1
      BY <1>2, <1>3, <3>1
    <3>2. CASE i > n + 1
      <4>1. b # 0 /\ i \in 1 .. Len(heap[b]) /\ heap[b][i] # NoSpan
        BY <1>1, <2>1, <3>2 DEF Appends
      <4>2. i <= peak
        BY <1>0, <4>1 DEF PeakInv
      <4> QED
        BY <1>0, <1>3, <4>2 DEF StateOK
    <3> QED
      BY <1>2, <3>1, <3>2
  <2> QED
    BY <1>1, <1>3, <2>1 DEF PeakInv, Appends
<1>16. SettledStays
  <2>1. ASSUME NEW a \in 1 .. Len(heap), NEW i \in Nat \ {0}, NEW d \in Child,
               Settled(a, i, d)
        PROVE  Settled(a, i, d)'
    <3>1. i \in 1 .. Len(heap[a]) /\ i # n + 1 /\ i <= n
      BY <1>0, <1>2, <2>1 DEF Settled, HeapOK
    <3>2. heap'[a][i] = heap[a][i] /\ Len(heap'[a]) = Len(heap[a]) /\ i <= children'.len
      BY <1>1, <1>2, <3>1 DEF Appends
    <3> QED
      BY <2>1, <3>2 DEF Settled
  <2>2. ASSUME NEW i \in Nat \ {0}, NEW d \in Child, Settled(b, i, d)
        PROVE  b1 # 0 /\ i <= children'.len /\ i <= Len(heap'[b1]) /\ heap'[b1][i] = d
    <3>1. i \in 1 .. n
      BY <1>2, <2>2 DEF Settled
    <3>2. b1 \in 1 .. Len(heap') /\ heap'[b1] \in Seq(Element)
      BY <1>1 DEF Appends
    <3>3. /\ children'.len = n + 1 /\ n + 1 <= Len(heap'[b1])
          /\ heap'[b1][i] = heap[b][i]
      BY <1>1, <3>1 DEF Appends
    <3>4. heap[b][i] = d
      BY <2>2 DEF Settled
    <3> HIDE DEF b, n, b1
    <3> QED
      BY <1>2, <3>1, <3>2, <3>3, <3>4
  <2> QED
    BY <2>1, <2>2 DEF SettledStays
<1>17. WalkInv'
  BY <1>0, <1>16, WalksGoOn DEF CreateChild
<1> QED
  BY <1>10, <1>11, <1>12, <1>13, <1>14, <1>15, <1>17 DEF IInv

LEMMA UnlinkKeeps ==
  ASSUME IInv, NEW c \in Child, Unlink(c)
  PROVE  IInv'
<1> DEFINE b == children.array
           n == children.len
<1>0. /\ HeapOK /\ SliceOK(children) /\ SliceOK(queue) /\ StateOK /\ WalkOK
      /\ Listed /\ Once /\ NoAlias /\ QueueInv /\ PeakInv /\ WalkInv
  BY DEF IInv, Shape
<1>1. Linked' = Linked \ {c} /\ c \in Linked
  BY <1>0 DEF StateOK, Unlink, Linked
<1>2. Removes(c)
  BY <1>0, <1>1, RemoveChildRemoves DEF Unlink
<1>3. /\ n \in Nat \ {0} /\ b \in 1 .. Len(heap) /\ n <= Len(heap[b])
      /\ \A i \in 1 .. n : heap[b][i] \in Child
      /\ Len(heap[b]) \in Nat
  BY <1>0, <1>2 DEF SliceOK, Removes, HeapOK
<1> DEFINE Old(p, i) == IF p <= i THEN i + 1 ELSE i
<1>4. PICK p \in 1 .. n :
        /\ heap[b][p] = c
        /\ \A i \in 1 .. n - 1 : heap'[b][i] = heap[b][Old(p, i)]
        /\ \A i \in 1 .. Len(heap[b]) : i >= n => heap'[b][i] = heap[b][i]
  <2>1. PICK p \in 1 .. n :
        /\ heap[b][p] = c
        /\ \A i \in 1 .. Len(heap[b]) :
             heap'[b][i] = IF p <= i /\ i < n THEN heap[b][i + 1] ELSE heap[b][i]
    BY <1>2 DEF Removes
  <2>2. \A i \in 1 .. n - 1 : i \in 1 .. Len(heap[b]) /\ i < n
    BY <1>3
  <2>3. \A i \in 1 .. Len(heap[b]) : i >= n => ~(i < n)
    BY <1>3
  <2> QED
    BY <2>1, <2>2, <2>3
<1>5. \A i \in 1 .. n - 1 : Old(p, i) \in 1 .. n /\ Old(p, i) # p
  BY <1>3
<1>6. children'.array = b /\ children'.len = n - 1 /\ children' \in Slice
  BY <1>2 DEF Removes
<1>7. /\ heap' \in Seq(Seq(Element)) /\ Len(heap') = Len(heap)
      /\ \A a \in 1 .. Len(heap) : Len(heap'[a]) = Len(heap[a])
      /\ \A a \in 1 .. Len(heap) : a # b => heap'[a] = heap[a]
  BY <1>2 DEF Removes
<1>8. StateOK'
  BY <1>0 DEF StateOK, Unlink
<1>9. SliceOK(children)'
  <2>1. \A i \in 1 .. n - 1 : heap'[b][i] \in Child
    BY <1>3, <1>4, <1>5
  <2> QED
    BY <1>3, <1>6, <1>7, <2>1 DEF SliceOK
<1>10. queue' = queue
  BY DEF Unlink
<1>11. /\ \A i \in 1 .. queue.len : heap'[queue.array][i] = heap[queue.array][i]
       /\ SliceOK(queue)'
  <2>1. Len(heap) <= Len(heap')
    BY <1>0, <1>7 DEF HeapOK
  <2> QED
    BY <1>0, <1>7, <1>10, <2>1, QueueUntouched
<1>12. WalkOK'
  <2>1. \A w \in Walker : walk'[w] = [walk[w] EXCEPT
          !.disturbed = @ \/ walk[w].pc \in {"array", "len", "loop"}]
    BY DEF Unlink
  <2>2. ASSUME NEW w \in Walker
        PROVE  walk'[w] \in Walk /\ walk'[w].array = walk[w].array
    <3>1. walk[w] \in Walk
      BY <1>0 DEF WalkOK
    <3>2. PICK d \in BOOLEAN : walk'[w] = [walk[w] EXCEPT !.disturbed = d]
      <4>1. (walk[w].disturbed \/ walk[w].pc \in {"array", "len", "loop"}) \in BOOLEAN
        OBVIOUS
      <4> QED
        BY <2>1, <4>1
    <3> QED
      BY <3>1, <3>2 DEF Walk
  <2>3. DOMAIN walk' = Walker /\ walk' = [w \in Walker |-> walk'[w]]
    BY DEF Unlink
  <2> QED
    BY <1>0, <1>7, <2>2, <2>3 DEF WalkOK
<1>13. Shape'
  BY <1>7, <1>8, <1>9, <1>11, <1>12 DEF Shape, HeapOK
<1>14. Listed'
  <2> SUFFICES ASSUME NEW d \in Child
               PROVE  d \in Linked' <=> \E i \in 1 .. n - 1 : heap'[b][i] = d
    BY <1>6 DEF Listed
  <2>1. ASSUME d \in Linked' PROVE \E i \in 1 .. n - 1 : heap'[b][i] = d
    <3>1. PICK j \in 1 .. n : heap[b][j] = d
      BY <1>0, <1>1, <2>1 DEF Listed
    <3>2. j # p
      BY <1>1, <1>4, <2>1, <3>1
    <3>3. PICK i \in 1 .. n - 1 : Old(p, i) = j
      <4>1. CASE j < p
        BY <1>3, <4>1
      <4>2. CASE j > p
        <5>1. j - 1 \in 1 .. n - 1 /\ Old(p, j - 1) = j
          BY <1>3, <4>2
        <5> QED
          BY <5>1
      <4> QED
        BY <1>3, <3>2, <4>1, <4>2
    <3> QED
      BY <1>4, <3>1, <3>3
  <2>2. ASSUME NEW i \in 1 .. n - 1, heap'[b][i] = d PROVE d \in Linked'
    <3>1. heap[b][Old(p, i)] = d /\ Old(p, i) \in 1 .. n /\ Old(p, i) # p
      BY <1>4, <1>5, <2>2
    <3>2. d \in Linked /\ d # c
      <4> HIDE DEF Old
      <4> QED BY <1>0, <1>4, <3>1 DEF Listed, Once
    <3> QED
      BY <1>1, <3>2
  <2> QED
    BY <2>1, <2>2
<1>15. Once'
  <2> SUFFICES ASSUME NEW i \in 1 .. n - 1, NEW j \in 1 .. n - 1, heap'[b][i] = heap'[b][j]
               PROVE  i = j
    BY <1>6 DEF Once
  <2>1. Old(p, i) = Old(p, j)
    <3> HIDE DEF Old
    <3> QED BY <1>0, <1>4, <1>5 DEF Once
  <2> QED
    BY <1>3, <2>1
<1>16. NoAlias'
  BY <1>0, <1>6 DEF NoAlias, Unlink
<1>17. QueueInv'
  <2>1. \A d \in Child : status[d] = "gone" => status'[d] = "gone"
    BY <1>0 DEF StateOK, Unlink
  <2>2. \A i \in 1 .. queue.len : heap[queue.array][i] \in Child
    BY <1>0, QueueHolds
  <2>3. UNCHANGED <<sender, sending, child, queued, queue>>
    BY DEF Unlink
  <2> QED
    BY <1>0, <1>11, <2>1, <2>2, <2>3 DEF QueueInv
<1>18. PeakInv'
  <2>1. peak' = peak /\ peak \in Nat /\ n <= peak
    BY <1>0 DEF Unlink, StateOK, PeakInv
  <2>2. ASSUME NEW i \in 1 .. Len(heap[b]), heap'[b][i] # NoSpan
        PROVE  i <= peak
    <3>1. CASE i < n
      BY <1>3, <2>1, <3>1
    <3>2. CASE i >= n
      BY <1>0, <1>3, <1>4, <2>2, <3>2 DEF PeakInv
    <3> QED
      BY <1>3, <3>1, <3>2
  <2>3. n - 1 <= peak
    BY <1>3, <2>1
  <2> QED
    BY <1>3, <1>6, <1>7, <2>1, <2>2, <2>3 DEF PeakInv
<1>19. WalkInv'
  <2> SUFFICES ASSUME NEW w \in Walker, ~walk'[w].disturbed
               PROVE  WalkerInv(walk[w])'
    BY DEF WalkInv
  <2>1. walk'[w] = [walk[w] EXCEPT
          !.disturbed = @ \/ walk[w].pc \in {"array", "len", "loop"}]
    BY DEF Unlink
  <2>2. walk[w] \in Walk
    BY <1>0 DEF WalkOK
  <2>3. /\ walk'[w].pc = walk[w].pc /\ walk'[w].next = walk[w].next
        /\ walk'[w].linked = walk[w].linked /\ walk'[w].visited = walk[w].visited
        /\ walk[w].pc \notin {"array", "len", "loop"} /\ ~walk[w].disturbed
    BY <2>1, <2>2 DEF Walk
  <2>4. WalkerInv(walk[w])
    BY <1>0, <2>3 DEF WalkInv
  <2> QED
    BY <2>3, <2>4 DEF WalkerInv
<1> QED
  BY <1>13, <1>14, <1>15, <1>16, <1>17, <1>18, <1>19 DEF IInv

LEMMA SnapshotKeeps ==
  ASSUME IInv, Snapshot
  PROVE  IInv'
<1>0. /\ HeapOK /\ SliceOK(children) /\ SliceOK(queue) /\ StateOK /\ WalkOK
      /\ Listed /\ Once /\ NoAlias /\ QueueInv /\ PeakInv /\ WalkInv
  BY DEF IInv, Shape
<1>1. Copies
  BY <1>0, CopyOfSyncCopies DEF Snapshot
<1>2. UNCHANGED <<children, status, isAsync, sending, child, walk, peak>>
  BY DEF Snapshot
<1>3. /\ heap' \in Seq(Seq(Element)) /\ Len(heap) <= Len(heap')
      /\ \A a \in 1 .. Len(heap) : heap'[a] = heap[a]
      /\ Len(heap) \in Nat /\ Len(heap') \in Nat
  BY <1>0, <1>1 DEF Copies, HeapOK
<1>4. /\ children.array \in 0 .. Len(heap) /\ children.len \in Nat
      /\ children.array = 0 => children.len = 0
      /\ children.array # 0 => heap'[children.array] = heap[children.array]
  BY <1>0, <1>3 DEF SliceOK, Slice
<1>5. Linked' = Linked
  BY <1>2 DEF Linked
<1>6. SliceOK(children)'
  BY <1>0, <1>2, <1>3, <1>4 DEF SliceOK
<1>7. SliceOK(queue)'
  <2>1. queue'.array # 0 => queue'.array \in 1 .. Len(heap')
    BY <1>1, <1>3 DEF Copies
  <2> QED
    BY <1>1, <2>1 DEF Copies, SliceOK
<1>8. StateOK'
  BY <1>0, <1>2 DEF StateOK, Snapshot, Linked
<1>9. WalkOK'
  BY <1>0, <1>2, <1>3 DEF WalkOK, Walk
<1>10. Shape'
  BY <1>3, <1>6, <1>7, <1>8, <1>9 DEF Shape, HeapOK
<1>11. \A i \in 1 .. children.len : heap'[children.array][i] = heap[children.array][i]
  BY <1>4
<1>12. Listed'
  BY <1>0, <1>2, <1>5, <1>11 DEF Listed
<1>13. Once'
  BY <1>0, <1>2, <1>11 DEF Once
<1>14. NoAlias'
  <2>1. queue'.array # 0 => queue'.array # children.array
    BY <1>1, <1>3, <1>4 DEF Copies
  <2> QED
    BY <1>2, <2>1 DEF NoAlias, Snapshot
<1>15. QueueInv'
  <2>1. sender' = "cascade" /\ sending' = 1
    BY <1>0, <1>2 DEF Snapshot, NoAlias
  <2>2. queue'.len \in Nat /\ \A i \in 1 .. queue'.len : ~(i < sending')
    BY <1>7, <2>1 DEF SliceOK, Slice
  <2>3. ASSUME NEW c \in queued'
        PROVE  \E j \in 1 .. queue'.len : heap'[queue'.array][j] = c
    <3>1. c \in Linked /\ ~isAsync[c] /\ c \in Child
      BY DEF Snapshot, Linked
    <3>2. PICK i \in 1 .. children.len : heap[children.array][i] = c
      BY <1>0, <3>1 DEF Listed
    <3> QED
      BY <1>1, <3>1, <3>2 DEF Copies
  <2> QED
    BY <2>1, <2>2, <2>3 DEF QueueInv
<1>16. PeakInv'
  BY <1>0, <1>2, <1>4 DEF PeakInv
<1>17. SettledStays
  <2>1. ASSUME NEW a \in 1 .. Len(heap), NEW i, NEW d
        PROVE  Settled(a, i, d)' <=> Settled(a, i, d)
    BY <1>2, <1>3 DEF Settled
  <2>2. ASSUME NEW i, NEW d, Settled(children.array, i, d)
        PROVE  /\ children'.array # 0 /\ i <= children'.len
               /\ i <= Len(heap'[children'.array]) /\ heap'[children'.array][i] = d
    BY <1>2, <1>4, <2>2 DEF Settled
  <2> QED
    BY <2>1, <2>2 DEF SettledStays
<1>18. WalkInv'
  BY <1>0, <1>2, <1>17, WalksGoOn
<1> QED
  BY <1>10, <1>12, <1>13, <1>14, <1>15, <1>16, <1>18 DEF IInv

-------------------------------------------------------------------------------
(* The walkers.                                                            *)

LEMMA WalkingKeeps ==
  ASSUME IInv, NEW w \in Walker, NEW k \in Walk, Walking(w, k),
         k.array <= Len(heap), ~k.disturbed => WalkerInv(k)
  PROVE  IInv'
<1>1. UNCHANGED <<heap, children, status, isAsync, sender, queue, sending, child,
                  queued, peak>>
  BY DEF Walking
<1>2. walk' \in [Walker -> Walk] /\ walk'[w] = k
      /\ \A v \in Walker : v # w => walk'[v] = walk[v]
  BY DEF IInv, Shape, WalkOK, Walking
<1>3. Linked' = Linked
  BY <1>1 DEF Linked
<1>4. Shape'
  BY <1>1, <1>2 DEF IInv, Shape, HeapOK, SliceOK, StateOK, WalkOK
<1>5. Listed' /\ Once' /\ NoAlias' /\ QueueInv' /\ PeakInv'
  BY <1>1, <1>3 DEF IInv, Listed, Once, NoAlias, QueueInv, PeakInv
<1>6. WalkInv'
  <2>1. \A a, i, c : Settled(a, i, c)' <=> Settled(a, i, c)
    BY <1>1 DEF Settled
  <2> SUFFICES ASSUME NEW v \in Walker, ~walk'[v].disturbed
               PROVE  WalkerInv(walk[v])'
    BY DEF WalkInv
  <2>2. WalkerInv(walk'[v])
    BY <1>2 DEF IInv, WalkInv
  <2> QED
    BY <1>1, <2>2 DEF WalkerInv, Settled
<1> QED
  BY <1>4, <1>5, <1>6 DEF IInv

LEMMA WalkTyped ==
  ASSUME IInv, NEW w \in Walker
  PROVE  /\ walk[w] \in Walk /\ walk[w].array <= Len(heap)
         /\ children.array \in Nat /\ children.array <= Len(heap) /\ Len(heap) \in Nat
         /\ children.len \in Nat
         /\ ~walk[w].disturbed => WalkerInv(walk[w])
BY DEF IInv, Shape, WalkOK, WalkInv, SliceOK, Slice, HeapOK

LEMMA GetChildrenKeeps ==
  ASSUME IInv, NEW w \in Walker, GetChildren(w)
  PROVE  IInv'
<1> DEFINE k == walk[w]
           k1 == [k EXCEPT !.pc = "array", !.linked = Linked, !.array = children.array]
           k2 == [k EXCEPT !.pc = "len", !.linked = Linked, !.len = children.len]
<1>1. /\ k \in Walk /\ k.array <= Len(heap) /\ k.pc = "start"
      /\ children.array \in Nat /\ children.array <= Len(heap) /\ children.len \in Nat
      /\ ~k.disturbed => k.next = 1
  BY WalkTyped DEF GetChildren, WalkerInv
<1>2. \A c \in Linked : \E i \in 1 .. children.len : Settled(children.array, i, c)
  <2> SUFFICES ASSUME NEW c \in Linked
               PROVE  \E i \in 1 .. children.len : Settled(children.array, i, c)
    OBVIOUS
  <2>1. PICK i \in 1 .. children.len : heap[children.array][i] = c
    BY DEF IInv, Listed, Linked
  <2>2. children.array # 0 /\ i <= children.len /\ i <= Len(heap[children.array])
    BY <2>1 DEF IInv, Shape, SliceOK, Slice, HeapOK
  <2> QED
    BY <2>1, <2>2 DEF Settled
<1>3. Linked \in SUBSET Child
  BY DEF Linked
<1>4. CASE Walking(w, k1)
  <2>1. /\ k1 \in Walk /\ k1.array = children.array /\ k1.pc = "array"
        /\ k1.linked = Linked /\ k1.disturbed = k.disturbed /\ k1.next = k.next
    BY <1>1, <1>3 DEF Walk, WalkPlace
  <2>2. \A c \in Linked : \E i \in Nat \ {0} : Settled(children.array, i, c)
    BY <1>1, <1>2
  <2> HIDE DEF k1
  <2>3. ~k1.disturbed => WalkerInv(k1)
    BY <1>1, <2>1, <2>2 DEF WalkerInv
  <2> QED
    BY <1>1, <1>4, <2>1, <2>3, WalkingKeeps
<1>5. CASE Walking(w, k2)
  <2>1. /\ k2 \in Walk /\ k2.array = k.array /\ k2.pc = "len" /\ k2.len = children.len
        /\ k2.linked = Linked /\ k2.disturbed = k.disturbed /\ k2.next = k.next
    BY <1>1, <1>3 DEF Walk, WalkPlace
  <2> HIDE DEF k2
  <2>2. ~k2.disturbed => WalkerInv(k2)
    BY <1>1, <1>2, <2>1 DEF WalkerInv
  <2> QED
    BY <1>1, <1>5, <2>1, <2>2, WalkingKeeps
<1> QED
  BY <1>4, <1>5 DEF GetChildren

LEMMA GetChildrenRestKeeps ==
  ASSUME IInv, NEW w \in Walker, GetChildrenRest(w)
  PROVE  IInv'
<1> DEFINE k == walk[w]
           k1 == [k EXCEPT !.pc = "loop", !.len = children.len]
           k2 == [k EXCEPT !.pc = "loop", !.array = children.array]
<1>1. /\ k \in Walk /\ k.array <= Len(heap)
      /\ children.array \in Nat /\ children.array <= Len(heap) /\ children.len \in Nat
      /\ ~k.disturbed => WalkerInv(k)
  BY WalkTyped
<1>2. CASE k.pc = "array" /\ Walking(w, k1)
  <2>1. /\ k1 \in Walk /\ k1.array = k.array /\ k1.pc = "loop" /\ k1.len = children.len
        /\ k1.linked = k.linked /\ k1.disturbed = k.disturbed /\ k1.next = k.next
    BY <1>1 DEF Walk, WalkPlace
  <2>2. ~k.disturbed => k.next = 1 /\ \A c \in k.linked :
          \E i \in 1 .. children.len : Settled(k.array, i, c)
    BY <1>1, <1>2 DEF WalkerInv, Settled
  <2>3. \A i \in 1 .. children.len : ~(i < 1)
    BY <1>1
  <2> HIDE DEF k1
  <2>4. ~k1.disturbed => WalkerInv(k1)
    BY <2>1, <2>2, <2>3 DEF WalkerInv
  <2> QED
    BY <1>1, <1>2, <2>1, <2>4, WalkingKeeps
<1>3. CASE k.pc = "len" /\ Walking(w, k2)
  <2>1. /\ k2 \in Walk /\ k2.array = children.array /\ k2.pc = "loop" /\ k2.len = k.len
        /\ k2.linked = k.linked /\ k2.disturbed = k.disturbed /\ k2.next = k.next
    BY <1>1 DEF Walk, WalkPlace
  <2>2. ~k.disturbed => k.next = 1 /\ \A c \in k.linked :
          \E i \in 1 .. k.len : Settled(children.array, i, c)
    BY <1>1, <1>3 DEF WalkerInv
  <2>3. \A i \in 1 .. k.len : ~(i < 1)
    BY <1>1 DEF Walk
  <2> HIDE DEF k2
  <2>4. ~k2.disturbed => WalkerInv(k2)
    BY <2>1, <2>2, <2>3 DEF WalkerInv
  <2> QED
    BY <1>1, <1>3, <2>1, <2>4, WalkingKeeps
<1> QED
  BY <1>2, <1>3 DEF GetChildrenRest

LEMMA VisitKeeps ==
  ASSUME IInv, NEW w \in Walker, Visit(w)
  PROVE  IInv'
<1> DEFINE k == walk[w]
           slice == [array |-> k.array, len |-> k.len]
           k1 == [k EXCEPT !.next = @ + 1, !.visited = @ \cup {heap[k.array][k.next]}]
           k2 == [k EXCEPT !.pc = "wild"]
<1>1. /\ k \in Walk /\ k.array <= Len(heap) /\ Len(heap) \in Nat
      /\ k.pc = "loop" /\ k.next <= k.len
      /\ ~k.disturbed => WalkerInv(k)
  BY WalkTyped DEF Visit
<1>2. CASE k.next <= Cap(slice) /\ Walking(w, k1)
  <2>1. k.array \in 1 .. Len(heap) /\ k.next \in 1 .. Len(heap[k.array])
    <3>1. k.array # 0 /\ k.next <= Len(heap[k.array])
      BY <1>1, <1>2 DEF Cap, Walk
    <3> QED
      BY <1>1, <3>1 DEF Walk, IInv, Shape, HeapOK
  <2>2. heap[k.array][k.next] \in Element
    BY <2>1 DEF IInv, Shape, HeapOK
  <2>3. /\ k1 \in Walk /\ k1.array = k.array /\ k1.pc = "loop" /\ k1.len = k.len
        /\ k1.linked = k.linked /\ k1.disturbed = k.disturbed /\ k1.next = k.next + 1
        /\ k1.visited = k.visited \cup {heap[k.array][k.next]}
    <3>1. PICK n \in Nat \ {0}, V \in SUBSET Element :
            n = k.next + 1 /\ V = k.visited \cup {heap[k.array][k.next]}
      <4>1. k.next + 1 \in Nat \ {0}
        BY <1>1 DEF Walk
      <4>2. k.visited \cup {heap[k.array][k.next]} \in SUBSET Element
        BY <1>1, <2>2 DEF Walk
      <4> QED
        BY <4>1, <4>2
    <3>2. k1 = [k EXCEPT !.next = n, !.visited = V]
      BY <3>1
    <3> HIDE DEF k1
    <3>3. /\ k1 \in Walk /\ k1.array = k.array /\ k1.pc = "loop" /\ k1.len = k.len
          /\ k1.linked = k.linked /\ k1.disturbed = k.disturbed /\ k1.next = n
          /\ k1.visited = V
      BY <1>1, <3>2 DEF Walk
    <3> QED
      BY <3>1, <3>3
  <2>4. k.len \in Nat /\ k.next \in Nat
    BY <1>1 DEF Walk
  <2>5. ASSUME ~k.disturbed, NEW c \in k.linked
        PROVE  \E i \in 1 .. k.len : /\ Settled(k.array, i, c)
                                     /\ i < k.next + 1 => c \in k1.visited
    <3>1. PICK i \in 1 .. k.len : /\ Settled(k.array, i, c)
                                  /\ i < k.next => c \in k.visited
      BY <1>1, <2>5 DEF WalkerInv
    <3>2. i < k.next + 1 => i < k.next \/ i = k.next
      BY <2>4
    <3>3. i = k.next => c \in k1.visited
      BY <2>3, <3>1 DEF Settled
    <3> QED
      BY <2>3, <3>1, <3>2, <3>3
  <2> HIDE DEF k1
  <2>6. ~k1.disturbed => WalkerInv(k1)
    BY <2>3, <2>5 DEF WalkerInv
  <2> QED
    BY <1>1, <1>2, <2>3, <2>6, WalkingKeeps
<1>3. CASE Walking(w, k2)
  <2>1. k2 \in Walk /\ k2.array = k.array /\ k2.pc = "wild"
    BY <1>1 DEF Walk, WalkPlace
  <2> HIDE DEF k2
  <2>2. WalkerInv(k2)
    BY <2>1 DEF WalkerInv
  <2> QED
    BY <1>1, <1>3, <2>1, <2>2, WalkingKeeps
<1> QED
  BY <1>2, <1>3 DEF Visit

LEMMA WalkDoneKeeps ==
  ASSUME IInv, NEW w \in Walker, WalkDone(w)
  PROVE  IInv'
<1> DEFINE k == walk[w]
           k1 == [k EXCEPT !.pc = "done"]
<1>1. /\ k \in Walk /\ k.array <= Len(heap) /\ k.pc = "loop" /\ k.next > k.len
      /\ ~k.disturbed => WalkerInv(k)
      /\ Walking(w, k1)
  BY WalkTyped DEF WalkDone
<1>2. /\ k1 \in Walk /\ k1.array = k.array /\ k1.pc = "done" /\ k1.linked = k.linked
      /\ k1.visited = k.visited /\ k1.disturbed = k.disturbed
  BY <1>1 DEF Walk, WalkPlace
<1>3. \A i \in 1 .. k.len : i < k.next
  BY <1>1 DEF Walk
<1>4. ~k.disturbed => k.linked \subseteq k.visited
  BY <1>1, <1>3 DEF WalkerInv
<1> HIDE DEF k1
<1>5. ~k1.disturbed => WalkerInv(k1)
  BY <1>2, <1>4 DEF WalkerInv
<1> QED
  BY <1>1, <1>2, <1>5, WalkingKeeps

-------------------------------------------------------------------------------
LEMMA InitIInv == Init => IInv
<1> SUFFICES ASSUME Init PROVE IInv
  OBVIOUS
<1>1. Shape
  BY DEF Init, Shape, HeapOK, SliceOK, StateOK, WalkOK, Walk, WalkPlace, NotWalking, nil,
         Slice, Element
<1>2. Listed /\ Once /\ NoAlias /\ QueueInv /\ PeakInv
  BY DEF Init, Listed, Once, NoAlias, QueueInv, PeakInv, nil, Linked
<1>3. WalkInv
  BY DEF Init, WalkInv, WalkerInv, NotWalking
<1> QED
  BY <1>1, <1>2, <1>3 DEF IInv

LEMMA NextIInv == IInv /\ [Next]_vars => IInv'
<1> SUFFICES ASSUME IInv, [Next]_vars PROVE IInv'
  OBVIOUS
<1>1. CASE UNCHANGED vars
  <2>1. UNCHANGED <<heap, children, queue, walk, peak, queued, status, isAsync, sender,
                    sending, child>>
    BY <1>1 DEF vars
  <2>2. StateOK' /\ Linked' = Linked /\ QueueInv'
    BY <2>1 DEF IInv, Shape, StateOK, Linked, QueueInv
  <2> QED
    BY <2>1, <2>2, QuietKeeps
<1>2. ASSUME NEW c \in Child, NEW async \in BOOLEAN, CreateChild(c, async) PROVE IInv'
  BY <1>2, CreateChildKeeps
<1>3. ASSUME NEW c \in Child, MarkSent(c) PROVE IInv'
  BY <1>3, MarkSentKeeps
<1>4. ASSUME NEW c \in Child, Unlink(c) PROVE IInv'
  BY <1>4, UnlinkKeeps
<1>5. CASE Snapshot
  BY <1>5, SnapshotKeeps
<1>6. CASE NextChild
  BY <1>6, NextChildKeeps
<1>7. CASE SendByParent
  BY <1>7, SendByParentKeeps
<1>8. CASE ChildSent
  BY <1>8, ChildSentKeeps
<1>9. CASE CascadeDone
  BY <1>9, CascadeDoneKeeps
<1>10. ASSUME NEW w \in Walker, GetChildren(w) PROVE IInv'
  BY <1>10, GetChildrenKeeps
<1>11. ASSUME NEW w \in Walker, GetChildrenRest(w) PROVE IInv'
  BY <1>11, GetChildrenRestKeeps
<1>12. ASSUME NEW w \in Walker, Visit(w) PROVE IInv'
  BY <1>12, VisitKeeps
<1>13. ASSUME NEW w \in Walker, WalkDone(w) PROVE IInv'
  BY <1>13, WalkDoneKeeps
<1> QED
  BY <1>1, <1>2, <1>3, <1>4, <1>5, <1>6, <1>7, <1>8, <1>9, <1>10, <1>11, <1>12, <1>13
  DEF Next

LEMMA Invariance == Spec => []IInv
BY InitIInv, NextIInv, PTL DEF Spec

-------------------------------------------------------------------------------
(* The properties, which speak of slices as sequences and sets.            *)

LEMMA ElementsPlaces ==
  ASSUME HeapOK, NEW s, SliceOK(s)
  PROVE  /\ Elements(s) \in Seq(Child) /\ Len(Elements(s)) = s.len
         /\ DOMAIN Elements(s) = 1 .. s.len
         /\ \A i \in 1 .. s.len : Elements(s)[i] = heap[s.array][i]
<1>1. CASE s.array = 0
  BY <1>1 DEF SliceOK, Elements
<1>2. CASE s.array # 0
  <2>1. /\ heap[s.array] \in Seq(Element) /\ s.len \in Nat /\ s.len <= Len(heap[s.array])
        /\ \A i \in 1 .. s.len : heap[s.array][i] \in Child
    BY <1>2 DEF SliceOK, Slice, HeapOK
  <2>2. Elements(s) = [i \in 1 .. s.len |-> heap[s.array][i]]
    BY <1>2, <2>1 DEF Elements
  <2> QED
    BY <2>1, <2>2
<1> QED
  BY <1>1, <1>2

\* The slices lie within their arrays and hold spans (the writers of
\* Span.children).
THEOREM SlicesTyped == Spec => []TypeOK
<1>1. ASSUME IInv PROVE TypeOK
  <2>1. \A a \in DOMAIN heap : heap[a] \in Seq(Child \cup {NoSpan})
    BY <1>1 DEF IInv, Shape, HeapOK, Element
  <2>2. ASSUME NEW s \in {children, queue}
        PROVE  /\ s \in Slice /\ s.array \in 0 .. Len(heap) /\ s.len <= Cap(s)
               /\ NoSpan \notin ToSet(Elements(s))
    <3>1. HeapOK /\ SliceOK(s) /\ Len(heap) \in Nat
      BY <1>1 DEF IInv, Shape, HeapOK
    <3>2. s \in Slice /\ s.array \in 0 .. Len(heap) /\ s.len <= Cap(s)
      BY <3>1 DEF SliceOK, Slice, Cap
    <3>3. \A i \in DOMAIN Elements(s) : Elements(s)[i] \in Child
      BY <3>1, ElementsPlaces
    <3> QED
      BY <3>2, <3>3, NoSpanAssumption DEF ToSet
  <2>3. walk \in [Walker -> [pc: WalkPlace, array: 0 .. Len(heap), len: Nat,
                             next: Nat, visited: SUBSET (Child \cup {NoSpan}),
                             linked: SUBSET Child, disturbed: BOOLEAN]]
    <3>1. /\ walk \in [Walker -> Walk] /\ Len(heap) \in Nat
          /\ \A w \in Walker : walk[w].array <= Len(heap)
      BY <1>1 DEF IInv, Shape, HeapOK, WalkOK
    <3> QED
      BY <3>1 DEF Walk, Element
  <2> QED
    BY <1>1, <2>1, <2>2, <2>3 DEF TypeOK, IInv, Shape, StateOK, Element
<1> QED
  BY <1>1, Invariance, PTL

\* The slice holds each linked child once and nothing else (createChildSpan,
\* removeChildSpan).
THEOREM LinkedListed == Spec => []ListsLinked
<1>1. ASSUME IInv PROVE ListsLinked
  <2>1. HeapOK /\ SliceOK(children) /\ Listed /\ Once
    BY <1>1 DEF IInv, Shape
  <2>2. /\ DOMAIN Elements(children) = 1 .. children.len
        /\ \A i \in 1 .. children.len : /\ Elements(children)[i] = heap[children.array][i]
                                        /\ Elements(children)[i] \in Child
    BY <2>1, ElementsPlaces
  <2>3. ToSet(Elements(children)) = Linked
    BY <2>1, <2>2 DEF ToSet, Listed, Linked
  <2>4. IsInjective(Elements(children))
    BY <2>1, <2>2 DEF IsInjective, Once
  <2> QED
    BY <2>3, <2>4 DEF ListsLinked
<1> QED
  BY <1>1, Invariance, PTL

\* The loop over childrenToSend ends only when all that were collected are sent,
\* however the children's array has shifted (sendLocked).
THEOREM CascadeComplete == Spec => []CascadeReachesQueued
<1>1. ASSUME IInv PROVE CascadeReachesQueued
  <2> SUFFICES ASSUME sender = "done", NEW c \in queued PROVE status[c] = "gone"
    BY DEF CascadeReachesQueued
  <2>1. PICK i \in 1 .. queue.len : heap[queue.array][i] = c
    BY <1>1 DEF IInv, QueueInv
  <2>2. queue.len \in Nat /\ sending \in Nat /\ sending > queue.len /\ child = NoSpan
    BY <1>1, QueueHolds DEF IInv, Shape, StateOK, QueueInv
  <2>3. i < sending
    BY <2>2
  <2>4. c # NoSpan
    BY <1>1, NoSpanAssumption DEF IInv, Shape, StateOK
  <2> QED
    BY <1>1, <2>1, <2>2, <2>3, <2>4 DEF IInv, QueueInv
<1> QED
  BY <1>1, Invariance, PTL

\* An unlocked walk that no removal disturbs misses no child that was linked when
\* it began (GetChildren, createChildSpan).
THEOREM WalkComplete == Spec => []WalkSeesLinked
<1>1. IInv => WalkSeesLinked
  BY DEF IInv, WalkInv, WalkerInv, WalkSeesLinked
<1> QED
  BY <1>1, Invariance, PTL

\* What the tail of the array retains and what is linked are together no more
\* than were linked at one time (removeChildSpan).
THEOREM RetainedBounded == Spec => []RetentionBounded
<1>1. ASSUME IInv PROVE RetentionBounded
  <2> DEFINE b == children.array
             All == Retained \cup Linked
             Place(c) == CHOOSE i \in 1 .. peak : heap[b][i] = c
             f == [c \in All |-> Place(c)]
  <2>1. /\ HeapOK /\ SliceOK(children) /\ StateOK /\ Listed /\ PeakInv
    BY <1>1 DEF IInv, Shape
  <2>2. IsFiniteSet(Retained) /\ IsFiniteSet(Linked)
    BY ChildAssumption, FS_Subset DEF Retained, Linked
  <2>3. peak \in Nat /\ IsFiniteSet(1 .. peak) /\ Cardinality(1 .. peak) = peak
    BY <2>1, FS_Interval DEF StateOK
  <2>4. ASSUME NEW c \in All PROVE \E i \in 1 .. peak : heap[b][i] = c
    <3>1. CASE c \in Linked
      <4>1. PICK i \in 1 .. children.len : heap[b][i] = c
        BY <2>1, <3>1 DEF Listed, Linked
      <4>2. i \in 1 .. peak
        BY <2>1, <2>3 DEF PeakInv, SliceOK, Slice
      <4> QED
        BY <4>1, <4>2
    <3>2. CASE c \in Retained
      <4>1. c \in Child /\ b # 0 /\ c \in ToSet(heap[b])
        BY <3>2 DEF Retained
      <4>2. heap[b] \in Seq(Element)
        BY <2>1, <4>1 DEF SliceOK, HeapOK
      <4>3. PICK i \in 1 .. Len(heap[b]) : heap[b][i] = c
        BY <4>1, <4>2 DEF ToSet
      <4>4. i \in 1 .. peak
        BY <2>1, <2>3, <4>1, <4>2, <4>3, NoSpanAssumption DEF PeakInv
      <4> QED
        BY <4>3, <4>4
    <3> QED
      BY <3>1, <3>2
  <2>5. \A c \in All : Place(c) \in 1 .. peak /\ heap[b][Place(c)] = c
    BY <2>4
  <2>6. f \in Injection(All, 1 .. peak)
    <3> HIDE DEF Place, All
    <3> QED
      BY <2>5 DEF Injection, IsInjective
  <2>7. Cardinality(All) <= peak
    BY <2>3, <2>6, FS_Injection
  <2>8. Retained \cap Linked = {}
    BY DEF Retained, Linked
  <2>9. Cardinality(All) = Cardinality(Retained) + Cardinality(Linked)
    <3>1. Cardinality(Retained \cap Linked) = 0
      BY <2>8, FS_EmptySet
    <3>2. Cardinality(Retained) \in Nat /\ Cardinality(Linked) \in Nat
      BY <2>2, FS_CardinalityType
    <3>3. Cardinality(All) = Cardinality(Retained) + Cardinality(Linked)
                             - Cardinality(Retained \cap Linked)
      BY <2>2, FS_Union
    <3> QED
      BY <3>1, <3>2, <3>3
  <2> QED
    BY <2>7, <2>9 DEF RetentionBounded
<1> QED
  BY <1>1, Invariance, PTL

===============================================================================
