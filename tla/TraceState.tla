------------------------------ MODULE TraceState -------------------------------
(***************************************************************************)
(* The tracestate list of the W3C headers (propagation/tracestate.go): a   *)
(* list of vendors' members, newest first, at most one per key, at most    *)
(* maxListMembers long, limits that each operation has to keep by itself.  *)
(* A member is a key and a value that match the regular expressions; text  *)
(* between two commas that is empty is a Gap, any other text is Malformed. *)
(***************************************************************************)
EXTENDS Naturals, Sequences, SequencesExt

CONSTANTS
  Key, Value,     \* keys and values that keyRe and valueRe match
  Gap, Malformed, \* what else may stand between two commas
  maxListMembers  \* 32 in the code

ASSUME MaxAssumption == maxListMembers \in Nat \ {0}

Member == [key: Key, value: Value]
Entry == Member \cup {Gap, Malformed}

NoDuplicates(s) == \A i, j \in 1..Len(s) : s[i].key = s[j].key => i = j

\* The comment on TraceState: "all list-member's key/value pairs are valid, no
\* duplicate list-members exist, and the maximum number of list-members (32)
\* is not exceeded".
Conforms(s) == s \in Seq(Member) /\ NoDuplicates(s) /\ Len(s) <= maxListMembers

-------------------------------------------------------------------------------
(* Seeded faults: the definitions below with a plausible bug in them.      *)

\* A list that is too long is cut short.
ParseTraceStateTruncated(header) ==
  LET members == SelectSeq(header, LAMBDA e : e # Gap)
      first == IF Len(members) <= maxListMembers THEN members
               ELSE SubSeq(members, 1, maxListMembers) IN
  IF first \in Seq(Member) /\ NoDuplicates(first) THEN first ELSE <<>>

\* A full list is not told from one that has the key already.
InsertUnlimited(s, k, v) ==
  IF k \notin Key \/ v \notin Value \/ Len(s) > maxListMembers THEN s
  ELSE <<[key |-> k, value |-> v]>> \o SelectSeq(s, LAMBDA m : m.key # k)

-------------------------------------------------------------------------------
\* ParseTraceState.  With any of its three errors the state is empty.
ParseTraceState(header) ==
  LET members == SelectSeq(header, LAMBDA e : e # Gap) IN
  IF /\ members \in Seq(Member)
     /\ NoDuplicates(members)
     /\ Len(members) <= maxListMembers
  THEN members ELSE <<>>

\* Delete removes the first member with the key, and looks no further.
Delete(s, k) ==
  LET i == SelectInSeq(s, LAMBDA m : m.key = k) IN
  IF i = 0 THEN s ELSE RemoveAt(s, i)

\* Insert: an error, when the member is not valid or the list is full, comes with
\* the state as it was.
Insert(s, k, v) ==
  LET cTS == Delete(s, k) IN
  IF k \notin Key \/ v \notin Value \/ Len(cTS) + 1 > maxListMembers THEN s
  ELSE <<[key |-> k, value |-> v]>> \o cTS
===============================================================================
