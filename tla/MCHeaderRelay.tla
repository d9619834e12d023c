---------------------------- MODULE MCHeaderRelay -----------------------------
(***************************************************************************)
(* HeaderRelay with a few IDs of each make, fields with and without a name *)
(* that means something to the Amazon format, and trace states that are    *)
(* one too long; the keys of these are interchangeable.                    *)
(***************************************************************************)
EXTENDS HeaderRelay, TLC

CONSTANTS t1, p1, s1, s2, o1, v1, d1, MaxForeignState

Symmetry == Permutations(Key)

MCPadded == [s \in Hex16 |-> p1]

SeqUpTo(S, n) == UNION {[1..m -> S] : m \in 0..n}

-------------------------------------------------------------------------------
(* Headers of other programs: every combination of a good and a bad value  *)
(* of each part, and every trace state behind a good traceparent.          *)

ForeignFields == {NoFields, [NoFields EXCEPT !["user"] = "text"]}

Cuts == {"version", "id", "dataset", "context"}

ForeignHoneycomb ==
  {Honeycomb([version |-> ver, cut |-> "nowhere", trace |-> t, parent |-> s,
              dataset |-> d, context |-> [decodes |-> ok, fields |-> f]]) :
     ver \in {1, 2}, t \in {t1, o1, Zero32, NoId}, s \in {s1, o1, Zero16, NoId},
     d \in {d1, NoDataset}, ok \in BOOLEAN, f \in ForeignFields} \cup
  {Honeycomb([version |-> ver, cut |-> c, trace |-> t1, parent |-> s1,
              dataset |-> NoDataset, context |-> [decodes |-> TRUE, fields |-> NoFields]]) :
     ver \in {1, 2}, c \in Cuts}

Traceparent(ok, ver, t, s, flags) ==
  [wellFormed |-> ok, version |-> ver, trace |-> t, parent |-> s, flags |-> flags]

ForeignW3C ==
  {W3C(Traceparent(ok, ver, t, s, flags), <<>>) :
     ok \in BOOLEAN, ver \in {0, 1, 255}, t \in {t1, Zero32}, s \in {s1, Zero16},
     flags \in 0..3} \cup
  {W3C(Traceparent(TRUE, 0, t1, s1, 1), state) :
     state \in SeqUpTo([key : Key, value : {v1}] \cup {Gap, Malformed}, MaxForeignState)}

ForeignB3 ==
  {B3([shape |-> shape, trace |-> t, span |-> s, sampling |-> d, parent |-> p],
      NoB3Multiple) :
     shape \in B3Shape \ {"absent"}, t \in {t1, s2, Zero32, o1},
     s \in {s1, Zero16}, d \in {"", "0", "1", "d", "?"}, p \in {s2, o1}} \cup
  {B3(NoB3Single,
      [trace |-> t, span |-> s, parent |-> p, sampled |-> d, flags |-> f]) :
     t \in {t1, s2, o1, NoId}, s \in {s1, Zero16, NoId}, p \in {s2, o1, NoId},
     d \in {"", "0", "1", "?"}, f \in {"", "1"}}

ForeignAmazon ==
  {Amazon([root |-> r, parent |-> p, self |-> s, fields |-> f]) :
     r \in {o1, t1, NoId}, p \in {s1, NoId}, s \in {s2, NoId}, f \in ForeignFields}

MCForeignHeader == ForeignHoneycomb \cup ForeignW3C \cup ForeignB3 \cup ForeignAmazon
===============================================================================
