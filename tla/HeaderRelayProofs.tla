-------------------------- MODULE HeaderRelayProofs ---------------------------
(***************************************************************************)
(* What arrives of a trace through any number of headers, of any formats   *)
(* and from any program: proofs for all IDs, fields and trace states.      *)
(***************************************************************************)
EXTENDS HeaderRelay, SequenceTheorems, TLAPS

-------------------------------------------------------------------------------
(* The list of the W3C trace state.                                        *)

\* Parsing never lets more through than the specification allows.
LEMMA ParseConforms ==
  ASSUME NEW header
  PROVE  Conforms(ParseTraceState(header))
<1> DEFINE members == SelectSeq(header, LAMBDA e : e # Gap)
           good == /\ members \in Seq(Member)
                   /\ NoDuplicates(members)
                   /\ Len(members) <= maxListMembers
<1>1. ParseTraceState(header) = IF good THEN members ELSE <<>>
  BY DEF ParseTraceState
<1>2. good => Conforms(members)
  BY DEF Conforms
<1>3. Conforms(<<>>)
  BY MaxAssumption DEF Conforms, NoDuplicates
<1> HIDE DEF members
<1> QED
  BY <1>1, <1>2, <1>3

\* Delete looks no further than the first match, and that is enough.
LEMMA DeleteConforms ==
  ASSUME NEW s, Conforms(s), NEW k
  PROVE  /\ Conforms(Delete(s, k))
         /\ \A j \in 1..Len(Delete(s, k)) : Delete(s, k)[j].key # k
<1> DEFINE I == {j \in 1..Len(s) : s[j].key = k}
           i == IF I # {} THEN Min(I) ELSE 0
           pre == SubSeq(s, 1, i - 1)
           post == SubSeq(s, i + 1, Len(s))
<1>1. Delete(s, k) = IF i = 0 THEN s ELSE pre \o post
  BY DEF Delete, RemoveAt, SelectInSeq
<1>2. s \in Seq(Member) /\ Len(s) \in Nat /\ Len(s) <= maxListMembers
  BY DEF Conforms
<1>3. \A a, b \in 1..Len(s) : s[a].key = s[b].key => a = b
  BY DEF Conforms, NoDuplicates
<1>4. CASE I = {}
  BY <1>1, <1>4
<1>5. CASE I # {}
  <2>1. PICK m \in I : TRUE
    BY <1>5
  <2>2. I = {m}
    BY <2>1, <1>3
  <2>3. Min(I) = m
    BY <2>1, <2>2, <1>2 DEF Min
  <2>4. i = m /\ m \in 1..Len(s) /\ s[m].key = k
    BY <2>1, <2>3
  <2> HIDE DEF i, I
  <2>5. \A j \in 1..(i - 1) : s[j] \in Member
    BY <1>2, <2>4
  <2>6. \A j \in (i + 1)..Len(s) : s[j] \in Member
    BY <1>2, <2>4
  <2>7. /\ pre \in Seq(Member) /\ Len(pre) = i - 1
        /\ \A j \in 1..(i - 1) : pre[j] = s[j]
    <3>1. i - 1 \in Int
      BY <1>2, <2>4
    <3> QED
      BY <3>1, <2>4, <2>5, <1>2, SubSeqProperties
  <2>8. /\ post \in Seq(Member) /\ Len(post) = Len(s) - i
        /\ \A j \in 1..(Len(s) - i) : post[j] = s[i + j]
    <3>1. i + 1 \in Int /\ Len(s) \in Int
      BY <1>2, <2>4
    <3>2. /\ post \in Seq(Member)
          /\ Len(post) = IF i + 1 <= Len(s) THEN Len(s) - (i + 1) + 1 ELSE 0
          /\ \A j \in 1..(Len(s) - (i + 1) + 1) : post[j] = s[(i + 1) + j - 1]
      BY <3>1, <2>6, SubSeqProperties
    <3>3. Len(s) - (i + 1) + 1 = Len(s) - i
      BY <1>2, <2>4
    <3>4. Len(post) = Len(s) - i
      BY <3>2, <2>4, <1>2
    <3>5. ASSUME NEW j \in 1..(Len(s) - i) PROVE post[j] = s[i + j]
      <4>1. (i + 1) + j - 1 = i + j
        BY <2>4, <1>2
      <4> QED
        BY <4>1, <3>2, <3>3
    <3> QED
      BY <3>2, <3>4, <3>5
  <2> DEFINE d == pre \o post
             old(j) == IF j < i THEN j ELSE j + 1
  <2> HIDE DEF pre, post
  <2>9. Delete(s, k) = d
    <3>1. i # 0
      BY <2>4, <1>2
    <3> QED
      BY <1>1, <3>1
  <2>10. d \in Seq(Member) /\ Len(d) = Len(s) - 1
    <3>1. d \in Seq(Member) /\ Len(d) = Len(pre) + Len(post)
      BY <2>7, <2>8
    <3> QED
      BY <3>1, <2>7, <2>8, <2>4, <1>2
  <2>11. ASSUME NEW j \in 1..Len(d)
         PROVE  /\ d[j] = s[old(j)]
                /\ old(j) \in 1..Len(s) /\ old(j) # i
    <3>1. CASE j < i
      <4>1. d[j] = pre[j]
        BY <3>1, <2>4, <2>7, <2>8, <2>10, <1>2
      <4> QED
        BY <4>1, <3>1, <2>4, <2>7, <2>10, <1>2
    <3>2. CASE ~(j < i)
      <4>1. d[j] = post[j - (i - 1)]
        BY <3>2, <2>4, <2>7, <2>8, <2>10, <1>2
      <4>2. j - (i - 1) \in 1..(Len(s) - i) /\ i + (j - (i - 1)) = j + 1
        BY <3>2, <2>4, <2>10, <1>2
      <4>3. post[j - (i - 1)] = s[j + 1]
        BY <4>2, <2>8
      <4> QED
        BY <4>1, <4>3, <3>2, <2>4, <2>10, <1>2
    <3> QED
      BY <3>1, <3>2
  <2> HIDE DEF d
  <2>12. NoDuplicates(d)
    <3> SUFFICES ASSUME NEW a \in 1..Len(d), NEW b \in 1..Len(d), d[a].key = d[b].key
                 PROVE  a = b
      BY DEF NoDuplicates
    <3>1. old(a) = old(b)
      BY <2>11, <1>3
    <3> QED
      BY <3>1, <2>4, <2>10, <1>2
  <2>13. \A j \in 1..Len(d) : d[j].key # k
    BY <2>11, <2>4, <1>3
  <2>14. Len(d) <= maxListMembers
    BY <2>10, <1>2, MaxAssumption
  <2> QED
    BY <2>9, <2>10, <2>12, <2>13, <2>14 DEF Conforms
<1> QED
  BY <1>4, <1>5

LEMMA InsertConforms ==
  ASSUME NEW s, Conforms(s), NEW k, NEW v
  PROVE  Conforms(Insert(s, k, v))
<1> DEFINE c == Delete(s, k)
           m == [key |-> k, value |-> v]
<1>1. /\ c \in Seq(Member) /\ Len(c) \in Nat
      /\ \A a, b \in 1..Len(c) : c[a].key = c[b].key => a = b
      /\ \A j \in 1..Len(c) : c[j].key # k
  BY DeleteConforms DEF Conforms, NoDuplicates
<1>2. Insert(s, k, v) = IF k \notin Key \/ v \notin Value \/ Len(c) + 1 > maxListMembers
                        THEN s ELSE <<m>> \o c
  BY DEF Insert
<1> HIDE DEF c
<1>3. k \in Key /\ v \in Value => m \in Member /\ m.key = k
  BY DEF Member
<1> HIDE DEF m
<1>4. CASE k \in Key /\ v \in Value /\ ~(Len(c) + 1 > maxListMembers)
  <2> DEFINE r == <<m>> \o c
  <2>1. r \in Seq(Member) /\ Len(r) = Len(c) + 1
    BY <1>1, <1>3, <1>4
  <2>2. r[1] = m /\ \A j \in 2..Len(r) : r[j] = c[j - 1] /\ j - 1 \in 1..Len(c)
    BY <1>1, <1>3, <1>4, <2>1
  <2> HIDE DEF r
  <2>3. NoDuplicates(r)
    <3> SUFFICES ASSUME NEW a \in 1..Len(r), NEW b \in 1..Len(r), r[a].key = r[b].key
                 PROVE  a = b
      BY DEF NoDuplicates
    <3>1. (a = 1 \/ a \in 2..Len(r)) /\ (b = 1 \/ b \in 2..Len(r))
      BY <2>1, <1>1
    <3>2. CASE a = 1 /\ b = 1
      BY <3>2
    <3>3. CASE a = 1 /\ b \in 2..Len(r)
      BY <3>3, <2>2, <1>3, <1>4, <1>1
    <3>4. CASE a \in 2..Len(r) /\ b = 1
      BY <3>4, <2>2, <1>3, <1>4, <1>1
    <3>5. CASE a \in 2..Len(r) /\ b \in 2..Len(r)
      <4>1. a - 1 = b - 1
        BY <3>5, <2>2, <1>1
      <4> QED
        BY <4>1, <3>5
    <3> QED
      BY <3>1, <3>2, <3>3, <3>4, <3>5
  <2>4. Len(r) <= maxListMembers
    BY <2>1, <1>1, <1>4, MaxAssumption
  <2> QED
    BY <2>1, <2>3, <2>4, <1>2, <1>4 DEF Conforms, r
<1> QED
  BY <1>2, <1>4

-------------------------------------------------------------------------------
(* What is read from a header of each format, whoever wrote it.            *)

LEMMA EmptyContext == Empty \in Context /\ Empty.trace = NoId /\ Empty.parent = NoId
                      /\ Empty.fields = NoFields /\ Empty.state = <<>>
<1>1. NoFields \in Fields
  BY DEF NoFields, Fields, Kind
<1>2. <<>> \in Seq(Member)
  OBVIOUS
<1> QED
  BY <1>1, <1>2 DEF Empty, Context, Id

LEMMA NoStateConforms == Conforms(<<>>)
  BY MaxAssumption DEF Conforms, NoDuplicates

Result == [prop: Context, err: BOOLEAN]

\* Of a header the unmarshal functions keep its IDs and its fields, or nothing,
\* and there is no parent without a trace.
Sound(r, ids, f) ==
  /\ r.prop \in Context /\ r.err \in BOOLEAN
  /\ Conforms(r.prop.state)
  /\ r.prop.trace \in ids \cup {NoId}
  /\ r.prop.fields \in {f, NoFields}
  /\ hasParentID(r.prop) => r.prop.trace # NoId

\* As long as the W3C and B3 formats have them.
LongIds(r) ==
  r.prop.trace \in Hex32 \cup {NoId} /\ r.prop.parent \in Hex16 \cup {NoId}

LEMMA RefusedSound ==
  ASSUME NEW ids, NEW f
  PROVE  Sound(Refused, ids, f) /\ LongIds(Refused)
BY EmptyContext, NoStateConforms
DEF Refused, Partial, Sound, LongIds, hasParentID

LEMMA HoneycombSound ==
  ASSUME NEW h \in HoneycombHeader, NEW keeps \in BOOLEAN
  PROVE  Sound(UnmarshalHoneycomb(h, keeps), {h.trace}, h.context.fields)
<1> DEFINE p == [Empty EXCEPT !.trace = h.trace, !.parent = h.parent,
                              !.dataset = IF keeps THEN h.dataset ELSE NoDataset,
                              !.fields = h.context.fields]
<1>1. h.trace \in Id /\ h.parent \in Id /\ h.dataset \in Dataset \cup {NoDataset}
      /\ h.context.fields \in Fields
  BY DEF HoneycombHeader
<1>2. /\ p \in Context /\ p.trace = h.trace /\ p.parent = h.parent
      /\ p.fields = h.context.fields /\ p.state = <<>>
  BY <1>1, EmptyContext DEF Empty, Context
<1> HIDE DEF p
<1>3. CASE UnmarshalHoneycomb(h, keeps) = Refused
  BY <1>3, RefusedSound
<1>4. CASE ~(h.trace = NoId /\ h.parent # NoId) /\ UnmarshalHoneycomb(h, keeps) = Read(p)
  BY <1>2, <1>4, NoStateConforms DEF Read, Sound, hasParentID
<1> QED
  BY <1>3, <1>4 DEF UnmarshalHoneycomb, p

LEMMA W3CSound ==
  ASSUME NEW h \in TraceparentHeader, NEW state
  PROVE  /\ Sound(UnmarshalW3C(h, state), IF h.wellFormed THEN {h.trace} ELSE {}, NoFields)
         /\ LongIds(UnmarshalW3C(h, state))
<1> DEFINE part == [Empty EXCEPT !.trace = h.trace]
           ids == [Empty EXCEPT !.trace = h.trace, !.parent = h.parent]
           list == ParseTraceState(state)
           bit == h.flags % 2 = 1
           p == [ids EXCEPT !.sampled = bit, !.state = list]
           r == UnmarshalW3C(h, state)
<1>1. h.trace \in Hex32 \cup {Zero32} /\ h.parent \in Hex16 \cup {Zero16}
  BY DEF TraceparentHeader
<1>2. bit \in BOOLEAN
  OBVIOUS
<1>3. Conforms(list) /\ list \in Seq(Member)
  BY ParseConforms DEF Conforms
<1> HIDE DEF bit, list
<1>4. /\ part \in Context /\ part.trace = h.trace /\ part.parent = NoId
      /\ part.fields = NoFields /\ part.state = <<>>
      /\ ids \in Context /\ ids.trace = h.trace /\ ids.parent = h.parent
      /\ ids.fields = NoFields /\ ids.state = <<>>
      /\ p \in Context /\ p.trace = h.trace /\ p.parent = h.parent
      /\ p.fields = NoFields /\ p.state = list
  BY <1>1, <1>2, <1>3, EmptyContext DEF Empty, Context, Id
<1>5. /\ r \in {Refused, Partial(part), Partial(ids), Read(p)}
      /\ r # Refused => h.wellFormed /\ h.trace # Zero32
      /\ r \in {Partial(ids), Read(p)} \ {Refused, Partial(part)} => h.parent # Zero16
  BY DEF UnmarshalW3C, bit, list
<1> HIDE DEF part, ids, p, r
<1>6. CASE r = Refused
  BY <1>6, RefusedSound DEF r
<1>7. CASE r = Partial(part) /\ r # Refused
  <2>1. r.prop = part /\ r.err = TRUE
    BY <1>7 DEF Partial
  <2> QED
    BY <2>1, <1>1, <1>4, <1>5, <1>7, NoStateConforms, IdAssumption
    DEF Sound, LongIds, hasParentID, r
<1>8. CASE r \in {Partial(ids), Read(p)} /\ r # Refused /\ r # Partial(part)
  <2>1. r.prop \in {ids, p} /\ r.err \in BOOLEAN
    <3>1. CASE r = Partial(ids)
      BY <3>1 DEF Partial
    <3>2. CASE r = Read(p)
      BY <3>2 DEF Read
    <3> QED
      BY <1>8, <3>1, <3>2
  <2>2. h.parent \in Hex16 /\ h.trace \in Hex32 /\ h.wellFormed
    BY <1>1, <1>5, <1>8
  <2> QED
    BY <2>1, <2>2, <1>3, <1>4, NoStateConforms, IdAssumption
    DEF Sound, LongIds, hasParentID, r
<1> QED
  BY <1>5, <1>6, <1>7, <1>8

\* What an ID of the B3 headers becomes, and what a short one becomes of it.
LEMMA B3Id ==
  ASSUME NEW i \in Id
  PROVE  /\ B3TraceID(i) \in Id
         /\ i \notin Hex16 => B3TraceID(i) = i
         /\ B3TraceID(i) = NoId <=> i = NoId
BY PaddedAssumption, IdAssumption DEF B3TraceID, Id

LEMMA SingleSound ==
  ASSUME NEW h \in B3SingleHeader, NEW ctx \in B3Ctx
  PROVE  LET r == ExtractSingle(h, ctx) IN
         /\ Sound(r, IF h.shape = "absent" THEN {} ELSE {B3TraceID(h.trace)}, NoFields)
         /\ LongIds(r) /\ r.ctx \in B3Ctx
<1> DEFINE ids == h.shape \in {"ids", "idsSampling", "idsParent"}
           sampling == IF h.shape = "ids" THEN "" ELSE h.sampling
           found == [debug |-> ctx.debug \/ sampling = "d",
                     deferred |-> ctx.deferred \/ sampling = ""]
           t == IF ids THEN B3TraceID(h.trace) ELSE NoId
           s == IF ids THEN h.span ELSE NoId
           bit == sampling \in {"1", "d"}
           p == [Empty EXCEPT !.trace = t, !.parent = s, !.sampled = bit]
           r == ExtractSingle(h, ctx)
           refused == In(ctx, Refused)
           read == In(found, Read(p))
<1>1. ctx.debug \in BOOLEAN /\ ctx.deferred \in BOOLEAN
  BY DEF B3Ctx
<1>2. found \in B3Ctx /\ bit \in BOOLEAN
  BY <1>1 DEF B3Ctx
<1>3. r = refused \/ (r = read /\ h.shape # "absent"
        /\ (ids => B3TraceID(h.trace) \in Hex32 /\ h.span \in Hex16))
  BY DEF ExtractSingle
<1>4. CASE r = refused
  <2>1. r.prop = Refused.prop /\ r.err = Refused.err /\ r.ctx = ctx
    BY <1>4 DEF In
  <2> QED
    BY <2>1, RefusedSound DEF Sound, LongIds
<1>5. CASE r = read /\ h.shape # "absent"
           /\ (ids => B3TraceID(h.trace) \in Hex32 /\ h.span \in Hex16)
  <2>1. t \in Hex32 \cup {NoId} /\ s \in Hex16 \cup {NoId} /\ (s # NoId => t # NoId)
        /\ t \in {B3TraceID(h.trace), NoId}
    BY <1>5, IdAssumption
  <2> HIDE DEF t, s, bit
  <2>2. /\ p \in Context /\ p.trace = t /\ p.parent = s /\ p.fields = NoFields
        /\ p.state = <<>>
    BY <1>2, <2>1, EmptyContext DEF Empty, Context, Id
  <2> HIDE DEF p, found
  <2>3. r.prop = p /\ r.err = FALSE /\ r.ctx = found
    BY <1>5 DEF In, Read
  <2> HIDE DEF r
  <2> QED
    BY <1>2, <1>5, <2>1, <2>2, <2>3, NoStateConforms, IdAssumption
    DEF Sound, LongIds, hasParentID, r
<1> QED
  BY <1>3, <1>4, <1>5

LEMMA MultipleSound ==
  ASSUME NEW h \in B3MultipleHeader, NEW ctx \in B3Ctx
  PROVE  LET r == ExtractMultiple(h, ctx) IN
         /\ Sound(r, {B3TraceID(h.trace)}, NoFields)
         /\ LongIds(r) /\ r.ctx \in B3Ctx
<1> DEFINE debug == h.flags = "1"
           found == [debug |-> ctx.debug \/ debug,
                     deferred |-> (ctx.deferred \/ h.sampled = "") /\ ~debug]
           t == B3TraceID(h.trace)
           bit == h.sampled = "1" \/ debug
           p == [Empty EXCEPT !.trace = t, !.parent = h.span, !.sampled = bit]
           r == ExtractMultiple(h, ctx)
<1>1. ctx.debug \in BOOLEAN /\ ctx.deferred \in BOOLEAN
  BY DEF B3Ctx
<1>2. found \in B3Ctx /\ bit \in BOOLEAN
  BY <1>1 DEF B3Ctx
<1>3. h.trace \in Id /\ h.span \in Id
  BY DEF B3MultipleHeader
<1>4. r \in {In(ctx, Refused), In(found, Refused)} \/
      (/\ r = In(found, Read(p))
       /\ (h.trace = NoId /\ h.span = NoId) \/ (t \in Hex32 /\ h.span \in Hex16))
  <2> DEFINE bad == h.sampled \notin {"", "0", "1"}
             noIds == h.trace = NoId /\ h.span = NoId /\ h.parent = NoId
             goodIds == /\ t \in Hex32 /\ h.span \in Hex16
                        /\ h.parent \in Hex16 \cup {NoId}
  <2>1. r = IF bad THEN In(ctx, Refused)
            ELSE IF ~noIds /\ ~goodIds THEN In(found, Refused)
            ELSE In(found, Read(p))
    BY DEF ExtractMultiple
  <2> HIDE DEF r, found, p, t, bad
  <2> QED
    BY <2>1
<1> HIDE DEF found, bit, debug
<1>5. CASE r \in {In(ctx, Refused), In(found, Refused)}
  <2>1. r.prop = Refused.prop /\ r.err = Refused.err /\ r.ctx \in B3Ctx
    BY <1>2, <1>5 DEF In
  <2> QED
    BY <2>1, RefusedSound DEF Sound, LongIds
<1>6. CASE /\ r = In(found, Read(p))
           /\ (h.trace = NoId /\ h.span = NoId) \/ (t \in Hex32 /\ h.span \in Hex16)
  <2>1. t \in Hex32 \cup {NoId} /\ h.span \in Hex16 \cup {NoId} /\ (h.span # NoId => t # NoId)
    BY <1>3, <1>6, B3Id, IdAssumption
  <2> HIDE DEF t
  <2>2. /\ p \in Context /\ p.trace = t /\ p.parent = h.span /\ p.fields = NoFields
        /\ p.state = <<>>
    BY <1>2, <2>1, EmptyContext DEF Empty, Context, Id
  <2> HIDE DEF p
  <2>3. r.prop = p /\ r.err = FALSE /\ r.ctx = found
    BY <1>6 DEF In, Read
  <2> HIDE DEF r
  <2> QED
    BY <1>2, <2>1, <2>2, <2>3, NoStateConforms, IdAssumption
    DEF Sound, LongIds, hasParentID, r, t
<1> HIDE DEF t, p
<1> QED
  BY <1>4, <1>5, <1>6

LEMMA B3Sound ==
  ASSUME NEW one \in B3SingleHeader, NEW many \in B3MultipleHeader, NEW ctx \in B3Ctx
  PROVE  LET r == UnmarshalB3(one, many, ctx)
             ids == (IF one.shape = "absent" THEN {} ELSE {B3TraceID(one.trace)})
                      \cup {B3TraceID(many.trace)} IN
         Sound(r, ids, NoFields) /\ LongIds(r) /\ r.ctx \in B3Ctx
<1> DEFINE r == UnmarshalB3(one, many, ctx)
           s == ExtractSingle(one, ctx)
           m == ExtractMultiple(many, ctx)
<1>1. r \in {s, m, In(m.ctx, Refused)}
  BY DEF UnmarshalB3
<1>2. /\ Sound(s, IF one.shape = "absent" THEN {} ELSE {B3TraceID(one.trace)}, NoFields)
      /\ LongIds(s) /\ s.ctx \in B3Ctx
  BY SingleSound
<1>3. Sound(m, {B3TraceID(many.trace)}, NoFields) /\ LongIds(m) /\ m.ctx \in B3Ctx
  BY MultipleSound
<1> HIDE DEF r, s, m
<1>4. CASE r = s
  BY <1>2, <1>4 DEF Sound, LongIds, r
<1>5. CASE r = m
  BY <1>3, <1>5 DEF Sound, LongIds, r
<1>6. CASE r = In(m.ctx, Refused)
  <2>1. r.prop = Refused.prop /\ r.err = Refused.err /\ r.ctx = m.ctx
    BY <1>6 DEF In
  <2> QED
    BY <2>1, <1>3, RefusedSound DEF Sound, LongIds, r
<1> QED
  BY <1>1, <1>4, <1>5, <1>6

LEMMA AmazonSound ==
  ASSUME NEW h \in AmazonHeader
  PROVE  Sound(UnmarshalAmazon(h), {h.root}, h.fields)
<1> DEFINE parent == IF AmazonParent(h) = NoId THEN h.root ELSE AmazonParent(h)
           p == [Empty EXCEPT !.trace = h.root, !.parent = parent, !.fields = h.fields]
<1>1. h.root \in Id /\ parent \in Id /\ h.fields \in Fields
  BY DEF AmazonHeader, AmazonParent
<1>2. UnmarshalAmazon(h) = IF IsValid(p) THEN Read(p) ELSE Refused
  BY DEF UnmarshalAmazon
<1> HIDE DEF parent
<1>3. /\ p \in Context /\ p.trace = h.root /\ p.parent = parent
      /\ p.fields = h.fields /\ p.state = <<>>
  BY <1>1, EmptyContext DEF Empty, Context
<1> HIDE DEF p
<1>4. CASE IsValid(p)
  BY <1>2, <1>3, <1>4, NoStateConforms DEF Read, Sound, IsValid, hasTraceID
<1>5. CASE ~IsValid(p)
  BY <1>2, <1>5, RefusedSound
<1> QED
  BY <1>4, <1>5

LEMMA B3IsIn ==
  ASSUME NEW one, NEW many, NEW ctx
  PROVE  LET r == UnmarshalB3(one, many, ctx) IN r = In(r.ctx, r)
BY DEF UnmarshalB3, ExtractSingle, ExtractMultiple, In

-------------------------------------------------------------------------------
(* The four formats together.                                              *)

Node == [prop: Context, err: BOOLEAN, ctx: B3Ctx]

\* The trace IDs that may be read from a header.
IdsIn(w) ==
  CASE w.format = "honeycomb" -> {w.header.trace}
    [] w.format = "w3c" ->
         IF w.header.traceparent.wellFormed THEN {w.header.traceparent.trace} ELSE {}
    [] w.format = "b3" ->
         (IF w.header.single.shape = "absent" THEN {}
          ELSE {B3TraceID(w.header.single.trace)}) \cup {B3TraceID(w.header.multiple.trace)}
    [] w.format = "amazon" -> {w.header.root}

LEMMA HeaderCases ==
  ASSUME NEW w \in Header
  PROVE  \/ w.format = "honeycomb" /\ w.header \in HoneycombHeader
         \/ /\ w.format = "w3c" /\ w.header.traceparent \in TraceparentHeader
            /\ w.header.tracestate \in Seq(Entry)
         \/ /\ w.format = "b3" /\ w.header.single \in B3SingleHeader
            /\ w.header.multiple \in B3MultipleHeader
         \/ w.format = "amazon" /\ w.header \in AmazonHeader
BY DEF Header

LEMMA BackgroundTyped == Background \in B3Ctx
BY DEF Background, B3Ctx

\* A context read has nothing but what the header has (the unmarshal functions).
LEMMA Received ==
  ASSUME NEW w \in Header, NEW keeps \in BOOLEAN
  PROVE  LET n == Unmarshal(w, keeps) IN
         /\ n \in Node
         /\ Sound(n, IdsIn(w), FieldsIn(w))
         /\ w.format \in {"w3c", "b3"} => LongIds(n)
<1> DEFINE n == Unmarshal(w, keeps)
           h == w.header
<1>1. CASE w.format = "honeycomb" /\ h \in HoneycombHeader
  <2> DEFINE r == UnmarshalHoneycomb(h, keeps)
  <2>1. n = In(Background, r) /\ IdsIn(w) = {h.trace} /\ FieldsIn(w) = h.context.fields
    BY <1>1 DEF Unmarshal, IdsIn, FieldsIn
  <2>2. Sound(r, {h.trace}, h.context.fields)
    BY <1>1, HoneycombSound
  <2> HIDE DEF r, n
  <2> QED
    BY <1>1, <2>1, <2>2, BackgroundTyped DEF Sound, In, Node, n
<1>2. CASE w.format = "w3c" /\ h.traceparent \in TraceparentHeader
  <2> DEFINE r == UnmarshalW3C(h.traceparent, h.tracestate)
             ids == IF h.traceparent.wellFormed THEN {h.traceparent.trace} ELSE {}
  <2>1. n = In(Background, r) /\ IdsIn(w) = ids /\ FieldsIn(w) = NoFields
    BY <1>2 DEF Unmarshal, IdsIn, FieldsIn
  <2>2. Sound(r, ids, NoFields) /\ LongIds(r)
    BY <1>2, W3CSound
  <2> HIDE DEF r, n, ids
  <2> QED
    BY <1>2, <2>1, <2>2, BackgroundTyped DEF Sound, LongIds, In, Node, n
<1>3. CASE w.format = "b3" /\ h.single \in B3SingleHeader /\ h.multiple \in B3MultipleHeader
  <2> DEFINE r == UnmarshalB3(h.single, h.multiple, Background)
             ids == (IF h.single.shape = "absent" THEN {}
                     ELSE {B3TraceID(h.single.trace)}) \cup {B3TraceID(h.multiple.trace)}
  <2>1. n = r /\ IdsIn(w) = ids /\ FieldsIn(w) = NoFields
    BY <1>3 DEF Unmarshal, IdsIn, FieldsIn
  <2>2. Sound(r, ids, NoFields) /\ LongIds(r) /\ r.ctx \in B3Ctx
    BY <1>3, B3Sound, BackgroundTyped
  <2>3. r = In(r.ctx, r)
    BY B3IsIn
  <2> HIDE DEF r, n, ids
  <2> QED
    BY <1>3, <2>1, <2>2, <2>3 DEF Sound, LongIds, In, Node, n
<1>4. CASE w.format = "amazon" /\ h \in AmazonHeader
  <2> DEFINE r == UnmarshalAmazon(h)
  <2>1. n = In(Background, r) /\ IdsIn(w) = {h.root} /\ FieldsIn(w) = h.fields
    BY <1>4 DEF Unmarshal, IdsIn, FieldsIn
  <2>2. Sound(r, {h.root}, h.fields)
    BY <1>4, AmazonSound
  <2> HIDE DEF r, n
  <2> QED
    BY <1>4, <2>1, <2>2, BackgroundTyped DEF Sound, In, Node, n
<1> QED
  BY <1>1, <1>2, <1>3, <1>4, HeaderCases

\* What the fields of a context become in a header.
Carried(f, g, format) ==
  \/ g = NoFields
  \/ /\ \A k \in FieldName : g[k] \in {"none", f[k], JSON(f[k])} \cup
          (IF format = "amazon" THEN {Text(f[k])} ELSE {})
     /\ format # "amazon" => \A k \in FieldName : g[k] = "none" <=> f[k] = "none"

LEMMA HoneycombFields ==
  ASSUME NEW f \in Fields
  PROVE  LET c == HoneycombContext(f) IN
         /\ c \in [decodes: BOOLEAN, fields: Fields]
         /\ Carried(f, c.fields, "honeycomb")
<1> DEFINE g == [k \in FieldName |-> JSON(f[k])]
           c == HoneycombContext(f)
<1>1. g \in Fields /\ NoFields \in Fields
  BY DEF Fields, NoFields, Kind, JSON
<1>2. c.decodes = TRUE /\ c.fields \in {g, NoFields}
      /\ c = [decodes |-> c.decodes, fields |-> c.fields]
  BY DEF HoneycombContext
<1>3. Carried(f, g, "honeycomb") /\ Carried(f, NoFields, "honeycomb")
  BY DEF Carried, JSON
<1> HIDE DEF c, g
<1> QED
  BY <1>1, <1>2, <1>3 DEF c

\* The context has a field with the name given.
HasField(p, name) == name \in FieldName /\ p.fields[name] # "none"

\* A field with a name of the format stands for what the format has there.
LEMMA AmazonIds ==
  ASSUME NEW p \in Context
  PROVE  LET h == MarshalAmazon(p) IN
         /\ h \in AmazonHeader
         /\ h.root = p.trace \/ HasField(p, "root")
         /\ h.parent = p.parent \/ HasField(p, "parent")
         /\ h.self = NoId \/ HasField(p, "self")
         /\ Carried(p.fields, h.fields, "amazon")
<1> DEFINE h == MarshalAmazon(p)
           g == [k \in FieldName |->
                  IF k \in {"root", "parent", "self"} THEN "none" ELSE Text(p.fields[k])]
           root == UnderName("root", p.fields, p.trace)
           parent == UnderName("parent", p.fields, p.parent)
           self == UnderName("self", p.fields, NoId)
<1>1. p.trace \in Id /\ p.parent \in Id /\ NoId \in Id /\ p.fields \in Fields
  BY DEF Context, Id
<1>2. \A name, id0 : id0 \in Id =>
        /\ UnderName(name, p.fields, id0) \in Id
        /\ UnderName(name, p.fields, id0) = id0 \/ HasField(p, name)
  <2>1. (CHOOSE x \in Other : TRUE) \in Id
    BY OtherAssumption DEF Id
  <2> QED
    BY <2>1 DEF UnderName, HasField
<1>3. g \in Fields
  BY <1>1 DEF Fields, Kind, Text
<1>4. Carried(p.fields, g, "amazon")
  BY DEF Carried
<1>5. /\ root \in Id /\ (root = p.trace \/ HasField(p, "root"))
      /\ parent \in Id /\ (parent = p.parent \/ HasField(p, "parent"))
      /\ self \in Id /\ (self = NoId \/ HasField(p, "self"))
  BY <1>1, <1>2
<1> HIDE DEF g, root, parent, self
<1>6. h = [root |-> root, parent |-> parent, self |-> self, fields |-> g]
  BY DEF MarshalAmazon, g, root, parent, self
<1> HIDE DEF h
<1> QED
  BY <1>3, <1>4, <1>5, <1>6 DEF AmazonHeader, h

LEMMA B3Sent ==
  ASSUME NEW p \in Context, NEW ctx \in B3Ctx
  PROVE  LET h == MarshalB3(p, ctx) IN
         /\ h \in B3MultipleHeader
         /\ B3TraceID(h.trace) \in {p.trace, NoId}
         /\ h.span \in {p.parent, NoId}
<1> DEFINE h == MarshalB3(p, ctx)
           q == B3SamplingHeaders(p, ctx)
           full == [NoB3Multiple EXCEPT !.trace = p.trace, !.span = p.parent,
                                        !.sampled = q.sampled, !.flags = q.flags]
<1>1. p.trace \in Id /\ p.parent \in Id /\ NoId \in Id
  BY DEF Context, Id
<1>2. q.sampled \in Sampling /\ q.flags \in Sampling
  BY DEF B3SamplingHeaders, Sampling
<1>3. NoB3Multiple \in B3MultipleHeader /\ NoB3Multiple.trace = NoId /\ NoB3Multiple.span = NoId
  BY <1>1 DEF NoB3Multiple, B3MultipleHeader, Sampling
<1>4. h = IF p.trace \in Hex32 \cup {Zero32} THEN full ELSE NoB3Multiple
  BY DEF MarshalB3
<1> HIDE DEF q
<1>5. full \in B3MultipleHeader /\ full.trace = p.trace /\ full.span = p.parent
  BY <1>1, <1>2, <1>3 DEF B3MultipleHeader
<1> HIDE DEF full, h
<1>6. CASE p.trace \in Hex32 \cup {Zero32}
  <2>1. p.trace \notin Hex16
    BY <1>6, IdAssumption
  <2> QED
    BY <2>1, <1>1, <1>4, <1>5, <1>6, B3Id DEF h
<1>7. CASE p.trace \notin Hex32 \cup {Zero32}
  BY <1>1, <1>3, <1>4, <1>7, B3Id DEF h
<1> QED
  BY <1>6, <1>7

LEMMA W3CSent ==
  ASSUME NEW p \in Context
  PROVE  LET h == MarshalW3C(p) IN
         /\ h \in TraceparentHeader
         /\ h.wellFormed => /\ h.trace = p.trace /\ h.parent = p.parent
                            /\ h.flags = IF p.sampled THEN 1 ELSE 0
BY DEF MarshalW3C, NoTraceparent, TraceparentHeader

LEMMA HoneycombSent ==
  ASSUME NEW p \in Context, NEW keeps \in BOOLEAN
  PROVE  LET h == MarshalHoneycomb(p, keeps) IN
         /\ h \in HoneycombHeader
         /\ h.trace = p.trace /\ h.parent = p.parent
         /\ Carried(p.fields, h.context.fields, "honeycomb")
<1> DEFINE c == HoneycombContext(p.fields)
<1>1. /\ p.trace \in Id /\ p.parent \in Id /\ p.fields \in Fields
      /\ p.dataset \in Dataset \cup {NoDataset}
  BY DEF Context
<1>2. c \in [decodes: BOOLEAN, fields: Fields] /\ Carried(p.fields, c.fields, "honeycomb")
  BY <1>1, HoneycombFields
<1> HIDE DEF c
<1> QED
  BY <1>1, <1>2 DEF MarshalHoneycomb, HoneycombHeader, c

\* A header has nothing but what the context has (the marshal functions).
LEMMA Sent ==
  ASSUME NEW n \in Node, NEW format \in Format, NEW keeps \in BOOLEAN
  PROVE  LET w == Marshal(format, n, keeps) IN
         /\ w \in Header /\ w.format = format
         /\ \/ IdsIn(w) \subseteq {n.prop.trace, NoId}
            \/ format = "amazon" /\ HasField(n.prop, "root")
         /\ Carried(n.prop.fields, FieldsIn(w), format)
<1> DEFINE w == Marshal(format, n, keeps)
           p == n.prop
<1>1. p \in Context /\ n.ctx \in B3Ctx /\ p.state \in Seq(Entry)
  <2>1. p \in Context /\ n.ctx \in B3Ctx
    BY DEF Node
  <2>2. p.state \in Seq(Member) /\ Member \subseteq Entry
    BY <2>1 DEF Context, Entry
  <2> QED
    BY <2>1, <2>2
<1>2. CASE format = "honeycomb"
  <2> DEFINE h == MarshalHoneycomb(p, keeps)
  <2>1. w = [format |-> "honeycomb", header |-> h]
    BY <1>2 DEF Marshal, Honeycomb
  <2>2. /\ h \in HoneycombHeader /\ h.trace = p.trace
        /\ Carried(p.fields, h.context.fields, "honeycomb")
    BY <1>1, HoneycombSent
  <2> HIDE DEF h, w, p
  <2>3. w \in Header /\ IdsIn(w) = {h.trace} /\ FieldsIn(w) = h.context.fields
    BY <2>1, <2>2 DEF Header, IdsIn, FieldsIn
  <2> QED
    BY <1>2, <2>1, <2>2, <2>3 DEF w, p
<1>3. CASE format = "w3c"
  <2> DEFINE h == MarshalW3C(p)
  <2>1. w = [format |-> "w3c", header |-> [traceparent |-> h, tracestate |-> p.state]]
    BY <1>3 DEF Marshal, W3C
  <2>2. h \in TraceparentHeader /\ (h.wellFormed => h.trace = p.trace)
    BY <1>1, W3CSent
  <2> HIDE DEF h, w, p
  <2>3. /\ w \in Header /\ FieldsIn(w) = NoFields
        /\ IdsIn(w) = IF h.wellFormed THEN {h.trace} ELSE {}
    BY <1>1, <2>1, <2>2 DEF Header, IdsIn, FieldsIn
  <2> QED
    BY <1>3, <2>1, <2>2, <2>3 DEF w, p, Carried
<1>4. CASE format = "b3"
  <2> DEFINE h == MarshalB3(p, n.ctx)
  <2>1. w = [format |-> "b3", header |-> [single |-> NoB3Single, multiple |-> h]]
    BY <1>4 DEF Marshal, B3
  <2>2. h \in B3MultipleHeader /\ B3TraceID(h.trace) \in {p.trace, NoId}
    BY <1>1, B3Sent
  <2>3. NoB3Single \in B3SingleHeader /\ NoB3Single.shape = "absent"
    BY DEF NoB3Single, B3SingleHeader, B3Shape, Sampling, Id
  <2> HIDE DEF h, w, p
  <2>4. w \in Header /\ IdsIn(w) = {B3TraceID(h.trace)} /\ FieldsIn(w) = NoFields
    BY <2>1, <2>2, <2>3 DEF Header, IdsIn, FieldsIn
  <2> QED
    BY <1>4, <2>1, <2>2, <2>4 DEF w, p, Carried
<1>5. CASE format = "amazon"
  <2> DEFINE h == MarshalAmazon(p)
  <2>1. w = [format |-> "amazon", header |-> h]
    BY <1>5 DEF Marshal, Amazon
  <2>2. /\ h \in AmazonHeader /\ (h.root = p.trace \/ HasField(p, "root"))
        /\ Carried(p.fields, h.fields, "amazon")
    BY <1>1, AmazonIds
  <2> HIDE DEF h, w, p
  <2>3. w \in Header /\ IdsIn(w) = {h.root} /\ FieldsIn(w) = h.fields
    BY <2>1, <2>2 DEF Header, IdsIn, FieldsIn
  <2> QED
    BY <1>5, <2>1, <2>2, <2>3 DEF w, p
<1> QED
  BY <1>2, <1>3, <1>4, <1>5 DEF Format

-------------------------------------------------------------------------------
(* From one process to the next.                                           *)

\* The parent that r has after n was sent, unless a load balancer was between.
ParentFrom(r, n, format) ==
  \/ r.prop.parent \in {n.prop.parent, NoId}
  \/ n.prop.parent = NoId /\ r.prop.parent = r.prop.trace
  \/ format = "amazon" /\ (HasField(n.prop, "parent") \/ HasField(n.prop, "self"))

LEMMA AmazonParents ==
  ASSUME NEW h \in AmazonHeader
  PROVE  LET r == UnmarshalAmazon(h) IN
         \/ r.prop.parent = NoId
         \/ r.prop.parent = h.self
         \/ h.self = NoId /\ r.prop.parent = h.parent
         \/ h.self = NoId /\ h.parent = NoId /\ r.prop.parent = r.prop.trace
<1> DEFINE parent == IF AmazonParent(h) = NoId THEN h.root ELSE AmazonParent(h)
           p == [Empty EXCEPT !.trace = h.root, !.parent = parent, !.fields = h.fields]
<1>1. UnmarshalAmazon(h) = IF IsValid(p) THEN Read(p) ELSE Refused
  BY DEF UnmarshalAmazon
<1>2. \/ parent = h.self
      \/ h.self = NoId /\ parent = h.parent
      \/ h.self = NoId /\ h.parent = NoId /\ parent = h.root
  BY DEF AmazonParent
<1> HIDE DEF parent
<1>3. p.trace = h.root /\ p.parent = parent
  BY DEF Empty
<1> HIDE DEF p
<1> QED
  BY <1>1, <1>2, <1>3, EmptyContext DEF Read, Refused, Partial

\* The single header is not there, so the other ones are read.
LEMMA B3Relayed ==
  ASSUME NEW p \in Context, NEW ctx \in B3Ctx
  PROVE  LET r == UnmarshalB3(NoB3Single, MarshalB3(p, ctx), Background) IN
         /\ r.prop.parent \in {p.parent, NoId}
         /\ ~r.err => /\ r.ctx.debug = ctx.debug
                      /\ ~ctx.debug => r.ctx.deferred = ctx.deferred
                      /\ ~ctx.debug /\ ~ctx.deferred => r.prop.sampled = p.sampled
<1> DEFINE h == MarshalB3(p, ctx)
           q == B3SamplingHeaders(p, ctx)
           debug == h.flags = "1"
           found == [debug |-> Background.debug \/ debug,
                     deferred |-> (Background.deferred \/ h.sampled = "") /\ ~debug]
           bit == h.sampled = "1" \/ debug
           c == [Empty EXCEPT !.trace = B3TraceID(h.trace), !.parent = h.span,
                              !.sampled = bit]
           m == ExtractMultiple(h, Background)
           r == UnmarshalB3(NoB3Single, h, Background)
<1>1. ctx.debug \in BOOLEAN /\ ctx.deferred \in BOOLEAN /\ p.sampled \in BOOLEAN
  BY DEF B3Ctx, Context
<1>2. ExtractSingle(NoB3Single, Background).err = TRUE
  BY DEF ExtractSingle, NoB3Single, In, Refused, Partial
<1>3. r = IF IsValid(m.prop) THEN m ELSE In(m.ctx, Refused)
  BY <1>2 DEF UnmarshalB3
<1>4. m \in {In(Background, Refused), In(found, Refused), In(found, Read(c))}
  BY DEF ExtractMultiple
<1>5. /\ h.span \in {p.parent, NoId} /\ h.trace \in Id
      /\ h.trace = NoId \/ (h.sampled = q.sampled /\ h.flags = q.flags)
  BY B3Sent, IdAssumption DEF MarshalB3, NoB3Multiple, B3MultipleHeader
<1>6. c.trace = B3TraceID(h.trace) /\ c.parent = h.span /\ c.sampled = bit
  BY DEF Empty
<1>7. Refused.err = TRUE /\ Refused.prop = Empty /\ ~IsValid(Empty)
  BY EmptyContext DEF Refused, Partial, IsValid, hasTraceID
<1>8. /\ found.debug = debug
      /\ found.deferred = (h.sampled = "" /\ ~debug)
  BY DEF Background
<1>9. /\ ctx.debug => q.flags = "1"
      /\ ~ctx.debug => /\ q.flags = ""
                       /\ q.sampled = IF ctx.deferred THEN "" ELSE IF p.sampled THEN "1" ELSE "0"
  BY DEF B3SamplingHeaders
<1>10. bit = (h.sampled = "1" \/ h.flags = "1") /\ debug = (h.flags = "1")
  OBVIOUS
<1> HIDE DEF r, m, c, found, q, bit, debug, h
<1>11. CASE m \in {In(Background, Refused), In(found, Refused)}
  <2>1. m.prop = Empty
    BY <1>7, <1>11 DEF In
  <2>2. r.prop = Empty /\ r.err = TRUE
    BY <2>1, <1>3, <1>7 DEF In
  <2> QED
    BY <2>2, EmptyContext DEF r, h
<1>12. CASE m = In(found, Read(c)) /\ ~IsValid(m.prop)
  <2>1. r.prop = Empty /\ r.err = TRUE
    BY <1>3, <1>7, <1>12 DEF In
  <2> QED
    BY <2>1, EmptyContext DEF r, h
<1>13. CASE m = In(found, Read(c)) /\ IsValid(m.prop)
  <2>1. r.prop = c /\ r.ctx = found
    BY <1>3, <1>13 DEF In, Read
  <2>2. h.trace # NoId
    BY <1>5, <1>6, <1>13, B3Id DEF In, Read, IsValid, hasTraceID
  <2>3. h.sampled = q.sampled /\ h.flags = q.flags
    BY <1>5, <2>2
  <2>4. r.ctx.debug = ctx.debug
    BY <1>1, <1>8, <1>9, <1>10, <2>1, <2>3
  <2>5. ~ctx.debug => r.ctx.deferred = ctx.deferred
    BY <1>1, <1>8, <1>9, <1>10, <2>1, <2>3
  <2>6. ~ctx.debug /\ ~ctx.deferred => r.prop.sampled = p.sampled
    BY <1>1, <1>6, <1>9, <1>10, <2>1, <2>3
  <2>7. r.prop.parent \in {p.parent, NoId}
    BY <1>5, <1>6, <2>1
  <2> QED
    BY <2>4, <2>5, <2>6, <2>7 DEF r, h
<1> QED
  BY <1>4, <1>11, <1>12, <1>13

LEMMA W3CRelayed ==
  ASSUME NEW p \in Context, NEW state
  PROVE  LET r == UnmarshalW3C(MarshalW3C(p), state) IN
         /\ r.prop.parent \in {p.parent, NoId}
         /\ ~r.err => r.prop.sampled = p.sampled
<1> DEFINE h == MarshalW3C(p)
           part == [Empty EXCEPT !.trace = h.trace]
           ids == [Empty EXCEPT !.trace = h.trace, !.parent = h.parent]
           bit == h.flags % 2 = 1
           list == ParseTraceState(state)
           c == [ids EXCEPT !.sampled = bit, !.state = list]
           r == UnmarshalW3C(h, state)
<1>1. /\ r \in {Refused, Partial(part), Partial(ids), Read(c)}
      /\ r # Refused => h.wellFormed
  BY DEF UnmarshalW3C
<1>2. h.wellFormed => h.parent = p.parent /\ h.flags = IF p.sampled THEN 1 ELSE 0
  BY W3CSent
<1>3. h.wellFormed => bit = p.sampled
  <2>1. p.sampled \in BOOLEAN
    BY DEF Context
  <2> QED
    BY <1>2, <2>1
<1> HIDE DEF h, bit, list
<1>4. part.parent = NoId /\ ids.parent = h.parent /\ c.parent = h.parent /\ c.sampled = bit
  BY DEF Empty
<1> HIDE DEF part, ids, c, r
<1>5. CASE r = Refused
  BY <1>5, EmptyContext DEF Refused, Partial, r, h
<1>6. CASE r = Partial(part)
  BY <1>6, <1>4 DEF Partial, r, h
<1>7. CASE r = Partial(ids) /\ h.wellFormed
  BY <1>7, <1>2, <1>4 DEF Partial, r, h
<1>8. CASE r = Read(c) /\ h.wellFormed
  BY <1>8, <1>2, <1>3, <1>4 DEF Read, r, h
<1> QED
  BY <1>1, <1>5, <1>6, <1>7, <1>8

LEMMA HoneycombParent ==
  ASSUME NEW h, NEW keeps
  PROVE  UnmarshalHoneycomb(h, keeps).prop.parent \in {h.parent, NoId}
BY EmptyContext DEF UnmarshalHoneycomb, Refused, Partial, Read, Empty

-------------------------------------------------------------------------------
(* The invariant.                                                          *)

\* What g keeps of the fields f, that have been in an Amazon header or not.
Kept(g, f, text) ==
  /\ \A k \in FieldName : g[k] \in {"none", f[k], JSON(f[k])} \cup
       (IF text THEN {Text(f[k])} ELSE {})
  /\ ~text /\ g # NoFields => \A k \in FieldName : g[k] = "none" <=> f[k] = "none"

\* A header is as n made it, or a load balancer has been at it.
Of(w, n) ==
  \/ \E keeps \in BOOLEAN : w = Marshal(w.format, n, keeps)
  \/ w.format = "amazon" /\ w.header.self = n.prop.parent /\ n.prop.parent # NoId

Typed ==
  /\ node \in Node /\ Conforms(node.prop.state)
  /\ sender \in Node
  /\ wire \in Header \cup {NoHeader}
  /\ came \in Format \cup {"none", "panic"}
  /\ hops \in Nat
  /\ id \in Id /\ fields \in Fields /\ asText \in BOOLEAN

\* Before the first header there is nothing to be read, and until it has been
\* read nothing has been.
Begun ==
  /\ hops = 0 => wire = NoHeader /\ came = "none" /\ sender = Nothing
  /\ wire # NoHeader /\ sender = Nothing => came = "none"

OnWire ==
  wire # NoHeader =>
    /\ wire.format = "amazon" => asText
    /\ IdsIn(wire) \subseteq {id, NoId} \/ Misnamed("root")
    /\ Kept(FieldsIn(wire), fields, asText)
    /\ sender # Nothing => Of(wire, sender)

SenderFields ==
  \A k \in FieldName : sender.prop.fields[k] # "none" => fields[k] # "none"

IInv ==
  /\ Typed /\ Begun /\ OnWire /\ SenderFields
  /\ ReadsConform /\ OneTrace /\ ParentIsSender /\ SamplingKept /\ FieldsKept

LEMMA FieldsKeptIsKept == FieldsKept <=> Kept(node.prop.fields, fields, asText)
BY DEF FieldsKept, Kept

LEMMA KeptOfNone ==
  ASSUME NEW f, NEW text
  PROVE  Kept(NoFields, f, text)
BY DEF Kept, NoFields

LEMMA KeptCarried ==
  ASSUME NEW f \in Fields, NEW g \in Fields, NEW h \in Fields, NEW text \in BOOLEAN,
         NEW format, Kept(g, f, text), Carried(g, h, format)
  PROVE  Kept(h, f, text \/ format = "amazon")
<1>1. CASE h = NoFields
  BY <1>1, KeptOfNone
<1>2. CASE h # NoFields
  <2>1. ASSUME NEW k \in FieldName
        PROVE  h[k] \in {"none", f[k], JSON(f[k])} \cup
                 (IF text \/ format = "amazon" THEN {Text(f[k])} ELSE {})
    BY <1>2 DEF Kept, Carried, JSON, Text
  <2>2. ASSUME ~text, format # "amazon", NEW k \in FieldName
        PROVE  h[k] = "none" <=> f[k] = "none"
    <3>1. h[k] = "none" <=> g[k] = "none"
      BY <1>2, <2>2 DEF Carried
    <3>2. g # NoFields
      <4> SUFFICES ASSUME g = NoFields PROVE FALSE
        OBVIOUS
      <4>1. \A j \in FieldName : h[j] = "none"
        BY <1>2, <2>2 DEF Carried, NoFields
      <4>2. h = NoFields
        BY <4>1 DEF Fields, NoFields
      <4> QED
        BY <4>2, <1>2
    <3> QED
      BY <3>1, <3>2, <2>2 DEF Kept
  <2> QED
    BY <2>1, <2>2 DEF Kept
<1> QED
  BY <1>1, <1>2

LEMMA FieldsInTyped ==
  ASSUME NEW w \in Header
  PROVE  FieldsIn(w) \in Fields
<1>1. NoFields \in Fields
  BY DEF NoFields, Fields, Kind
<1> QED
  BY <1>1, HeaderCases DEF FieldsIn, HoneycombHeader, AmazonHeader

LEMMA ForeignIds ==
  ASSUME NEW w \in ForeignHeader
  PROVE  IdIn(w) \in Id /\ IdsIn(w) \subseteq {IdIn(w), NoId}
<1> DEFINE h == w.header
<1>1. w \in Header /\ (w.format = "b3" => h.single = NoB3Single \/ h.multiple = NoB3Multiple)
  BY ForeignAssumption
<1>2. CASE w.format = "honeycomb" /\ h \in HoneycombHeader
  BY <1>2 DEF IdIn, IdsIn, HoneycombHeader
<1>3. CASE w.format = "w3c" /\ h.traceparent \in TraceparentHeader
  BY <1>3 DEF IdIn, IdsIn, TraceparentHeader, Id
<1>4. CASE w.format = "b3" /\ h.single \in B3SingleHeader /\ h.multiple \in B3MultipleHeader
  <2> DEFINE a == h.single.trace
             b == h.multiple.trace
  <2>1. a \in Id /\ b \in Id
    BY <1>4 DEF B3SingleHeader, B3MultipleHeader
  <2>2. IdIn(w) = IF a # NoId THEN B3TraceID(a) ELSE B3TraceID(b)
    BY <1>4 DEF IdIn
  <2>3. IdsIn(w) = (IF h.single.shape = "absent" THEN {} ELSE {B3TraceID(a)}) \cup {B3TraceID(b)}
    BY <1>4 DEF IdsIn
  <2>4. /\ h.single = NoB3Single => a = NoId /\ h.single.shape = "absent"
        /\ h.multiple = NoB3Multiple => b = NoId
    <3>1. /\ NoB3Single.trace = NoId /\ NoB3Single.shape = "absent"
          /\ NoB3Multiple.trace = NoId
      BY DEF NoB3Single, NoB3Multiple
    <3> QED
      BY <3>1
  <2>5. /\ B3TraceID(a) \in Id /\ B3TraceID(b) \in Id
        /\ a = NoId => B3TraceID(a) = NoId
        /\ b = NoId => B3TraceID(b) = NoId
    BY <2>1, B3Id
  <2> HIDE DEF a, b
  <2> QED
    BY <1>1, <1>4, <2>2, <2>3, <2>4, <2>5
<1>5. CASE w.format = "amazon" /\ h \in AmazonHeader
  BY <1>5 DEF IdIn, IdsIn, AmazonHeader
<1> QED
  BY <1>1, <1>2, <1>3, <1>4, <1>5, HeaderCases

LEMMA NothingTyped ==
  /\ Nothing \in Node /\ Conforms(Nothing.prop.state)
  /\ Nothing.prop.trace = NoId /\ Nothing.prop.parent = NoId
  /\ Nothing.prop.fields = NoFields
  /\ Nothing.err = FALSE
BY EmptyContext, BackgroundTyped, NoStateConforms DEF Nothing, In, Read, Node

LEMMA ServiceTyped ==
  ASSUME NEW p \in Context, NEW t \in Hex32, NEW s \in Hex16, NEW ds \in Dataset
  PROVE  LET c == ServiceContext(p, t, s, ds) IN
         /\ c \in Context /\ c.trace = IF p.trace = NoId THEN t ELSE p.trace
         /\ c.parent = s /\ c.fields = p.fields /\ c.state = <<>>
<1>1. p.trace \in Id /\ p.fields \in Fields /\ p.dataset \in Dataset \cup {NoDataset}
  BY DEF Context
<1> DEFINE c == ServiceContext(p, t, s, ds)
           trace == IF p.trace = NoId THEN t ELSE p.trace
           dataset == IF p.dataset = NoDataset THEN ds ELSE p.dataset
<1>2. c = [trace |-> trace, parent |-> s, dataset |-> dataset, fields |-> p.fields,
           sampled |-> TRUE, state |-> <<>>]
  <2>1. c = [Empty EXCEPT !.trace = trace, !.parent = s, !.dataset = dataset,
                          !.fields = p.fields, !.sampled = TRUE]
    BY DEF ServiceContext
  <2> HIDE DEF c, trace, dataset
  <2> QED
    BY <2>1 DEF Empty
<1>3. trace \in Id /\ s \in Id /\ dataset \in Dataset \cup {NoDataset}
      /\ <<>> \in Seq(Member)
  BY <1>1 DEF Id
<1> HIDE DEF c
<1>4. c \in Context
  <2> HIDE DEF trace, dataset
  <2> QED
    BY <1>1, <1>2, <1>3 DEF Context
<1> QED
  BY <1>2, <1>4 DEF c

LEMMA InitIInv == Init => IInv
<1> SUFFICES ASSUME Init PROVE IInv
  OBVIOUS
<1>1. Typed
  BY NothingTyped DEF Init, Typed, Id, NoFields, Fields, Kind
<1>2. Begun /\ OnWire
  BY DEF Init, Begun, OnWire
<1>3. SenderFields /\ FieldsKept
  BY NothingTyped, KeptOfNone, FieldsKeptIsKept DEF Init, SenderFields, NoFields
<1>4. ReadsConform /\ OneTrace /\ SamplingKept
  BY NothingTyped DEF Init, ReadsConform, OneTrace, SamplingKept, Node
<1>5. ParentIsSender
  BY NothingTyped DEF Init, ParentIsSender, hasParentID
<1> QED
  BY <1>1, <1>2, <1>3, <1>4, <1>5 DEF IInv

LEMMA BeginStep ==
  ASSUME IInv, NEW t \in Hex32, NEW s \in Hex16, NEW ds \in Dataset, NEW f \in Fields,
         Begin(t, s, ds, f)
  PROVE  IInv'
<1> DEFINE c == ServiceContext(Empty, t, s, ds)
           p == [c EXCEPT !.fields = f]
<1>1. /\ hops = 0 /\ wire = NoHeader /\ node = Nothing
      /\ node' = In(Background, Read(p)) /\ id' = t /\ fields' = f
      /\ UNCHANGED <<wire, hops, sender, came, asText>>
  BY DEF Begin
<1>2. c \in Context /\ c.trace = t /\ c.parent = s /\ c.state = <<>>
  BY ServiceTyped, EmptyContext
<1> HIDE DEF c
<1>3. p \in Context /\ p.trace = t /\ p.parent = s /\ p.fields = f /\ p.state = <<>>
  BY <1>2 DEF Context
<1> HIDE DEF p
<1>4. node'.prop = p /\ node'.err = FALSE /\ node' \in Node
  BY <1>1, <1>3, BackgroundTyped DEF In, Read, Node
<1>5. Typed /\ sender = Nothing /\ came = "none"
  BY <1>1 DEF IInv, Begun
<1>6. Typed'
  BY <1>1, <1>3, <1>4, <1>5, NoStateConforms DEF Typed, Id
<1>7. Begun' /\ OnWire'
  BY <1>1, <1>5 DEF Begun, OnWire
<1>8. SenderFields'
  BY <1>1, <1>5, NothingTyped DEF SenderFields, NoFields
<1>9. FieldsKept'
  BY <1>1, <1>3, <1>4 DEF FieldsKept
<1>10. ReadsConform' /\ OneTrace'
  BY <1>1, <1>3, <1>4, <1>5, NoStateConforms DEF ReadsConform, OneTrace
<1>11. ParentIsSender'
  BY <1>1, <1>3, <1>4, <1>5, IdAssumption DEF ParentIsSender, hasParentID
<1>12. SamplingKept'
  BY <1>1, <1>5 DEF SamplingKept
<1> QED
  BY <1>6, <1>7, <1>8, <1>9, <1>10, <1>11, <1>12 DEF IInv

LEMMA ForeignStep ==
  ASSUME IInv, NEW w \in ForeignHeader, Foreign(w)
  PROVE  IInv'
<1>1. /\ hops = 0 /\ wire = NoHeader /\ node = Nothing
      /\ wire' = w /\ hops' = 1 /\ id' = IdIn(w) /\ fields' = FieldsIn(w)
      /\ asText' = (w.format = "amazon")
      /\ UNCHANGED <<node, sender, came>>
  BY DEF Foreign
<1>2. w \in Header /\ w # NoHeader
  BY ForeignAssumption, NoHeaderAssumption
<1>3. Typed /\ sender = Nothing /\ came = "none"
  BY <1>1 DEF IInv, Begun
<1>4. IdIn(w) \in Id /\ IdsIn(w) \subseteq {IdIn(w), NoId} /\ FieldsIn(w) \in Fields
  BY <1>2, ForeignIds, FieldsInTyped
<1>5. Typed'
  BY <1>1, <1>2, <1>3, <1>4 DEF Typed
<1>6. Begun'
  BY <1>1, <1>3 DEF Begun
<1>7. OnWire'
  BY <1>1, <1>3, <1>4 DEF OnWire, Kept
<1>8. SenderFields' /\ FieldsKept'
  <2>1. node.prop.fields = NoFields
    BY <1>1, NothingTyped
  <2> QED
    BY <2>1, <1>1, <1>3, NothingTyped DEF SenderFields, FieldsKept, NoFields
<1>9. ReadsConform' /\ OneTrace'
  BY <1>1, <1>3, NothingTyped DEF ReadsConform, OneTrace, Node
<1>10. ParentIsSender' /\ SamplingKept'
  BY <1>1, <1>3, NothingTyped DEF ParentIsSender, hasParentID, SamplingKept
<1> QED
  BY <1>5, <1>6, <1>7, <1>8, <1>9, <1>10 DEF IInv

LEMMA SendStep ==
  ASSUME IInv, NEW format \in Format, NEW keeps \in BOOLEAN, Send(format, keeps)
  PROVE  IInv'
<1> DEFINE w == Marshal(format, node, keeps)
<1>1. /\ wire = NoHeader /\ node # Nothing /\ ~node.err
      /\ hops' = hops + 1 /\ wire' = w /\ sender' = node
      /\ asText' = (asText \/ format = "amazon")
      /\ UNCHANGED <<node, came, id, fields>>
  BY DEF Send
<1>2. Typed /\ OneTrace /\ FieldsKept /\ ReadsConform /\ ParentIsSender
  BY DEF IInv
<1>3. /\ w \in Header /\ w.format = format /\ w # NoHeader
      /\ \/ IdsIn(w) \subseteq {node.prop.trace, NoId}
         \/ format = "amazon" /\ HasField(node.prop, "root")
      /\ Carried(node.prop.fields, FieldsIn(w), format)
  BY <1>2, Sent, NoHeaderAssumption DEF Typed
<1>4. Of(w, node)
  BY <1>3 DEF Of
<1>5. FieldsIn(w) \in Fields
  BY <1>3, FieldsInTyped
<1> HIDE DEF w
<1>6. Typed'
  BY <1>1, <1>2, <1>3 DEF Typed
<1>7. Begun'
  BY <1>1, <1>2 DEF Begun, Typed
<1>8. Kept(FieldsIn(w), fields, asText \/ format = "amazon")
  <2>1. Kept(node.prop.fields, fields, asText) /\ node.prop.fields \in Fields
        /\ fields \in Fields /\ asText \in BOOLEAN
    BY <1>2, FieldsKeptIsKept DEF Typed, Node, Context
  <2> QED
    BY <2>1, <1>3, <1>5, KeptCarried
<1>9. OnWire'
  <2>1. format = "amazon" /\ HasField(node.prop, "root") => Misnamed("root")'
    <3>1. \A k \in FieldName : node.prop.fields[k] # "none" => fields[k] # "none"
      BY <1>2 DEF FieldsKept, JSON, Text
    <3> QED
      BY <3>1, <1>1 DEF HasField, Misnamed
  <2>2. Misnamed("root") => Misnamed("root")'
    BY <1>1 DEF Misnamed
  <2> QED
    BY <2>1, <2>2, <1>1, <1>2, <1>3, <1>4, <1>8 DEF OnWire, OneTrace
<1>10. SenderFields'
  BY <1>1, <1>2 DEF SenderFields, FieldsKept, JSON, Text
<1>11. FieldsKept'
  BY <1>1, <1>2 DEF FieldsKept
<1>12. ReadsConform' /\ OneTrace'
  BY <1>1, <1>2 DEF ReadsConform, OneTrace, Misnamed
<1>13. ParentIsSender'
  BY <1>1, <1>2, <1>3 DEF ParentIsSender
<1>14. SamplingKept'
  BY <1>1 DEF SamplingKept, Decision
<1> QED
  BY <1>6, <1>7, <1>9, <1>10, <1>11, <1>12, <1>13, <1>14 DEF IInv

LEMMA ReceivedDecision ==
  ASSUME NEW n \in Node, NEW k0 \in BOOLEAN, NEW keeps \in BOOLEAN, NEW format \in Format
  PROVE  LET r == Unmarshal(Marshal(format, n, k0), keeps) IN
         /\ format = "b3" /\ ~r.err => Decision(r) = Decision(n)
         /\ format = "w3c" /\ ~r.err => r.prop.sampled = n.prop.sampled
         /\ ParentFrom(r, n, format)
<1> DEFINE p == n.prop
           w == Marshal(format, n, k0)
           r == Unmarshal(w, keeps)
<1>1. p \in Context /\ n.ctx \in B3Ctx
  BY DEF Node
<1>2. CASE format = "honeycomb"
  <2>1. r.prop = UnmarshalHoneycomb(MarshalHoneycomb(p, k0), keeps).prop
    BY <1>2 DEF Marshal, Honeycomb, Unmarshal, In
  <2>2. MarshalHoneycomb(p, k0).parent = p.parent
    BY DEF MarshalHoneycomb
  <2> HIDE DEF r
  <2>3. r.prop.parent \in {p.parent, NoId}
    BY <2>1, <2>2, HoneycombParent
  <2> QED
    BY <2>3, <1>2 DEF r, ParentFrom
<1>3. CASE format = "w3c"
  <2> DEFINE u == UnmarshalW3C(MarshalW3C(p), p.state)
  <2>1. r.prop = u.prop /\ r.err = u.err
    BY <1>3 DEF Marshal, W3C, Unmarshal, In
  <2>2. u.prop.parent \in {p.parent, NoId} /\ (~u.err => u.prop.sampled = p.sampled)
    BY <1>1, W3CRelayed
  <2> HIDE DEF u, r
  <2> QED
    BY <2>1, <2>2, <1>3 DEF r, ParentFrom
<1>4. CASE format = "b3"
  <2>1. r = UnmarshalB3(NoB3Single, MarshalB3(p, n.ctx), Background)
    BY <1>4 DEF Marshal, B3, Unmarshal
  <2>2. /\ r.prop.parent \in {p.parent, NoId}
        /\ ~r.err => /\ r.ctx.debug = n.ctx.debug
                     /\ ~n.ctx.debug => r.ctx.deferred = n.ctx.deferred
                     /\ ~n.ctx.debug /\ ~n.ctx.deferred => r.prop.sampled = p.sampled
    BY <2>1, <1>1, B3Relayed
  <2> HIDE DEF r
  <2> QED
    BY <2>2, <1>4 DEF r, ParentFrom, Decision
<1>5. CASE format = "amazon"
  <2> DEFINE h == MarshalAmazon(p)
             u == UnmarshalAmazon(h)
  <2>1. r.prop = u.prop
    BY <1>5 DEF Marshal, Amazon, Unmarshal, In
  <2>2. /\ h \in AmazonHeader /\ (h.parent = p.parent \/ HasField(p, "parent"))
        /\ h.self = NoId \/ HasField(p, "self")
    BY <1>1, AmazonIds
  <2>3. \/ u.prop.parent = NoId
        \/ u.prop.parent = h.self
        \/ h.self = NoId /\ u.prop.parent = h.parent
        \/ h.self = NoId /\ h.parent = NoId /\ u.prop.parent = u.prop.trace
    BY <2>2, AmazonParents
  <2> HIDE DEF u, h, r
  <2> QED
    BY <2>1, <2>2, <2>3, <1>5 DEF r, ParentFrom
<1> QED
  BY <1>2, <1>3, <1>4, <1>5 DEF Format

LEMMA BalancedParent ==
  ASSUME NEW w \in Header, w.format = "amazon", w.header.self # NoId, NEW keeps \in BOOLEAN
  PROVE  Unmarshal(w, keeps).prop.parent \in {w.header.self, NoId}
<1>1. w.header \in AmazonHeader
  BY HeaderCases
<1>2. Unmarshal(w, keeps).prop = UnmarshalAmazon(w.header).prop
  BY DEF Unmarshal, In
<1> QED
  BY <1>1, <1>2, AmazonParents

LEMMA ReceiveStep ==
  ASSUME IInv, NEW keeps \in BOOLEAN, Receive(keeps)
  PROVE  IInv'
<1> DEFINE n == Unmarshal(wire, keeps)
<1>1. /\ wire # NoHeader /\ node' = n /\ wire' = NoHeader /\ came' = wire.format
      /\ UNCHANGED <<hops, sender, id, fields, asText>>
  BY DEF Receive
<1>2. Typed /\ Begun /\ OnWire /\ SenderFields
  BY DEF IInv
<1>3. wire \in Header
  BY <1>1, <1>2 DEF Typed
<1>4. wire.format \in Format
  BY <1>3, HeaderCases DEF Format
<1>5. /\ n \in Node /\ Sound(n, IdsIn(wire), FieldsIn(wire))
      /\ wire.format \in {"w3c", "b3"} => LongIds(n)
  BY <1>3, Received
<1>6. sender # Nothing =>
        /\ wire.format = "b3" /\ ~n.err => Decision(n) = Decision(sender)
        /\ wire.format = "w3c" /\ ~n.err => n.prop.sampled = sender.prop.sampled
        /\ ParentFrom(n, sender, wire.format)
  <2> SUFFICES ASSUME sender # Nothing
               PROVE  /\ wire.format = "b3" /\ ~n.err => Decision(n) = Decision(sender)
                      /\ wire.format = "w3c" /\ ~n.err => n.prop.sampled = sender.prop.sampled
                      /\ ParentFrom(n, sender, wire.format)
    OBVIOUS
  <2>1. sender \in Node /\ Of(wire, sender)
    BY <1>1, <1>2 DEF Typed, OnWire
  <2>2. CASE \E k \in BOOLEAN : wire = Marshal(wire.format, sender, k)
    <3>1. PICK k \in BOOLEAN : wire = Marshal(wire.format, sender, k)
      BY <2>2
    <3> DEFINE r == Unmarshal(Marshal(wire.format, sender, k), keeps)
    <3>2. r = n
      BY <3>1
    <3>3. /\ wire.format = "b3" /\ ~r.err => Decision(r) = Decision(sender)
          /\ wire.format = "w3c" /\ ~r.err => r.prop.sampled = sender.prop.sampled
          /\ ParentFrom(r, sender, wire.format)
      BY <2>1, <1>4, ReceivedDecision
    <3> HIDE DEF r, n
    <3> QED
      BY <3>2, <3>3
  <2>3. CASE /\ wire.format = "amazon" /\ wire.header.self = sender.prop.parent
             /\ sender.prop.parent # NoId
    BY <2>3, <1>3, BalancedParent DEF ParentFrom
  <2> QED
    BY <2>1, <2>2, <2>3 DEF Of
<1> HIDE DEF n
<1>7. Typed'
  BY <1>1, <1>2, <1>4, <1>5 DEF Typed, Sound
<1>8. Begun' /\ OnWire' /\ SenderFields'
  BY <1>1, <1>2 DEF Begun, OnWire, SenderFields
<1>9. ReadsConform'
  BY <1>1, <1>5 DEF ReadsConform, Sound, LongIds
<1>10. OneTrace'
  BY <1>1, <1>2, <1>5 DEF OneTrace, Sound, OnWire, Misnamed
<1>11. ParentIsSender'
  <2>1. wire.format = "amazon" => asText
    BY <1>1, <1>2 DEF OnWire
  <2>2. ASSUME wire.format = "amazon", HasField(sender.prop, "parent") \/ HasField(sender.prop, "self")
        PROVE  Misnamed("parent")' \/ Misnamed("self")'
    BY <2>1, <2>2, <1>1, <1>2 DEF HasField, Misnamed, SenderFields
  <2> QED
    BY <2>2, <1>1, <1>2, <1>5, <1>6 DEF ParentIsSender, Sound, ParentFrom
<1>12. SamplingKept'
  <2>1. Decision(node') = Decision(n)
    BY <1>1
  <2> QED
    BY <2>1, <1>1, <1>6 DEF SamplingKept, Decision
<1>13. FieldsKept'
  BY <1>1, <1>2, <1>5, KeptOfNone DEF FieldsKept, Kept, Sound, OnWire
<1> QED
  BY <1>7, <1>8, <1>9, <1>10, <1>11, <1>12, <1>13 DEF IInv

\* After a panic nothing has been read.
LEMMA PanicStep ==
  ASSUME IInv, NEW keeps \in BOOLEAN, Panic(keeps)
  PROVE  IInv'
<1>1. /\ wire # NoHeader /\ wire.format = "honeycomb"
      /\ node' = In(Background, Refused) /\ wire' = NoHeader /\ came' = "panic"
      /\ UNCHANGED <<hops, sender, id, fields, asText>>
  BY DEF Panic, Panics
<1>2. Typed /\ Begun /\ SenderFields
  BY DEF IInv
<1>3. /\ node' \in Node /\ node'.prop = Empty /\ node'.err = TRUE
      /\ Conforms(node'.prop.state)
  BY <1>1, EmptyContext, BackgroundTyped, NoStateConforms DEF In, Refused, Partial, Node, Empty
<1>4. node'.prop.fields = NoFields
  BY <1>3 DEF Empty
<1>5. Typed'
  BY <1>1, <1>2, <1>3 DEF Typed
<1>6. Begun' /\ OnWire' /\ SenderFields'
  BY <1>1, <1>2 DEF Begun, OnWire, SenderFields
<1>7. ReadsConform' /\ OneTrace'
  BY <1>1, <1>3, EmptyContext DEF ReadsConform, OneTrace
<1>8. ParentIsSender'
  BY <1>1, <1>3, EmptyContext DEF ParentIsSender, hasParentID
<1>9. SamplingKept'
  BY <1>1, <1>3 DEF SamplingKept
<1>10. FieldsKept'
  BY <1>4 DEF FieldsKept, NoFields
<1> QED
  BY <1>5, <1>6, <1>7, <1>8, <1>9, <1>10 DEF IInv

LEMMA ContinueStep ==
  ASSUME IInv, NEW t \in Hex32, NEW s \in Hex16, NEW ds \in Dataset, Continue(t, s, ds)
  PROVE  IInv'
<1> DEFINE c == ServiceContext(node.prop, t, s, ds)
<1>1. /\ wire = NoHeader
      /\ node' = In(node.ctx, Read(c))
      /\ id' = IF node.prop.trace = NoId THEN t ELSE id
      /\ came' = "none"
      /\ UNCHANGED <<wire, hops, sender, fields, asText>>
  BY DEF Continue
<1>2. Typed /\ Begun /\ SenderFields /\ OneTrace /\ FieldsKept
  BY DEF IInv
<1>3. node.prop \in Context /\ node.ctx \in B3Ctx
  BY <1>2 DEF Typed, Node
<1>4. /\ c \in Context /\ c.trace = IF node.prop.trace = NoId THEN t ELSE node.prop.trace
      /\ c.parent = s /\ c.fields = node.prop.fields /\ c.state = <<>>
  BY <1>3, ServiceTyped
<1> HIDE DEF c
<1>5. node'.prop = c /\ node'.err = FALSE /\ node' \in Node
  BY <1>1, <1>3, <1>4 DEF In, Read, Node
<1>6. Typed'
  BY <1>1, <1>2, <1>4, <1>5, NoStateConforms DEF Typed, Id
<1>7. Begun' /\ OnWire' /\ SenderFields'
  BY <1>1, <1>2 DEF Begun, OnWire, SenderFields
<1>8. ReadsConform'
  BY <1>1, <1>4, <1>5, NoStateConforms DEF ReadsConform
<1>9. OneTrace'
  BY <1>1, <1>2, <1>4, <1>5 DEF OneTrace, Misnamed
<1>10. ParentIsSender'
  BY <1>1, <1>4, <1>5, IdAssumption DEF ParentIsSender
<1>11. SamplingKept'
  BY <1>1 DEF SamplingKept
<1>12. FieldsKept'
  BY <1>1, <1>2, <1>4, <1>5 DEF FieldsKept
<1> QED
  BY <1>6, <1>7, <1>8, <1>9, <1>10, <1>11, <1>12 DEF IInv

\* A process that changes the trace state changes nothing else.
LEMMA StateStep ==
  ASSUME IInv, NEW s, Conforms(s), wire = NoHeader,
         node' = [node EXCEPT !.prop.state = s],
         UNCHANGED <<wire, hops, sender, came, id, fields, asText>>
  PROVE  IInv'
<1>1. UNCHANGED <<wire, hops, sender, came, id, fields, asText>>
  OBVIOUS
<1>2. node \in Node /\ node.prop \in Context /\ s \in Seq(Member)
  BY DEF IInv, Typed, Node, Conforms
<1>3. /\ node' \in Node /\ node'.err = node.err /\ node'.ctx = node.ctx
      /\ node'.prop \in Context
      /\ node'.prop.trace = node.prop.trace /\ node'.prop.parent = node.prop.parent
      /\ node'.prop.fields = node.prop.fields /\ node'.prop.sampled = node.prop.sampled
      /\ node'.prop.state = s
  <2> DEFINE p == [node.prop EXCEPT !.state = s]
  <2>1. /\ p \in Context /\ p.trace = node.prop.trace /\ p.parent = node.prop.parent
        /\ p.fields = node.prop.fields /\ p.sampled = node.prop.sampled /\ p.state = s
    BY <1>2 DEF Context
  <2>2. node' = [node EXCEPT !.prop = p]
    OBVIOUS
  <2> HIDE DEF p
  <2> QED
    BY <2>1, <2>2, <1>2 DEF Node
<1>4. Typed'
  BY <1>1, <1>3 DEF IInv, Typed
<1>5. Begun' /\ OnWire' /\ SenderFields'
  BY <1>1 DEF IInv, Begun, OnWire, SenderFields
<1>6. ReadsConform' /\ OneTrace' /\ FieldsKept'
  BY <1>1, <1>3 DEF IInv, ReadsConform, OneTrace, FieldsKept, Misnamed
<1>7. ParentIsSender'
  BY <1>1, <1>3 DEF IInv, ParentIsSender, hasParentID, Misnamed
<1>8. SamplingKept'
  BY <1>1, <1>3 DEF IInv, SamplingKept, Decision
<1> QED
  BY <1>4, <1>5, <1>6, <1>7, <1>8 DEF IInv

LEMMA LoadBalanceStep ==
  ASSUME IInv, NEW self \in Other, LoadBalance(self)
  PROVE  IInv'
<1>1. /\ wire # NoHeader /\ wire.format = "amazon"
      /\ wire' = [wire EXCEPT !.header.self = self]
      /\ sender' = [sender EXCEPT !.prop.parent = self]
      /\ UNCHANGED <<node, hops, came, id, fields, asText>>
  BY DEF LoadBalance
<1>2. Typed /\ Begun /\ OnWire /\ SenderFields
  BY DEF IInv
<1>3. wire \in Header /\ wire.header \in AmazonHeader
  BY <1>1, <1>2, HeaderCases DEF Typed
<1>4. self \in Id /\ self # NoId
  BY IdAssumption DEF Id
<1>5. /\ wire' \in Header /\ wire'.format = "amazon" /\ wire'.header.self = self
      /\ wire'.header.root = wire.header.root /\ wire'.header.fields = wire.header.fields
  <2> DEFINE h == [wire.header EXCEPT !.self = self]
  <2>1. /\ h \in AmazonHeader /\ h.self = self /\ h.root = wire.header.root
        /\ h.fields = wire.header.fields
    BY <1>3, <1>4 DEF AmazonHeader
  <2>2. wire' = [wire EXCEPT !.header = h]
    BY <1>1
  <2>3. wire = [format |-> "amazon", header |-> wire.header]
    BY <1>1, <1>3 DEF Header
  <2> HIDE DEF h
  <2>4. wire' = [format |-> "amazon", header |-> h]
    BY <2>2, <2>3
  <2> QED
    BY <2>1, <2>4 DEF Header
<1>6. /\ sender' \in Node /\ sender'.prop.parent = self /\ sender'.ctx = sender.ctx
      /\ sender'.prop.fields = sender.prop.fields
      /\ sender'.prop.sampled = sender.prop.sampled
  <2> DEFINE p == [sender.prop EXCEPT !.parent = self]
  <2>1. sender \in Node /\ sender.prop \in Context
    BY <1>2 DEF Typed, Node
  <2>2. /\ p \in Context /\ p.parent = self
        /\ p.fields = sender.prop.fields /\ p.sampled = sender.prop.sampled
    BY <2>1, <1>4 DEF Context
  <2>3. sender' = [sender EXCEPT !.prop = p]
    BY <1>1
  <2> HIDE DEF p
  <2> QED
    BY <2>1, <2>2, <2>3 DEF Node
<1>7. wire' # NoHeader /\ IdsIn(wire') = IdsIn(wire) /\ FieldsIn(wire') = FieldsIn(wire)
  BY <1>1, <1>5, NoHeaderAssumption DEF IdsIn, FieldsIn
<1>8. Typed'
  BY <1>1, <1>2, <1>5, <1>6 DEF Typed
<1>9. sender' # Nothing
  BY <1>4, <1>6, NothingTyped
<1>10. Begun'
  BY <1>1, <1>2, <1>9 DEF Begun
<1>11. OnWire'
  BY <1>1, <1>2, <1>4, <1>5, <1>6, <1>7 DEF OnWire, Of, Misnamed
<1>12. SenderFields'
  BY <1>1, <1>2, <1>6 DEF SenderFields
<1>13. ReadsConform' /\ OneTrace' /\ FieldsKept'
  BY <1>1 DEF IInv, ReadsConform, OneTrace, FieldsKept, Misnamed
<1>14. ParentIsSender'
  BY <1>1, <1>7 DEF IInv, ParentIsSender
<1>15. SamplingKept'
  <2>1. CASE sender = Nothing
    <3>1. came' = "none"
      BY <2>1, <1>1, <1>2 DEF Begun
    <3> QED
      BY <3>1 DEF SamplingKept
  <2>2. CASE sender # Nothing
    BY <2>2, <1>1, <1>6 DEF IInv, SamplingKept, Decision
  <2> QED
    BY <2>1, <2>2
<1> QED
  BY <1>8, <1>10, <1>11, <1>12, <1>13, <1>14, <1>15 DEF IInv

LEMMA StepIInv == IInv /\ [Next]_vars => IInv'
<1> SUFFICES ASSUME IInv, [Next]_vars PROVE IInv'
  OBVIOUS
<1>1. ASSUME NEW t \in Hex32, NEW s \in Hex16, NEW ds \in Dataset, NEW f \in Fields,
             Begin(t, s, ds, f)
      PROVE  IInv'
  BY <1>1, BeginStep
<1>2. ASSUME NEW w \in ForeignHeader, Foreign(w) PROVE IInv'
  BY <1>2, ForeignStep
<1>3. ASSUME NEW f \in Format, NEW keeps \in BOOLEAN, Send(f, keeps) PROVE IInv'
  BY <1>3, SendStep
<1>4. ASSUME NEW keeps \in BOOLEAN, Receive(keeps) \/ Panic(keeps) PROVE IInv'
  BY <1>4, ReceiveStep, PanicStep
<1>5. ASSUME NEW t \in Hex32, NEW s \in Hex16, NEW ds \in Dataset, Continue(t, s, ds)
      PROVE  IInv'
  BY <1>5, ContinueStep
<1>6. ASSUME NEW k, NEW v, Enter(k, v) PROVE IInv'
  <2>1. Conforms(Insert(node.prop.state, k, v))
    BY InsertConforms DEF IInv, Typed
  <2>2. /\ wire = NoHeader /\ UNCHANGED <<wire, hops, sender, came, id, fields, asText>>
        /\ node' = [node EXCEPT !.prop.state = Insert(node.prop.state, k, v)]
    BY <1>6 DEF Enter
  <2> QED
    BY <2>1, <2>2, StateStep
<1>7. ASSUME NEW k \in Key, Leave(k) PROVE IInv'
  <2>1. Conforms(Delete(node.prop.state, k))
    BY DeleteConforms DEF IInv, Typed
  <2>2. /\ wire = NoHeader /\ UNCHANGED <<wire, hops, sender, came, id, fields, asText>>
        /\ node' = [node EXCEPT !.prop.state = Delete(node.prop.state, k)]
    BY <1>7 DEF Leave
  <2> QED
    BY <2>1, <2>2, StateStep
<1>8. ASSUME NEW self \in Other, LoadBalance(self) PROVE IInv'
  BY <1>8, LoadBalanceStep
<1>9. CASE UNCHANGED vars
  BY <1>9 DEF vars, history, IInv, Typed, Begun, OnWire, SenderFields, ReadsConform,
     OneTrace, Misnamed, ParentIsSender, SamplingKept, FieldsKept, Decision
<1> QED
  BY <1>1, <1>2, <1>3, <1>4, <1>5, <1>6, <1>7, <1>8, <1>9 DEF Next

LEMMA Invariant == Spec => []IInv
<1>1. Init => IInv
  BY InitIInv
<1>2. IInv /\ [Next]_vars => IInv'
  BY StepIInv
<1> QED
  BY <1>1, <1>2, PTL DEF Spec

-------------------------------------------------------------------------------
\* Contexts are typed, trace states conform to the specification after any
\* inserts and deletes, and the IDs read from W3C and B3 headers are of the
\* lengths that those formats ask for (ParseTraceState, Insert, Delete).
THEOREM ReadsAlwaysConform == Spec => []ReadsConform
<1>1. IInv => ReadsConform
  BY DEF IInv
<1> QED
  BY <1>1, Invariant, PTL

\* Through whichever formats, no process goes on with another trace than the one
\* whose header it read, unless the trace has a field called "root" that has been
\* in an Amazon header.
THEOREM TraceStaysOne == Spec => []OneTrace
<1>1. IInv => OneTrace
  BY DEF IInv
<1> QED
  BY <1>1, Invariant, PTL

\* A parent that is read is in a trace, and is who sent the header unless a field
\* called "parent" or "self" has been in an Amazon header.
THEOREM ParentSent == Spec => []ParentIsSender
<1>1. IInv => ParentIsSender
  BY DEF IInv
<1> QED
  BY <1>1, Invariant, PTL

\* B3 and W3C headers hand on the sampling decision.
THEOREM SamplingStays == Spec => []SamplingKept
<1>1. IInv => SamplingKept
  BY DEF IInv
<1> QED
  BY <1>1, Invariant, PTL

\* Fields arrive with their values, all of them or none.
THEOREM FieldsStay == Spec => []FieldsKept
<1>1. IInv => FieldsKept
  BY DEF IInv
<1> QED
  BY <1>1, Invariant, PTL

===============================================================================
