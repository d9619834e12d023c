-------------------------- MODULE DatabaseCallsProofs --------------------------
(***************************************************************************)
(* What the reports of a database wrapper say, for any number of handles,  *)
(* queries and goroutines and any methods of a certain shape; and that     *)
(* each method of either wrapper has that shape.                           *)
(***************************************************************************)
EXTENDS DatabaseCalls, TLAPS

-------------------------------------------------------------------------------
(* The shape of a method.                                                  *)

HandleKind == {"db", "conn", "tx", "stmt", "named"}

Method ==
  [on: HandleKind, makes: {"nothing", "conn", "tx", "stmt", "named"},
   adopts: {"nothing", "stmt", "named"}, clones: {"receiver", "argument"},
   names: BOOLEAN, keeps: BOOLEAN, query: BOOLEAN, context: BOOLEAN, span: BOOLEAN,
   fails: {"returned", "later", "panics", "never"}, early: BOOLEAN]

\* A handle is made of one further up, and gets an ID unless it is a statement
\* taken over.
Shape(m) ==
  /\ m \in Method
  /\ m.makes = "conn" => m.on = "db"
  /\ m.makes = "tx" => m.on \in {"db", "conn"}
  /\ m.makes \in {"stmt", "named"} => m.on \in {"db", "conn", "tx"}
  /\ m.makes \in {"conn", "tx"} => m.adopts = "nothing"
  /\ m.makes # "nothing" => m.names \/ m.adopts # "nothing"
  /\ m.names => m.clones = "receiver"

\* A statement's builder has its query, and a report of its use no other.
KeepsQuery(m) ==
  /\ m.makes = "stmt" /\ m.adopts = "nothing" => m.keeps
  /\ m.adopts # "nothing" => m.adopts = "stmt" /\ m.clones = "argument" /\ ~m.keeps
  /\ m.makes # "named"
  /\ m.on = "stmt" => ~m.query

\* A builder starts from the receiver's.
KeepsTransaction(m) == m.clones = "receiver"

-------------------------------------------------------------------------------
(* The invariant.                                                          *)

CallType ==
  [pc: {"idle", "database", "report", "sent"}, method: Method,
   on: Handle \cup {NoHandle}, new: Handle \cup {NoHandle}, fields: Fields,
   gone: BOOLEAN, failed: BOOLEAN, error: BOOLEAN]

IdsOf(h) == builder[h].ids
NamesOf(ids) == {ids[k] : k \in IdKind} \ {NoHandle}

\* The places for IDs that a handle of kind k leaves to those made on it.
Slots(ids, k) ==
  /\ k = "db" => ids["conn"] = NoHandle
  /\ k \in {"db", "conn"} => ids["tx"] = NoHandle
  /\ k \in {"db", "conn", "tx"} => ids["stmt"] = NoHandle

\* A goroutine in a call is at a handle that exists, and with it alone is the
\* handle that it makes.
CallOK(t) ==
  LET c == call[t] IN
  /\ Shape(c.method) /\ c.on \in Handle /\ kind[c.on] = c.method.on
  /\ c.method.makes = "nothing" => c.new = NoHandle
  /\ c.method.makes # "nothing" =>
       /\ c.new \in Handle /\ kind[c.new] = "making"
       /\ Slots(IdsOf(c.new), IdKindOf(c.method.makes))
       /\ c.new \in adopted => c.method.makes \in {"stmt", "named"}
       /\ \A s \in Thread : s # t /\ call[s].pc # "idle" => call[s].new # c.new

\* A builder has the IDs of what its handle was made on.
HandleOK(h) ==
  /\ kind[h] = "db" <=> h = DB
  /\ kind[h] = "absent" => h \notin adopted
  /\ kind[h] \in HandleKind => Slots(IdsOf(h), kind[h])
  /\ h \in adopted => kind[h] \in {"making", "failed", "stmt", "named"}
  /\ kind[h] # "absent" => h \in madeOn[h]
  /\ kind[h] # "absent" /\ h \notin adopted => NamesOf(IdsOf(h)) = madeOn[h] \ {DB}

\* So has a report.
ReportOK(t) ==
  LET c == call[t] IN
  /\ Subject(c) \notin adopted => NamesOf(c.fields.ids) = madeOn[Subject(c)] \ {DB}
  /\ c.method.fails = "never" => ~c.failed

IInv ==
  /\ TypeOK /\ call \in [Thread -> CallType]
  /\ \A h \in Handle : HandleOK(h)
  /\ \A t \in Thread : call[t].pc # "idle" => CallOK(t) /\ ReportOK(t)

\* The query of a statement stays in its builder.
QueryOK(t) ==
  LET c == call[t] IN
  /\ KeepsQuery(c.method)
  /\ c.method.makes = "stmt" => builder[c.new].query = prepared[c.new]
  /\ c.method.on = "stmt" => c.fields.query = prepared[c.on]

QInv ==
  /\ \A h \in Handle : kind[h] = "stmt" => builder[h].query = prepared[h]
  /\ \A t \in Thread : call[t].pc # "idle" => QueryOK(t)

\* The transaction of a handle is the one whose ID its builder has.
InTransaction(h) ==
  LET tx == IdsOf(h)["tx"] IN
  /\ \A x \in madeOn[h] :
       /\ x = h \/ kind[x] \in {"db", "conn", "tx"}
       /\ kind[x] = "tx" => x = tx
  /\ tx # NoHandle => tx \in madeOn[h] /\ (tx = h \/ kind[tx] = "tx")
  /\ tx = h => kind[h] \in {"making", "failed", "tx"}

TransactionOK(t) ==
  LET c == call[t] IN
  /\ c.method.makes = "nothing" => c.fields.ids["tx"] = IdsOf(c.on)["tx"]
  /\ c.method.makes # "nothing" => (c.method.makes = "tx" <=> IdsOf(c.new)["tx"] = c.new)

TInv ==
  /\ \A h \in Handle : kind[h] # "absent" => InTransaction(h)
  /\ \A t \in Thread : call[t].pc # "idle" => TransactionOK(t)

-------------------------------------------------------------------------------
(* What the definitions of a call come to.                                 *)

With(ids, m, new) == IF m.names THEN [ids EXCEPT ![IdKindOf(m.makes)] = new] ELSE ids

LEMMA WithTyped ==
  ASSUME NEW m, Shape(m), m.makes # "nothing", NEW new \in Handle,
         NEW ids \in [IdKind -> Handle \cup {NoHandle}]
  PROVE  /\ IdKindOf(m.makes) \in IdKind
         /\ With(ids, m, new) \in [IdKind -> Handle \cup {NoHandle}]
BY DEF Shape, Method, IdKindOf, IdKind, With

LEMMA ReportFacts ==
  ASSUME TypeOK, NEW m, Shape(m), NEW h \in Handle, NEW q \in Query \cup {NoQuery},
         NEW new \in Handle \cup {NoHandle},
         m.makes # "nothing" => new \in Handle
  PROVE  LET f == Named(NewReport(h, m, q), m, new) IN
         /\ f \in Fields
         /\ f.ids = IF m.makes # "nothing" THEN With(IdsOf(h), m, new) ELSE IdsOf(h)
         /\ f.query = IF m.query THEN q ELSE builder[h].query
<1> DEFINE r == NewReport(h, m, q)
           f == Named(r, m, new)
<1>1. builder[h] \in Fields
  BY DEF TypeOK
<1>2. r \in Fields /\ r.ids = IdsOf(h) /\ r.query = IF m.query THEN q ELSE builder[h].query
  BY <1>1 DEF NewReport, Fields, IdsOf
<1>3. r.ids \in [IdKind -> Handle \cup {NoHandle}]
  BY <1>2 DEF Fields
<1> HIDE DEF r
<1>4. CASE m.makes # "nothing" /\ m.names
  <2>1. IdKindOf(m.makes) \in IdKind
    BY <1>3, <1>4, WithTyped
  <2> DEFINE ids == [r.ids EXCEPT ![IdKindOf(m.makes)] = new]
  <2>2. f = [r EXCEPT !.ids = ids]
    BY <1>4 DEF Named
  <2>3. ids \in [IdKind -> Handle \cup {NoHandle}]
    BY <1>3, <2>1
  <2>4. ids = With(IdsOf(h), m, new)
    BY <1>2, <1>4 DEF With
  <2> HIDE DEF ids
  <2>5. f \in Fields /\ f.ids = ids /\ f.query = r.query
    BY <1>2, <2>2, <2>3 DEF Fields
  <2> QED
    BY <1>2, <1>4, <2>4, <2>5 DEF r
<1>5. CASE ~(m.makes # "nothing" /\ m.names)
  <2>1. f = r
    BY <1>5 DEF Named
  <2> QED
    BY <1>2, <1>5, <2>1 DEF With, r
<1> QED
  BY <1>4, <1>5

LEMMA MadeFacts ==
  ASSUME NEW m, Shape(m), m.makes # "nothing", NEW from \in Fields, NEW new \in Handle,
         NEW q \in Query \cup {NoQuery}
  PROVE  LET f == MadeFields(m, from, new, q) IN
         /\ f \in Fields
         /\ f.ids = With(from.ids, m, new)
         /\ f.query = IF m.keeps THEN q ELSE from.query
<1>1. from.ids \in [IdKind -> Handle \cup {NoHandle}] /\ from.query \in Query \cup {NoQuery}
  BY DEF Fields
<1>2. With(from.ids, m, new) \in [IdKind -> Handle \cup {NoHandle}]
  BY <1>1, WithTyped
<1> DEFINE w == With(from.ids, m, new)
           k == IF m.keeps THEN q ELSE from.query
<1>3. MadeFields(m, from, new, q) = [from EXCEPT !.ids = w, !.query = k]
  BY DEF MadeFields, With
<1>4. k \in Query \cup {NoQuery}
  BY <1>1
<1> HIDE DEF w, k
<1>5. LET f == [from EXCEPT !.ids = w, !.query = k] IN f \in Fields /\ f.ids = w /\ f.query = k
  BY <1>2, <1>4 DEF Fields, w
<1> QED
  BY <1>3, <1>5 DEF w, k

LEMMA PlainTyped == Plain \in Method
BY DEF Plain, Method, HandleKind

LEMMA IdleTyped ==
  Idle \in CallType /\ Idle.pc = "idle" /\ Idle.failed = FALSE
<1>1. NoFields \in Fields
  BY DEF NoFields, Fields
<1> QED
  BY <1>1, PlainTyped DEF Idle, CallType

\* Goroutine t enters a call of method m.
Entered(t, m, h, new) ==
  /\ call' \in [Thread -> CallType]
  /\ \A s \in Thread : s # t => call'[s] = call[s]
  /\ call'[t].pc = "database" /\ call'[t].method = m
  /\ call'[t].on = h /\ call'[t].new = new
  /\ call'[t].failed = FALSE /\ call'[t].fields \in Fields

LEMMA CalledFacts ==
  ASSUME call \in [Thread -> CallType], NEW t \in Thread, NEW m \in Method,
         NEW h \in Handle, NEW new \in Handle \cup {NoHandle}, NEW q,
         Named(NewReport(h, m, q), m, new) \in Fields, Called(t, m, h, new, q)
  PROVE  /\ Entered(t, m, h, new)
         /\ call'[t].fields = Named(NewReport(h, m, q), m, new)
<1> DEFINE f == Named(NewReport(h, m, q), m, new)
           c == [Idle EXCEPT !.pc = "database", !.method = m, !.on = h, !.new = new,
                             !.fields = f]
<1>1. call' = [call EXCEPT ![t] = c]
  BY DEF Called
<1>2. f \in Fields
  OBVIOUS
<1> HIDE DEF f
<1>3. /\ c \in CallType /\ c.pc = "database" /\ c.method = m /\ c.on = h /\ c.new = new
      /\ c.fields = f /\ c.failed = FALSE
  BY <1>2, IdleTyped DEF CallType
<1> HIDE DEF c
<1> QED
  BY <1>1, <1>2, <1>3 DEF f, Entered

-------------------------------------------------------------------------------
(* Every step keeps the invariant.                                         *)

LEMMA InitKeeps == Init => IInv /\ QInv /\ TInv
<1> SUFFICES ASSUME Init PROVE IInv /\ QInv /\ TInv
  OBVIOUS
<1>1. NoFields \in Fields /\ NoFields.ids = [k \in IdKind |-> NoHandle] /\ NoFields.query = NoQuery
  BY DEF NoFields, Fields
<1>2. /\ kind \in [Handle -> {"absent", "db"}] /\ \A h \in Handle : kind[h] = "db" <=> h = DB
      /\ builder = [h \in Handle |-> NoFields]
      /\ \A t \in Thread : call[t] = Idle
      /\ call \in [Thread -> CallType]
      /\ \A h \in Handle : madeOn[h] = IF h = DB THEN {DB} ELSE {}
      /\ madeOn \in [Handle -> SUBSET Handle]
      /\ \A h \in Handle : prepared[h] = NoQuery
      /\ prepared \in [Handle -> Query \cup {NoQuery}]
      /\ adopted = {}
  BY IdleTyped, HandleAssumption DEF Init
<1>3. \A h \in Handle : IdsOf(h) = [k \in IdKind |-> NoHandle] /\ builder[h].query = NoQuery
  BY <1>1, <1>2 DEF IdsOf
<1>4. TypeOK
  BY <1>1, <1>2, IdleTyped DEF TypeOK, CallType
<1>5. \A t \in Thread : call[t].pc = "idle"
  BY <1>2, IdleTyped
<1>6. \A h \in Handle : HandleOK(h)
  <2> SUFFICES ASSUME NEW h \in Handle
               PROVE  /\ kind[h] = "db" <=> h = DB
                      /\ kind[h] = "absent" => h \notin adopted
                      /\ kind[h] \in HandleKind => Slots(IdsOf(h), kind[h])
                      /\ h \in adopted => kind[h] \in {"making", "failed", "stmt", "named"}
                      /\ kind[h] # "absent" => h \in madeOn[h]
                      /\ kind[h] # "absent" /\ h \notin adopted =>
                           NamesOf(IdsOf(h)) = madeOn[h] \ {DB}
    BY DEF HandleOK
  <2>1. Slots(IdsOf(h), kind[h])
    BY <1>3 DEF Slots, IdKind
  <2>2. NamesOf(IdsOf(h)) = {}
    BY <1>3 DEF NamesOf
  <2> QED
    BY <1>2, <2>1, <2>2
<1>7. QInv
  BY <1>2, <1>3, <1>5 DEF QInv
<1>8. TInv
  <2>1. \A h \in Handle : IdsOf(h)["tx"] = NoHandle
    BY <1>3 DEF IdKind
  <2> QED
    BY <1>2, <1>5, <2>1, HandleAssumption DEF TInv, InTransaction
<1> QED
  BY <1>2, <1>4, <1>5, <1>6, <1>7, <1>8 DEF IInv

LEMMA UseFacts ==
  ASSUME IInv, NEW t \in Thread, NEW m, Shape(m), NEW h \in Handle,
         NEW q \in Query \cup {NoQuery}, Use(t, m, h, q)
  PROVE  /\ Entered(t, m, h, NoHandle)
         /\ call'[t].fields.ids = IdsOf(h)
         /\ call'[t].fields.query = IF m.query THEN q ELSE builder[h].query
         /\ m.makes = "nothing" /\ kind[h] = m.on
<1> DEFINE f == Named(NewReport(h, m, q), m, NoHandle)
<1>1. m.makes = "nothing" /\ kind[h] = m.on /\ Called(t, m, h, NoHandle, q)
  BY DEF Use
<1>2. /\ f \in Fields /\ f.ids = IdsOf(h)
      /\ f.query = IF m.query THEN q ELSE builder[h].query
  BY <1>1, ReportFacts DEF IInv
<1> HIDE DEF f
<1>3. m \in Method /\ call \in [Thread -> CallType] /\ NoHandle \in Handle \cup {NoHandle}
  BY DEF Shape, IInv
<1>4. Named(NewReport(h, m, q), m, NoHandle) \in Fields
  BY <1>2 DEF f
<1>5. Entered(t, m, h, NoHandle) /\ call'[t].fields = f
  BY <1>1, <1>3, <1>4, CalledFacts DEF f
<1> QED
  BY <1>1, <1>2, <1>5

LEMMA MakeFacts ==
  ASSUME IInv, NEW t \in Thread, NEW m, Shape(m), NEW h \in Handle, NEW new \in Handle,
         NEW src \in Handle, NEW q \in Query \cup {NoQuery}, Make(t, m, h, new, src, q)
  PROVE  LET from == IF m.clones = "argument" THEN src ELSE h IN
         /\ m.makes # "nothing" /\ kind[h] = m.on /\ kind[new] = "absent"
         /\ IF m.adopts = "nothing" THEN src = h ELSE kind[src] = m.adopts
         /\ Entered(t, m, h, new)
         /\ call'[t].fields.ids = With(IdsOf(h), m, new)
         /\ builder' \in [Handle -> Fields]
         /\ \A x \in Handle : x # new => builder'[x] = builder[x]
         /\ builder'[new].ids = With(IdsOf(from), m, new)
         /\ builder'[new].query = IF m.keeps THEN q ELSE builder[from].query
<1> DEFINE f == Named(NewReport(h, m, q), m, new)
           from == IF m.clones = "argument" THEN src ELSE h
           b == MadeFields(m, builder[from], new, q)
<1>1. /\ m.makes # "nothing" /\ kind[h] = m.on /\ kind[new] = "absent"
      /\ IF m.adopts = "nothing" THEN src = h ELSE kind[src] = m.adopts
      /\ Called(t, m, h, new, q)
      /\ builder' = [builder EXCEPT ![new] = b]
  BY DEF Make, WithBuilder
<1>2. f \in Fields /\ f.ids = With(IdsOf(h), m, new)
  BY <1>1, ReportFacts DEF IInv
<1>3. builder \in [Handle -> Fields]
  BY DEF IInv, TypeOK
<1>4. /\ b \in Fields /\ b.ids = With(IdsOf(from), m, new)
      /\ b.query = IF m.keeps THEN q ELSE builder[from].query
  <2>1. builder[from] \in Fields
    BY <1>3
  <2> HIDE DEF from
  <2> QED
    BY <1>1, <2>1, MadeFacts DEF IdsOf
<1> HIDE DEF f, b
<1>5. Entered(t, m, h, new) /\ call'[t].fields = f
  <2>1. m \in Method /\ call \in [Thread -> CallType] /\ new \in Handle \cup {NoHandle}
    BY DEF Shape, IInv
  <2>2. Named(NewReport(h, m, q), m, new) \in Fields
    BY <1>2 DEF f
  <2> QED
    BY <1>1, <2>1, <2>2, CalledFacts DEF f
<1>6. /\ builder' \in [Handle -> Fields]
      /\ \A x \in Handle : x # new => builder'[x] = builder[x]
      /\ builder'[new] = b
  BY <1>1, <1>3, <1>4
<1> QED
  BY <1>1, <1>2, <1>4, <1>5, <1>6

\* No step touches what belongs to a handle that exists.
Left(h) ==
  /\ builder'[h] = builder[h] /\ madeOn'[h] = madeOn[h] /\ prepared'[h] = prepared[h]
  /\ h \in adopted' <=> h \in adopted

LEMMA HandleLeft ==
  ASSUME NEW h \in Handle, HandleOK(h), Left(h), kind'[h] = kind[h]
  PROVE  HandleOK(h)'
<1>1. IdsOf(h)' = IdsOf(h)
  BY DEF Left, IdsOf
<1>2. NamesOf(IdsOf(h))' = NamesOf(IdsOf(h))
  BY <1>1 DEF NamesOf
<1>3. Slots(IdsOf(h), kind[h])' <=> Slots(IdsOf(h), kind[h])
  BY <1>1 DEF Slots
<1> QED
  BY <1>1, <1>2, <1>3 DEF HandleOK, Left

LEMMA BusyFacts ==
  ASSUME IInv, NEW s \in Thread, call[s].pc # "idle"
  PROVE  LET c == call[s] IN
         /\ c \in CallType /\ Shape(c.method) /\ CallOK(s) /\ ReportOK(s)
         /\ c.on \in Handle /\ kind[c.on] = c.method.on /\ kind[c.on] \in HandleKind
         /\ c.method.makes = "nothing" => c.new = NoHandle
         /\ c.method.makes # "nothing" => c.new \in Handle /\ kind[c.new] = "making"
         /\ Subject(c) \in Handle /\ kind[Subject(c)] # "absent"
<1> DEFINE c == call[s]
<1>1. c \in CallType /\ CallOK(s) /\ ReportOK(s)
  BY DEF IInv
<1>2. /\ Shape(c.method) /\ c.on \in Handle /\ kind[c.on] = c.method.on
      /\ c.method.makes = "nothing" => c.new = NoHandle
      /\ c.method.makes # "nothing" => c.new \in Handle /\ kind[c.new] = "making"
  BY <1>1 DEF CallOK
<1>3. kind[c.on] \in HandleKind
  BY <1>2 DEF Shape, Method
<1>4. Subject(c) \in Handle /\ kind[Subject(c)] # "absent"
  BY <1>2, <1>3 DEF Subject, HandleKind
<1> QED
  BY <1>1, <1>2, <1>3, <1>4

LEMMA CallLeft ==
  ASSUME IInv, \A h \in Handle : kind[h] # "absent" => Left(h),
         NEW s \in Thread, call[s].pc # "idle", call'[s] = call[s],
         kind'[call[s].on] = kind[call[s].on],
         call[s].new # NoHandle =>
           /\ kind'[call[s].new] = "making"
           /\ \A r \in Thread : r # s /\ call'[r].pc # "idle" => call'[r].new # call[s].new
  PROVE  CallOK(s)' /\ ReportOK(s)'
<1> DEFINE c == call[s]
<1>1. /\ Shape(c.method) /\ CallOK(s) /\ ReportOK(s)
      /\ c.on \in Handle /\ kind[c.on] \in HandleKind
      /\ c.method.makes # "nothing" => c.new \in Handle /\ kind[c.new] = "making"
      /\ Subject(c) \in Handle /\ kind[Subject(c)] # "absent"
  BY BusyFacts
<1>2. CallOK(s)'
  <2>1. CASE c.method.makes = "nothing"
    BY <1>1, <2>1 DEF CallOK
  <2>2. CASE c.method.makes # "nothing"
    <3>1. c.new \in Handle /\ kind[c.new] # "absent" /\ c.new # NoHandle
      BY <1>1, <2>2, HandleAssumption
    <3>2. IdsOf(call[s].new)' = IdsOf(call[s].new)
      BY <3>1 DEF Left, IdsOf
    <3>3. /\ Slots(IdsOf(c.new), IdKindOf(c.method.makes))
          /\ c.new \in adopted => c.method.makes \in {"stmt", "named"}
      BY <1>1, <2>2 DEF CallOK
    <3>4. Slots(IdsOf(call[s].new), IdKindOf(call[s].method.makes))'
      BY <3>2, <3>3 DEF Slots
    <3>5. c.new \in adopted' => c.method.makes \in {"stmt", "named"}
      BY <3>1, <3>3 DEF Left
    <3> QED
      BY <1>1, <3>1, <3>4, <3>5 DEF CallOK
  <2> QED
    BY <2>1, <2>2
<1>3. ReportOK(s)'
  <2>1. Subject(call[s])' = Subject(c)
    BY DEF Subject
  <2>2. Left(Subject(c))
    BY <1>1
  <2>3. NamesOf(call[s].fields.ids)' = NamesOf(c.fields.ids)
    BY DEF NamesOf
  <2> QED
    BY <1>1, <2>1, <2>2, <2>3 DEF ReportOK, Left
<1> QED
  BY <1>2, <1>3

\* A goroutine that has no handle in the making can enter or go on with a call.
LEMMA SameHandles ==
  ASSUME IInv, NEW t \in Thread, UNCHANGED <<kind, builder, madeOn, prepared, adopted>>,
         call' \in [Thread -> CallType], \A s \in Thread : s # t => call'[s] = call[s],
         call'[t].pc # "idle" => CallOK(t)' /\ ReportOK(t)',
         call'[t].new \in {NoHandle} \cup
           IF call[t].pc = "idle" THEN {} ELSE {call[t].new}
  PROVE  IInv'
<1>1. \A h \in Handle : Left(h) /\ kind'[h] = kind[h]
  BY DEF Left
<1>2. \A h \in Handle : HandleOK(h)'
  BY <1>1, HandleLeft DEF IInv
<1>3. ASSUME NEW s \in Thread, s # t, call'[s].pc # "idle"
      PROVE  CallOK(s)' /\ ReportOK(s)'
  <2>1. call'[s] = call[s] /\ call[s].pc # "idle"
    BY <1>3
  <2> DEFINE c == call[s]
  <2>2. /\ CallOK(s) /\ c.on \in Handle
        /\ c.new # NoHandle =>
             c.method.makes # "nothing" /\ c.new \in Handle /\ kind[c.new] = "making"
    BY <2>1, BusyFacts
  <2>3. ASSUME c.new # NoHandle, NEW r \in Thread, r # s, call'[r].pc # "idle"
        PROVE  call'[r].new # c.new
    <3>1. \A u \in Thread : u # s /\ call[u].pc # "idle" => call[u].new # c.new
      BY <2>2, <2>3 DEF CallOK
    <3>2. CASE r = t
      BY <3>1, <3>2, <2>3
    <3>3. CASE r # t
      BY <3>1, <3>3, <2>3
    <3> QED
      BY <3>2, <3>3
  <2> QED
    BY <1>1, <2>1, <2>2, <2>3, CallLeft
<1>4. TypeOK'
  <2>1. \A s \in Thread : call'[s].pc # "idle" => CallOK(s)'
    BY <1>3
  <2>2. \A s \in Thread : call'[s].pc # "idle" => kind'[call'[s].on] = call'[s].method.on
    BY <2>1 DEF CallOK
  <2> QED
    BY <2>2 DEF IInv, TypeOK, CallType
<1> QED
  BY <1>2, <1>3, <1>4 DEF IInv

LEMMA UseKeeps ==
  ASSUME IInv, NEW t \in Thread, NEW m, Shape(m), NEW h \in Handle,
         NEW q \in Query \cup {NoQuery}, Use(t, m, h, q)
  PROVE  IInv'
<1>1. /\ Entered(t, m, h, NoHandle)
      /\ call'[t].fields.ids = IdsOf(h)
      /\ m.makes = "nothing" /\ kind[h] = m.on
  BY UseFacts
<1>2. UNCHANGED <<kind, builder, madeOn, prepared, adopted>>
  BY DEF Use
<1>3. CallOK(t)'
  BY <1>1, <1>2 DEF CallOK, Entered
<1>4. ReportOK(t)'
  <2>1. kind[h] # "absent" /\ HandleOK(h)
    BY <1>1 DEF Shape, Method, HandleKind, IInv
  <2>2. Subject(call[t])' = h
    BY <1>1 DEF Subject, Entered
  <2>3. NamesOf(call[t].fields.ids)' = NamesOf(IdsOf(h))
    BY <1>1 DEF NamesOf
  <2>4. h \notin adopted => NamesOf(IdsOf(h)) = madeOn[h] \ {DB}
    BY <2>1 DEF HandleOK
  <2> QED
    BY <1>1, <1>2, <2>2, <2>3, <2>4 DEF ReportOK, Entered
<1> QED
  BY <1>1, <1>2, <1>3, <1>4, SameHandles DEF Entered

LEMMA DatabaseKeeps ==
  ASSUME IInv, NEW t \in Thread, Database(t) \/ SentByParent(t) \/ Report(t)
  PROVE  /\ IInv'
         /\ \A x \in Handle : Left(x) /\ kind'[x] = kind[x]
         /\ call[t].pc # "idle"
         /\ call'[t].method = call[t].method /\ call'[t].on = call[t].on
         /\ call'[t].new = call[t].new /\ call'[t].fields = call[t].fields
         /\ \A s \in Thread : s # t => call'[s] = call[s]
<1> DEFINE c == call[t]
           d == call'[t]
<1>1. c.pc # "idle"
  BY DEF Database, SentByParent, Report
<1>2. /\ c \in CallType /\ Shape(c.method) /\ CallOK(t) /\ ReportOK(t)
      /\ call \in [Thread -> CallType]
  BY <1>1, BusyFacts DEF IInv
<1>3. /\ d \in CallType /\ d.method = c.method /\ d.on = c.on /\ d.new = c.new
      /\ d.fields = c.fields
      /\ d.method.fails = "never" => ~d.failed
      /\ call' = [call EXCEPT ![t] = d]
      /\ UNCHANGED <<kind, builder, madeOn, prepared, adopted>>
  <2>1. CASE Database(t)
    <3>1. PICK failed \in IF c.method.fails = "never" THEN {FALSE} ELSE BOOLEAN :
            call' = [call EXCEPT ![t].failed = failed, ![t].pc = "report"]
      BY <2>1 DEF Database
    <3>2. d = [c EXCEPT !.failed = failed, !.pc = "report"] /\ call' = [call EXCEPT ![t] = d]
      BY <1>2, <3>1
    <3> HIDE DEF c, d
    <3>3. UNCHANGED <<kind, builder, madeOn, prepared, adopted>>
      BY <2>1 DEF Database
    <3> QED
      BY <1>2, <3>1, <3>2, <3>3 DEF CallType
  <2>2. CASE SentByParent(t)
    <3>1. d = [c EXCEPT !.gone = TRUE] /\ call' = [call EXCEPT ![t] = d]
      BY <1>2, <2>2 DEF SentByParent
    <3>2. c.method.fails = "never" => ~c.failed
      BY <1>2 DEF ReportOK
    <3>3. UNCHANGED <<kind, builder, madeOn, prepared, adopted>>
      BY <2>2 DEF SentByParent
    <3> HIDE DEF c, d
    <3> QED
      BY <1>2, <3>1, <3>2, <3>3 DEF CallType
  <2>3. CASE Report(t)
    <3> DEFINE e == Reported(c.method, c.failed) /\ ~c.gone
    <3>1. d = [c EXCEPT !.pc = "sent", !.error = e] /\ call' = [call EXCEPT ![t] = d]
      BY <1>2, <2>3 DEF Report
    <3>2. e \in BOOLEAN
      BY <1>2 DEF Reported, CallType
    <3>3. c.method.fails = "never" => ~c.failed
      BY <1>2 DEF ReportOK
    <3>4. UNCHANGED <<kind, builder, madeOn, prepared, adopted>>
      BY <2>3 DEF Report
    <3> HIDE DEF c, d, e
    <3>5. /\ d \in CallType /\ d.method = c.method /\ d.on = c.on /\ d.new = c.new
          /\ d.fields = c.fields /\ d.failed = c.failed /\ d.error = e
      BY <1>2, <3>1, <3>2 DEF CallType
    <3> QED
      BY <3>1, <3>3, <3>4, <3>5 DEF e
  <2> QED
    BY <2>1, <2>2, <2>3
<1>4. /\ call' \in [Thread -> CallType]
      /\ \A s \in Thread : s # t => call'[s] = call[s]
  BY <1>2, <1>3
<1>5. CallOK(t)'
  BY <1>2, <1>3, <1>4 DEF CallOK, IdsOf
<1>6. ReportOK(t)'
  BY <1>2, <1>3 DEF ReportOK, Subject, NamesOf
<1>7. IInv'
  BY <1>1, <1>3, <1>4, <1>5, <1>6, SameHandles
<1>8. \A x \in Handle : Left(x) /\ kind'[x] = kind[x]
  BY <1>3 DEF Left
<1> QED
  BY <1>1, <1>3, <1>4, <1>7, <1>8

\* A new ID has a place of its own.
LEMMA SlotFree ==
  ASSUME NEW m, Shape(m), m.makes # "nothing", NEW new \in Handle,
         NEW ids \in [IdKind -> Handle \cup {NoHandle}], Slots(ids, m.on)
  PROVE  /\ ids[IdKindOf(m.makes)] = NoHandle
         /\ Slots(With(ids, m, new), IdKindOf(m.makes))
<1>1. IdKindOf(m.makes) \in IdKind /\ m.on \in {"db", "conn", "tx"}
  BY WithTyped DEF Shape, Method
<1>2. ids[IdKindOf(m.makes)] = NoHandle
  BY DEF Shape, Method, IdKindOf, Slots
<1>3. \A k \in IdKind : k # IdKindOf(m.makes) => With(ids, m, new)[k] = ids[k]
  BY <1>1 DEF With
<1>4. Slots(With(ids, m, new), IdKindOf(m.makes))
  BY <1>3 DEF Shape, Method, IdKindOf, IdKind, Slots
<1> QED
  BY <1>2, <1>4

LEMMA NamesWith ==
  ASSUME NEW m, Shape(m), m.makes # "nothing", m.names, NEW new \in Handle,
         NEW ids \in [IdKind -> Handle \cup {NoHandle}],
         ids[IdKindOf(m.makes)] = NoHandle
  PROVE  NamesOf(With(ids, m, new)) = NamesOf(ids) \cup {new}
<1> DEFINE k == IdKindOf(m.makes)
           w == With(ids, m, new)
<1>1. k \in IdKind
  BY WithTyped
<1>2. w[k] = new /\ \A j \in IdKind : j # k => w[j] = ids[j]
  BY <1>1 DEF With
<1> HIDE DEF k, w
<1>3. ids[k] = NoHandle
  BY DEF k
<1>4. {w[j] : j \in IdKind} \ {NoHandle} = ({ids[j] : j \in IdKind} \ {NoHandle}) \cup {new}
  BY <1>1, <1>2, <1>3, HandleAssumption
<1> QED
  BY <1>4 DEF NamesOf, w

LEMMA MakeKeeps ==
  ASSUME IInv, NEW t \in Thread, call[t].pc = "idle", NEW m, Shape(m), NEW h \in Handle,
         NEW new \in Handle, NEW src \in Handle, NEW q \in Query \cup {NoQuery},
         Make(t, m, h, new, src, q)
  PROVE  /\ IInv'
         /\ \A x \in Handle : x # new => Left(x) /\ kind'[x] = kind[x]
<1> DEFINE from == IF m.clones = "argument" THEN src ELSE h
           ids == IdsOf(h)
<1>1. /\ m.makes # "nothing" /\ kind[h] = m.on /\ kind[new] = "absent"
      /\ Entered(t, m, h, new)
      /\ call'[t].fields.ids = With(ids, m, new)
      /\ builder' \in [Handle -> Fields]
      /\ \A x \in Handle : x # new => builder'[x] = builder[x]
      /\ builder'[new].ids = With(IdsOf(from), m, new)
  BY MakeFacts
<1>2. /\ kind' = [kind EXCEPT ![new] = "making"]
      /\ madeOn' = [madeOn EXCEPT ![new] = madeOn[h] \cup {new}]
      /\ prepared' = [prepared EXCEPT ![new] =
           IF m.adopts = "nothing" THEN q ELSE prepared[src]]
      /\ adopted' = IF m.adopts = "nothing" \/ m.names THEN adopted ELSE adopted \cup {new}
  BY DEF Make
<1>3. TypeOK /\ call \in [Thread -> CallType] /\ HandleOK(h) /\ HandleOK(new)
  BY DEF IInv
<1>4. \A x \in Handle : x # new => Left(x) /\ kind'[x] = kind[x]
  BY <1>1, <1>2, <1>3 DEF Left, TypeOK
<1>5. /\ kind[h] \in {"db", "conn", "tx"} /\ h # new /\ h \notin adopted
      /\ new \notin adopted /\ new # DB
      /\ Slots(ids, m.on)
      /\ NamesOf(ids) = madeOn[h] \ {DB}
  BY <1>1, <1>3 DEF HandleOK, Shape, Method, HandleKind
<1>6. ids \in [IdKind -> Handle \cup {NoHandle}]
  BY <1>3 DEF TypeOK, Fields, IdsOf
<1> HIDE DEF ids, from
<1>7. ids[IdKindOf(m.makes)] = NoHandle /\ Slots(With(ids, m, new), IdKindOf(m.makes))
  BY <1>1, <1>5, <1>6, SlotFree
<1>8. /\ madeOn'[new] = madeOn[h] \cup {new} /\ madeOn'[h] = madeOn[h]
      /\ kind'[new] = "making" /\ kind'[h] = m.on
  BY <1>1, <1>2, <1>3, <1>5 DEF TypeOK
<1>9. ASSUME m.names
      PROVE  /\ NamesOf(With(ids, m, new)) = madeOn'[new] \ {DB}
             /\ IdsOf(new)' = With(ids, m, new)
             /\ new \notin adopted'
  <2>1. NamesOf(With(ids, m, new)) = NamesOf(ids) \cup {new}
    BY <1>1, <1>6, <1>7, <1>9, NamesWith
  <2>2. from = h
    BY <1>9 DEF from, Shape
  <2> QED
    BY <1>1, <1>2, <1>5, <1>8, <1>9, <2>1, <2>2 DEF IdsOf, ids
<1>10. ASSUME ~m.names
       PROVE  /\ With(ids, m, new) = ids
              /\ new \in adopted' /\ m.makes \in {"stmt", "named"}
              /\ \A i : Slots(i, IdKindOf(m.makes))
  <2>1. m.adopts # "nothing" /\ m.makes \in {"stmt", "named"}
    BY <1>1, <1>10 DEF Shape, Method
  <2>2. IdKindOf(m.makes) = "stmt"
    BY <2>1 DEF IdKindOf
  <2> QED
    BY <1>2, <1>10, <2>1, <2>2 DEF Slots, With
<1>11. new \in adopted' => m.makes \in {"stmt", "named"}
  BY <1>9, <1>10
<1>12. Slots(IdsOf(new)', IdKindOf(m.makes))
  BY <1>7, <1>9, <1>10
<1>13. HandleOK(new)'
  <2>1. new \notin adopted' => NamesOf(IdsOf(new))' = madeOn'[new] \ {DB}
    BY <1>9, <1>10 DEF NamesOf
  <2>2. kind'[new] \notin HandleKind /\ new \in madeOn'[new]
    BY <1>8 DEF HandleKind
  <2> QED
    BY <1>5, <1>8, <2>1, <2>2 DEF HandleOK
<1>14. \A x \in Handle : HandleOK(x)'
  BY <1>4, <1>13, HandleLeft DEF IInv
<1>15. CallOK(t)'
  <2>1. ASSUME NEW s \in Thread, s # t, call'[s].pc # "idle"
        PROVE  call'[s].new # new
    <3>1. call'[s] = call[s] /\ call[s].pc # "idle"
      BY <1>1, <2>1 DEF Entered
    <3>2. call[s].new = NoHandle \/ kind[call[s].new] = "making"
      BY <3>1, BusyFacts
    <3> QED
      BY <1>1, <3>1, <3>2, HandleAssumption
  <2>2. Slots(IdsOf(call[t].new), IdKindOf(call[t].method.makes))'
    BY <1>1, <1>12 DEF Entered, Slots, IdsOf
  <2> QED
    BY <1>1, <1>8, <1>11, <2>1, <2>2 DEF CallOK, Entered
<1>16. ReportOK(t)'
  <2>1. NamesOf(call[t].fields.ids)' = NamesOf(With(ids, m, new))
    BY <1>1 DEF NamesOf
  <2>2. CASE m.names
    <3>1. Subject(call[t])' = new
      BY <1>1, <2>2, HandleAssumption DEF Subject, Entered
    <3> QED
      BY <1>1, <1>9, <2>1, <2>2, <3>1 DEF ReportOK, Entered
  <2>3. CASE ~m.names
    <3>1. Subject(call[t])' = h
      BY <1>1, <2>3 DEF Subject, Entered
    <3> QED
      BY <1>1, <1>5, <1>8, <1>10, <2>1, <2>3, <3>1 DEF ReportOK, Entered
  <2> QED
    BY <2>2, <2>3
<1>17. ASSUME NEW s \in Thread, s # t, call'[s].pc # "idle"
       PROVE  CallOK(s)' /\ ReportOK(s)'
  <2> DEFINE c == call[s]
  <2>1. call'[s] = c /\ c.pc # "idle"
    BY <1>1, <1>17 DEF Entered
  <2>2. /\ CallOK(s) /\ c.on \in Handle /\ kind[c.on] \in HandleKind
        /\ c.new # NoHandle =>
             c.method.makes # "nothing" /\ c.new \in Handle /\ kind[c.new] = "making"
    BY <2>1, BusyFacts
  <2>3. ASSUME c.new # NoHandle
        PROVE  /\ kind'[c.new] = "making"
               /\ \A r \in Thread : r # s /\ call'[r].pc # "idle" => call'[r].new # c.new
    <3>1. \A u \in Thread : u # s /\ call[u].pc # "idle" => call[u].new # c.new
      BY <2>2, <2>3 DEF CallOK
    <3>2. c.new # new
      BY <1>1, <2>2, <2>3
    <3>3. \A r \in Thread : r # t => call'[r] = call[r]
      BY <1>1 DEF Entered
    <3>4. call'[t].new = new
      BY <1>1 DEF Entered
    <3> QED
      BY <1>4, <2>2, <2>3, <3>1, <3>2, <3>3, <3>4
  <2>4. kind'[c.on] = kind[c.on]
    BY <1>1, <1>4, <2>2 DEF HandleKind
  <2>5. \A x \in Handle : kind[x] # "absent" => Left(x)
    BY <1>1, <1>4
  <2> QED
    BY <2>1, <2>3, <2>4, <2>5, CallLeft
<1>18. TypeOK'
  <2>1. \A s \in Thread : call'[s].pc # "idle" => CallOK(s)'
    BY <1>15, <1>17
  <2>2. \A s \in Thread : call'[s].pc # "idle" => kind'[call'[s].on] = call'[s].method.on
    BY <2>1 DEF CallOK
  <2>3. /\ kind' \in [Handle ->
             {"absent", "making", "failed", "db", "conn", "tx", "stmt", "named"}]
        /\ madeOn' \in [Handle -> SUBSET Handle]
        /\ adopted' \subseteq Handle
    BY <1>2, <1>3 DEF TypeOK
  <2>4. prepared' \in [Handle -> Query \cup {NoQuery}]
    <3>1. (IF m.adopts = "nothing" THEN q ELSE prepared[src]) \in Query \cup {NoQuery}
      BY <1>3 DEF TypeOK
    <3> QED
      BY <1>2, <1>3, <3>1 DEF TypeOK
  <2> QED
    BY <1>1, <2>2, <2>3, <2>4 DEF TypeOK, CallType, Entered
<1> QED
  BY <1>1, <1>4, <1>14, <1>15, <1>16, <1>17, <1>18 DEF IInv, Entered

LEMMA ReturnKeeps ==
  ASSUME IInv, NEW t \in Thread, Return(t)
  PROVE  /\ IInv'
         /\ \A x \in Handle : Left(x) /\ (x # call[t].new => kind'[x] = kind[x])
         /\ call[t].new # NoHandle => call[t].new \in Handle
              /\ kind[call[t].new] = "making" /\ call[t].method.makes # "nothing"
              /\ kind'[call[t].new] \in {"failed", call[t].method.makes}
         /\ call'[t].pc = "idle"
         /\ \A s \in Thread : s # t => call'[s] = call[s]
<1> DEFINE c == call[t]
           new == call[t].new
<1>1. /\ c.pc # "idle" /\ call' = [call EXCEPT ![t] = Idle]
      /\ IF new = NoHandle THEN UNCHANGED kind
         ELSE kind' = [kind EXCEPT ![new] = IF c.failed THEN "failed" ELSE c.method.makes]
      /\ UNCHANGED <<builder, madeOn, prepared, adopted>>
  BY DEF Return
<1>2. TypeOK /\ call \in [Thread -> CallType]
  BY DEF IInv
<1>3. /\ Shape(c.method) /\ CallOK(t)
      /\ c.method.makes = "nothing" => new = NoHandle
      /\ c.method.makes # "nothing" => new \in Handle /\ kind[new] = "making"
  BY <1>1, BusyFacts
<1>4. /\ call' \in [Thread -> CallType] /\ call'[t].pc = "idle"
      /\ \A s \in Thread : s # t => call'[s] = call[s]
  BY <1>1, <1>2, IdleTyped
<1> HIDE DEF c, new
<1>5. new # NoHandle =>
        /\ new \in Handle /\ kind[new] = "making" /\ c.method.makes # "nothing"
        /\ kind'[new] \in {"failed", c.method.makes}
        /\ c.method.makes \in {"conn", "tx", "stmt", "named"}
  BY <1>1, <1>2, <1>3 DEF TypeOK, Shape, Method
<1>6. \A x \in Handle : Left(x) /\ (x # new => kind'[x] = kind[x])
  BY <1>1, <1>2 DEF TypeOK, Left
<1>7. ASSUME NEW x \in Handle PROVE HandleOK(x)'
  <2>1. HandleOK(x)
    BY DEF IInv
  <2>2. CASE x # new
    BY <1>6, <2>1, <2>2, HandleLeft
  <2>3. CASE x = new
    <3>1. /\ kind[x] = "making" /\ kind'[x] \in {"failed", c.method.makes}
          /\ c.method.makes \in {"conn", "tx", "stmt", "named"}
      BY <1>5, <2>3, HandleAssumption
    <3>2. /\ Slots(IdsOf(x), IdKindOf(c.method.makes))
          /\ x \in adopted => c.method.makes \in {"stmt", "named"}
      BY <1>3, <2>3, <3>1 DEF CallOK, c, new
    <3>3. Slots(IdsOf(x), c.method.makes)
      BY <3>1, <3>2 DEF Slots, IdKindOf
    <3>4. kind'[x] \in HandleKind => Slots(IdsOf(x), kind[x])'
      BY <1>1, <3>1, <3>3 DEF Slots, IdsOf, HandleKind
    <3>5. NamesOf(IdsOf(x))' = NamesOf(IdsOf(x))
      BY <1>1 DEF NamesOf, IdsOf
    <3> QED
      BY <1>1, <2>1, <3>1, <3>2, <3>4, <3>5 DEF HandleOK
  <2> QED
    BY <2>2, <2>3
<1>8. ASSUME NEW s \in Thread, call'[s].pc # "idle"
      PROVE  CallOK(s)' /\ ReportOK(s)'
  <2> DEFINE d == call[s]
  <2>1. s # t /\ call'[s] = d /\ d.pc # "idle"
    BY <1>4, <1>8
  <2>2. /\ CallOK(s) /\ d.on \in Handle /\ kind[d.on] \in HandleKind
        /\ d.new # NoHandle =>
             d.method.makes # "nothing" /\ d.new \in Handle /\ kind[d.new] = "making"
    BY <2>1, BusyFacts
  <2>3. ASSUME d.new # NoHandle
        PROVE  /\ kind'[d.new] = "making"
               /\ \A r \in Thread : r # s /\ call'[r].pc # "idle" => call'[r].new # d.new
    <3>1. \A u \in Thread : u # s /\ call[u].pc # "idle" => call[u].new # d.new
      BY <2>2, <2>3 DEF CallOK
    <3>2. d.new # new
      BY <1>1, <2>1, <3>1 DEF new, c
    <3> QED
      BY <1>4, <1>6, <2>2, <2>3, <3>1, <3>2
  <2>4. kind'[d.on] = kind[d.on]
    <3>1. d.on # new
      BY <1>5, <2>2, HandleAssumption DEF HandleKind
    <3> QED
      BY <1>6, <2>2, <3>1
  <2> QED
    BY <1>6, <2>1, <2>3, <2>4, CallLeft
<1>9. TypeOK'
  <2>1. \A s \in Thread : call'[s].pc # "idle" => kind'[call'[s].on] = call'[s].method.on
    BY <1>8 DEF CallOK
  <2>2. kind' \in [Handle ->
          {"absent", "making", "failed", "db", "conn", "tx", "stmt", "named"}]
    BY <1>1, <1>2, <1>5 DEF TypeOK
  <2> QED
    BY <1>1, <1>2, <1>4, <2>1, <2>2 DEF TypeOK, CallType
<1> QED
  BY <1>4, <1>5, <1>6, <1>7, <1>8, <1>9 DEF IInv, c, new

LEMMA CallsKeep ==
  ASSUME IInv, NEW methods, \A m \in methods : Shape(m), NEW t \in Thread, Calls(t, methods)
  PROVE  IInv'
<1>1. CASE \E m \in methods, h \in Handle, q \in Query \cup {NoQuery} : Use(t, m, h, q)
  BY <1>1, UseKeeps
<1>2. CASE \E m \in methods, h \in Handle, q \in Query \cup {NoQuery}, new, src \in Handle :
             Make(t, m, h, new, src, q)
  <2>1. call[t].pc = "idle"
    BY <1>2 DEF Make
  <2> QED
    BY <1>2, <2>1, MakeKeeps
<1> QED
  BY <1>1, <1>2, DatabaseKeeps, ReturnKeeps DEF Calls

-------------------------------------------------------------------------------
(* Queries and transactions.                                               *)

LEMMA QueryLeft ==
  ASSUME IInv, \A h \in Handle : kind[h] # "absent" => Left(h),
         NEW s \in Thread, call[s].pc # "idle", QueryOK(s),
         call'[s].method = call[s].method, call'[s].on = call[s].on,
         call'[s].new = call[s].new, call'[s].fields = call[s].fields
  PROVE  QueryOK(s)'
<1> DEFINE c == call[s]
<1>1. /\ c.on \in Handle /\ kind[c.on] # "absent"
      /\ c.method.makes # "nothing" => c.new \in Handle /\ kind[c.new] # "absent"
  BY BusyFacts DEF HandleKind
<1>2. Left(c.on) /\ (c.method.makes # "nothing" => Left(c.new))
  BY <1>1
<1> QED
  BY <1>2 DEF QueryOK, Left

LEMMA QueriesKeep ==
  ASSUME IInv, QInv, NEW methods, \A m \in methods : Shape(m) /\ KeepsQuery(m),
         NEW t \in Thread, Calls(t, methods)
  PROVE  QInv'
<1> DEFINE Kept == \A x \in Handle : kind[x] = "stmt" => builder[x].query = prepared[x]
<1>1. Kept /\ \A s \in Thread : call[s].pc # "idle" => QueryOK(s)
  BY DEF QInv
<1>2. ASSUME NEW m \in methods, NEW h \in Handle, NEW q \in Query \cup {NoQuery}, Use(t, m, h, q)
      PROVE  QInv'
  <2>1. Shape(m) /\ KeepsQuery(m)
    BY <1>2
  <2>2. /\ Entered(t, m, h, NoHandle) /\ m.makes = "nothing" /\ kind[h] = m.on
        /\ call'[t].fields.query = IF m.query THEN q ELSE builder[h].query
    BY <1>2, <2>1, UseFacts
  <2>3. UNCHANGED <<kind, builder, madeOn, prepared, adopted>>
    BY <1>2 DEF Use
  <2>4. QueryOK(t)'
    BY <1>1, <2>1, <2>2, <2>3 DEF QueryOK, KeepsQuery, Entered
  <2>5. \A x \in Handle : Left(x)
    BY <2>3 DEF Left
  <2>6. \A s \in Thread : s # t /\ call'[s].pc # "idle" => QueryOK(s)'
    BY <1>1, <2>2, <2>5, QueryLeft DEF Entered
  <2> QED
    BY <1>1, <2>3, <2>4, <2>6 DEF QInv
<1>3. ASSUME NEW m \in methods, NEW h \in Handle, NEW q \in Query \cup {NoQuery},
             NEW new \in Handle, NEW src \in Handle, Make(t, m, h, new, src, q)
      PROVE  QInv'
  <2> DEFINE from == IF m.clones = "argument" THEN src ELSE h
  <2>1. Shape(m) /\ KeepsQuery(m) /\ call[t].pc = "idle"
    BY <1>3 DEF Make
  <2>2. /\ m.makes # "nothing" /\ kind[h] = m.on /\ kind[new] = "absent"
        /\ IF m.adopts = "nothing" THEN src = h ELSE kind[src] = m.adopts
        /\ Entered(t, m, h, new)
        /\ builder'[new].query = IF m.keeps THEN q ELSE builder[from].query
    BY <1>3, <2>1, MakeFacts
  <2>3. \A x \in Handle : x # new => Left(x) /\ kind'[x] = kind[x]
    BY <1>3, <2>1, MakeKeeps
  <2>4. /\ kind'[new] = "making"
        /\ prepared'[new] = IF m.adopts = "nothing" THEN q ELSE prepared[src]
    BY <1>3 DEF Make, IInv, TypeOK
  <2>5. \A x \in Handle : kind'[x] = "stmt" => builder'[x].query = prepared'[x]
    BY <1>1, <2>3, <2>4 DEF Left
  <2>6. QueryOK(t)'
    <3>1. m.on # "stmt"
      BY <2>1, <2>2 DEF Shape, Method
    <3>2. CASE m.makes = "stmt" /\ m.adopts = "nothing"
      BY <2>1, <2>2, <2>4, <3>1, <3>2 DEF QueryOK, Entered, KeepsQuery
    <3>3. CASE m.adopts # "nothing"
      <4>1. kind[src] = "stmt" /\ from = src /\ ~m.keeps
        BY <2>1, <2>2, <3>3 DEF KeepsQuery
      <4>2. builder'[new].query = prepared'[new]
        BY <1>1, <2>2, <2>4, <3>3, <4>1
      <4> QED
        BY <2>1, <2>2, <3>1, <4>2 DEF QueryOK, Entered
    <3>4. CASE m.makes # "stmt"
      BY <2>1, <2>2, <3>1, <3>4 DEF QueryOK, Entered
    <3> QED
      BY <3>2, <3>3, <3>4
  <2>7. \A s \in Thread : s # t /\ call'[s].pc # "idle" => QueryOK(s)'
    BY <1>1, <2>2, <2>3, QueryLeft DEF Entered
  <2> QED
    BY <2>5, <2>6, <2>7 DEF QInv
<1>4. CASE Database(t) \/ SentByParent(t) \/ Report(t)
  <2>1. /\ \A x \in Handle : Left(x) /\ kind'[x] = kind[x]
        /\ call[t].pc # "idle"
        /\ call'[t].method = call[t].method /\ call'[t].on = call[t].on
        /\ call'[t].new = call[t].new /\ call'[t].fields = call[t].fields
        /\ \A s \in Thread : s # t => call'[s] = call[s]
    BY <1>4, DatabaseKeeps
  <2>2. \A s \in Thread : call'[s].pc # "idle" => QueryOK(s)'
    BY <1>1, <2>1, QueryLeft
  <2>3. \A x \in Handle : kind'[x] = "stmt" => builder'[x].query = prepared'[x]
    BY <1>1, <2>1 DEF Left
  <2> QED
    BY <2>2, <2>3 DEF QInv
<1>5. CASE Return(t)
  <2> DEFINE new == call[t].new
  <2>1. /\ \A x \in Handle : Left(x) /\ (x # new => kind'[x] = kind[x])
        /\ new # NoHandle => kind'[new] \in {"failed", call[t].method.makes}
        /\ call'[t].pc = "idle"
        /\ \A s \in Thread : s # t => call'[s] = call[s]
    BY <1>5, ReturnKeeps
  <2>2. call[t].pc # "idle" /\ QueryOK(t)
    BY <1>1, <1>5 DEF Return
  <2>3. \A s \in Thread : call'[s].pc # "idle" => QueryOK(s)'
    BY <1>1, <2>1, QueryLeft
  <2>4. ASSUME NEW x \in Handle, kind'[x] = "stmt"
        PROVE  builder'[x].query = prepared'[x]
    <3>1. CASE x # new
      BY <1>1, <2>1, <2>4, <3>1 DEF Left
    <3>2. CASE x = new
      BY <2>1, <2>2, <2>4, <3>2, HandleAssumption DEF QueryOK, Left
    <3> QED
      BY <3>1, <3>2
  <2> QED
    BY <2>3, <2>4 DEF QInv
<1> QED
  BY <1>2, <1>3, <1>4, <1>5 DEF Calls

LEMMA TransactionLeft ==
  ASSUME IInv, \A h \in Handle : kind[h] # "absent" => Left(h),
         NEW s \in Thread, call[s].pc # "idle", TransactionOK(s),
         call'[s].method = call[s].method, call'[s].on = call[s].on,
         call'[s].new = call[s].new, call'[s].fields = call[s].fields
  PROVE  TransactionOK(s)'
<1> DEFINE c == call[s]
<1>1. /\ c.on \in Handle /\ kind[c.on] # "absent"
      /\ c.method.makes # "nothing" => c.new \in Handle /\ kind[c.new] # "absent"
  BY BusyFacts DEF HandleKind
<1>2. Left(c.on) /\ (c.method.makes # "nothing" => Left(c.new))
  BY <1>1
<1> QED
  BY <1>2 DEF TransactionOK, Left, IdsOf

\* A handle stays in its transaction as long as the kinds that matter stay.
LEMMA InTransactionLeft ==
  ASSUME NEW h \in Handle, InTransaction(h), Left(h), madeOn[h] \subseteq Handle,
         kind'[h] = kind[h],
         \A x \in madeOn[h] : x # h => kind'[x] = kind[x]
  PROVE  InTransaction(h)'
<1>1. IdsOf(h)' = IdsOf(h) /\ madeOn'[h] = madeOn[h]
  BY DEF Left, IdsOf
<1> QED
  BY <1>1 DEF InTransaction

LEMMA UseTransactions ==
  ASSUME IInv, TInv, NEW t \in Thread, NEW m, Shape(m), NEW h \in Handle,
         NEW q \in Query \cup {NoQuery}, Use(t, m, h, q)
  PROVE  TInv'
<1>1. /\ Entered(t, m, h, NoHandle) /\ m.makes = "nothing"
      /\ call'[t].fields.ids = IdsOf(h)
  BY UseFacts
<1>2. UNCHANGED <<kind, builder, madeOn, prepared, adopted>>
  BY DEF Use
<1>3. \A x \in Handle : Left(x) /\ IdsOf(x)' = IdsOf(x)
  BY <1>2 DEF Left, IdsOf
<1>4. TransactionOK(t)'
  BY <1>1, <1>2 DEF TransactionOK, Entered, IdsOf
<1>5. ASSUME NEW s \in Thread, s # t, call'[s].pc # "idle" PROVE TransactionOK(s)'
  BY <1>1, <1>3, <1>5, TransactionLeft DEF Entered, TInv
<1>6. \A x \in Handle : kind'[x] # "absent" => InTransaction(x)'
  BY <1>2, <1>3 DEF TInv, InTransaction
<1> QED
  BY <1>4, <1>5, <1>6 DEF TInv

LEMMA MakeTransactions ==
  ASSUME IInv, TInv, NEW t \in Thread, NEW m, Shape(m), KeepsTransaction(m), NEW h \in Handle,
         NEW new \in Handle, NEW src \in Handle, NEW q \in Query \cup {NoQuery},
         Make(t, m, h, new, src, q)
  PROVE  TInv'
<1> DEFINE ids == IdsOf(h)
           tx == ids["tx"]
<1>1. call[t].pc = "idle" /\ m.clones = "receiver"
  BY DEF Make, KeepsTransaction
<1>2. /\ m.makes # "nothing" /\ kind[h] = m.on /\ kind[new] = "absent"
      /\ Entered(t, m, h, new)
      /\ builder'[new].ids = With(ids, m, new)
  BY <1>1, MakeFacts
<1>3. \A x \in Handle : x # new => Left(x) /\ kind'[x] = kind[x]
  BY <1>1, MakeKeeps
<1>4. kind'[new] = "making" /\ madeOn'[new] = madeOn[h] \cup {new}
  BY DEF Make, IInv, TypeOK
<1>5. /\ \A x \in Handle : madeOn[x] \subseteq Handle
      /\ ids \in [IdKind -> Handle \cup {NoHandle}]
      /\ HandleOK(h)
  BY DEF IInv, TypeOK, Fields, IdsOf
<1>6. m.on \in {"db", "conn", "tx"} /\ h # new
  BY <1>2 DEF Shape, Method
<1>7. InTransaction(h)
  BY <1>2, <1>6 DEF TInv
<1>8. IdsOf(new)' = With(ids, m, new)
  BY <1>2 DEF IdsOf
<1> HIDE DEF ids
<1>9. \A x \in madeOn[h] :
        /\ x # new /\ kind'[x] = kind[x]
        /\ kind[x] \in {"db", "conn", "tx"}
        /\ kind[x] = "tx" => x = tx
  BY <1>2, <1>3, <1>5, <1>6, <1>7 DEF InTransaction, ids
<1>10. tx # NoHandle => tx \in madeOn[h] /\ kind[tx] = "tx"
  BY <1>2, <1>5, <1>6, <1>7 DEF InTransaction, ids
<1>11. ASSUME m.makes = "tx" PROVE InTransaction(new)' /\ TransactionOK(t)'
  <2>1. m.names /\ IdKindOf(m.makes) = "tx"
    BY <1>11 DEF Shape, IdKindOf
  <2>2. IdsOf(new)'["tx"] = new
    BY <1>5, <1>8, <2>1 DEF With, IdKind
  <2>3. tx = NoHandle
    BY <1>2, <1>5, <1>11 DEF Shape, HandleOK, Slots, HandleKind, ids
  <2>4. \A x \in madeOn[h] : kind[x] # "tx"
    BY <1>5, <1>9, <2>3, HandleAssumption
  <2> QED
    <3>1. InTransaction(new)'
      BY <1>4, <1>9, <2>2, <2>4 DEF InTransaction
    <3>2. TransactionOK(t)'
      BY <1>2, <1>11, <2>2 DEF TransactionOK, Entered
    <3> QED
      BY <3>1, <3>2
<1>12. ASSUME m.makes # "tx" PROVE InTransaction(new)' /\ TransactionOK(t)'
  <2>1. IdsOf(new)'["tx"] = tx
    <3>1. IdKindOf(m.makes) # "tx"
      BY <1>12 DEF IdKindOf
    <3> QED
      BY <1>5, <1>8, <3>1 DEF With, IdKind
  <2>2. tx # new
    BY <1>2, <1>10, HandleAssumption
  <2>3. InTransaction(new)'
    BY <1>4, <1>9, <1>10, <2>1, <2>2 DEF InTransaction
  <2>4. TransactionOK(t)'
    BY <1>2, <1>12, <2>1, <2>2 DEF TransactionOK, Entered
  <2> QED
    BY <2>3, <2>4
<1>13. ASSUME NEW s \in Thread, s # t, call'[s].pc # "idle" PROVE TransactionOK(s)'
  BY <1>2, <1>3, <1>13, TransactionLeft DEF Entered, TInv
<1>14. ASSUME NEW x \in Handle, x # new, kind'[x] # "absent" PROVE InTransaction(x)'
  <2>1. InTransaction(x) /\ kind[x] # "absent"
    BY <1>3, <1>14 DEF TInv
  <2>2. \A y \in madeOn[x] : y # x => kind'[y] = kind[y]
    BY <1>2, <1>3, <1>5, <2>1 DEF InTransaction
  <2> QED
    BY <1>3, <1>5, <1>14, <2>1, <2>2, InTransactionLeft
<1> QED
  BY <1>11, <1>12, <1>13, <1>14 DEF TInv

LEMMA ReturnTransactions ==
  ASSUME IInv, TInv, NEW t \in Thread, Return(t)
  PROVE  TInv'
<1> DEFINE new == call[t].new
           makes == call[t].method.makes
<1>1. /\ \A x \in Handle : Left(x) /\ (x # new => kind'[x] = kind[x])
      /\ new # NoHandle =>
           /\ new \in Handle /\ kind[new] = "making" /\ makes # "nothing"
           /\ kind'[new] \in {"failed", makes}
      /\ call'[t].pc = "idle"
      /\ \A s \in Thread : s # t => call'[s] = call[s]
  BY ReturnKeeps
<1>2. call[t].pc # "idle" /\ TransactionOK(t)
  BY DEF Return, TInv
<1>3. \A x \in Handle : madeOn[x] \subseteq Handle /\ IdsOf(x)' = IdsOf(x) /\ madeOn'[x] = madeOn[x]
  BY <1>1 DEF IInv, TypeOK, Left, IdsOf
<1>4. ASSUME NEW x \in Handle, kind'[x] # "absent" PROVE InTransaction(x)'
  <2>1. CASE x # new
    <3>1. InTransaction(x)
      BY <1>1, <1>4, <2>1 DEF TInv
    <3>2. \A y \in madeOn[x] : y # x => kind'[y] = kind[y]
      BY <1>1, <1>3, <3>1, HandleAssumption DEF InTransaction
    <3> QED
      BY <1>1, <1>3, <2>1, <3>1, <3>2, InTransactionLeft
  <2>2. CASE x = new
    <3>1. /\ InTransaction(x) /\ kind[x] = "making" /\ makes # "nothing"
          /\ kind'[x] \in {"failed", makes}
      BY <1>1, <2>2, HandleAssumption DEF TInv
    <3>2. makes = "tx" <=> IdsOf(x)["tx"] = x
      BY <1>2, <2>2, <3>1 DEF TransactionOK
    <3> HIDE DEF new, makes
    <3>3. \A y \in madeOn[x] : y # x => kind'[y] = kind[y] /\ kind[y] \in {"db", "conn", "tx"}
      BY <1>1, <1>3, <2>2, <3>1 DEF InTransaction
    <3>4. IdsOf(x)["tx"] # NoHandle =>
            /\ IdsOf(x)["tx"] \in madeOn[x]
            /\ IdsOf(x)["tx"] = x \/ kind'[IdsOf(x)["tx"]] = "tx"
      BY <3>1, <3>3 DEF InTransaction
    <3> QED
      BY <1>3, <3>1, <3>2, <3>3, <3>4 DEF InTransaction
  <2> QED
    BY <2>1, <2>2
<1>5. \A s \in Thread : call'[s].pc # "idle" => TransactionOK(s)'
  BY <1>1, TransactionLeft DEF TInv
<1> QED
  BY <1>4, <1>5 DEF TInv

LEMMA TransactionsKeep ==
  ASSUME IInv, TInv, NEW methods, \A m \in methods : Shape(m) /\ KeepsTransaction(m),
         NEW t \in Thread, Calls(t, methods)
  PROVE  TInv'
<1>1. CASE \E m \in methods, h \in Handle, q \in Query \cup {NoQuery} : Use(t, m, h, q)
  BY <1>1, UseTransactions
<1>2. CASE \E m \in methods, h \in Handle, q \in Query \cup {NoQuery}, new, src \in Handle :
             Make(t, m, h, new, src, q)
  BY <1>2, MakeTransactions
<1>3. CASE Database(t) \/ SentByParent(t) \/ Report(t)
  <2>1. /\ \A x \in Handle : Left(x) /\ kind'[x] = kind[x]
        /\ call[t].pc # "idle"
        /\ call'[t].method = call[t].method /\ call'[t].on = call[t].on
        /\ call'[t].new = call[t].new /\ call'[t].fields = call[t].fields
        /\ \A s \in Thread : s # t => call'[s] = call[s]
    BY <1>3, DatabaseKeeps
  <2>2. \A s \in Thread : call'[s].pc # "idle" => TransactionOK(s)'
    BY <2>1, TransactionLeft DEF TInv
  <2>3. \A x \in Handle : kind'[x] # "absent" => InTransaction(x)'
    BY <2>1, InTransactionLeft DEF TInv, IInv, TypeOK
  <2> QED
    BY <2>2, <2>3 DEF TInv
<1> QED
  BY <1>1, <1>2, <1>3, ReturnTransactions DEF Calls

-------------------------------------------------------------------------------
(* What the invariants say of the reports.                                 *)

LEMMA Reports ==
  ASSUME IInv
  PROVE  TypeOK /\ ReportNamesHandles
BY DEF IInv, ReportOK, ReportNamesHandles, NamesOf

LEMMA ReportsOfQueries ==
  ASSUME IInv, QInv
  PROVE  ReportNamesQuery
BY BusyFacts DEF QInv, QueryOK, ReportNamesQuery

LEMMA ReportsOfTransactions ==
  ASSUME IInv, TInv
  PROVE  ReportNamesTransaction
<1> SUFFICES ASSUME NEW t \in Thread, call[t].pc = "sent", call[t].method.makes = "nothing"
             PROVE  call[t].fields.ids["tx"] = TransactionOf(call[t].on)
  BY DEF ReportNamesTransaction
<1> DEFINE h == call[t].on
           tx == IdsOf(h)["tx"]
           txs == {x \in madeOn[h] : kind[x] = "tx"}
<1>1. h \in Handle /\ kind[h] \in HandleKind
  BY BusyFacts
<1>2. InTransaction(h) /\ call[t].fields.ids["tx"] = tx
  BY <1>1 DEF TInv, TransactionOK, HandleKind
<1>3. TransactionOf(h) = IF txs = {} THEN NoHandle ELSE CHOOSE x \in txs : TRUE
  BY DEF TransactionOf
<1>4. CASE txs = {}
  <2>1. tx = NoHandle
    BY <1>1, <1>2, <1>4 DEF InTransaction, HandleKind
  <2> QED
    BY <1>2, <1>3, <1>4, <2>1
<1>5. CASE txs # {}
  <2>1. \A x \in txs : x = tx
    BY <1>2 DEF InTransaction
  <2>2. (CHOOSE x \in txs : TRUE) \in txs
    BY <1>5
  <2> HIDE DEF txs, tx
  <2> QED
    BY <1>2, <1>3, <1>5, <2>1, <2>2
<1> QED
  BY <1>4, <1>5

-------------------------------------------------------------------------------
(* The methods of the two wrappers.                                        *)

Sql == INSTANCE SqlCalls
Sqlx == INSTANCE SqlxCalls

\* How two methods are the same but for their receivers.
Alike(x, m) ==
  /\ x \in Method
  /\ x.makes = m.makes /\ x.adopts = m.adopts /\ x.clones = m.clones
  /\ x.names = m.names /\ x.keeps = m.keeps /\ x.query = m.query

LEMMA PlainFacts ==
  /\ Plain \in Method
  /\ Plain.on = "db" /\ Plain.makes = "nothing" /\ Plain.adopts = "nothing"
  /\ Plain.clones = "receiver" /\ Plain.names = FALSE /\ Plain.keeps = FALSE
  /\ Plain.query = FALSE
BY DEF Method, HandleKind, Plain

LEMMA ExecFacts ==
  /\ Exec \in Method /\ Exec.on = "db" /\ Exec.makes = "nothing"
  /\ Exec.adopts = "nothing" /\ Exec.clones = "receiver" /\ Exec.names = FALSE
  /\ Exec.keeps = FALSE
BY PlainFacts DEF Method, Exec

LEMMA BeginFacts ==
  /\ Begin \in Method /\ Begin.on = "db" /\ Begin.makes = "tx"
  /\ Begin.adopts = "nothing" /\ Begin.clones = "receiver" /\ Begin.names = TRUE
  /\ Begin.query = FALSE
BY PlainFacts DEF Method, Begin

LEMMA PrepareFacts ==
  /\ Prepare \in Method /\ Prepare.on = "db" /\ Prepare.makes = "stmt"
  /\ Prepare.adopts = "nothing" /\ Prepare.clones = "receiver" /\ Prepare.names = TRUE
  /\ Prepare.keeps = TRUE
BY PlainFacts DEF Method, Prepare

LEMMA FailsFacts ==
  ASSUME NEW m \in Method, NEW f \in {"returned", "later", "panics", "never"}
  PROVE  Alike([m EXCEPT !.fails = f], m) /\ [m EXCEPT !.fails = f].on = m.on
BY DEF Method, Alike

LEMMA BothAlike ==
  ASSUME NEW m \in Method
  PROVE  /\ \A x \in Both(m) : Alike(x, m) /\ x.on = m.on
         /\ \A x \in Traced(m) : Alike(x, m) /\ x.on = m.on
BY DEF Both, Traced, Method, Alike

LEMMA OnAlike ==
  ASSUME NEW r \in HandleKind, NEW S, \A m \in S : m \in Method, NEW x \in On(r, S)
  PROVE  x.on = r /\ \E m \in S : Alike(x, m)
<1>1. PICK m \in S : x = [m EXCEPT !.on = r]
  BY DEF On
<1>2. x.on = r /\ Alike(x, m)
  BY <1>1 DEF Method, Alike
<1> QED
  BY <1>2

\* A method that makes no handle.
Uses(m) ==
  /\ m \in Method /\ m.makes = "nothing" /\ m.adopts = "nothing"
  /\ m.clones = "receiver" /\ m.names = FALSE

LEMMA UsesShape ==
  ASSUME NEW m, Uses(m)
  PROVE  /\ Shape(m) /\ KeepsTransaction(m)
         /\ ~(m.on = "stmt" /\ m.query) => KeepsQuery(m)
BY DEF Uses, Shape, KeepsTransaction, KeepsQuery

LEMMA UsesAlike ==
  ASSUME NEW m, Uses(m), NEW x, Alike(x, m)
  PROVE  Uses(x)
BY DEF Uses, Alike

LEMMA UsesOn ==
  ASSUME NEW r \in HandleKind, NEW S, \A m \in S : Uses(m), NEW x \in On(r, S)
  PROVE  Uses(x) /\ x.on = r /\ \E m \in S : x.query = m.query
<1>1. \A m \in S : m \in Method
  BY DEF Uses
<1>2. PICK m \in S : Alike(x, m) /\ x.on = r
  BY <1>1, OnAlike
<1> QED
  BY <1>2, UsesAlike DEF Alike

\* Methods that make no handle, before they are given to a receiver.
Row == [Plain EXCEPT !.fails = "later"]
Early == [Plain EXCEPT !.early = TRUE]
Never(m) == [m EXCEPT !.fails = "never"]
Panicking(m) == [m EXCEPT !.fails = "panics"]
NoQueryBase == Both(Plain) \cup Both(Row) \cup {Plain} \cup Traced(Plain) \cup {Never(Plain), Early}
               \cup Both(Panicking(Plain))
Base == NoQueryBase \cup Both(Exec) \cup Both(QueryRow) \cup {Exec} \cup Traced(Exec)
        \cup Traced(QueryRow) \cup Both(Panicking(Exec)) \cup Both(Never(Exec))
        \cup {[QueryRow EXCEPT !.context = TRUE]}

LEMMA BaseUses ==
  /\ \A m \in Base : Uses(m)
  /\ \A m \in NoQueryBase : m.query = FALSE /\ m.on = "db"
  /\ \A m \in Base : m.on = "db"
<1>1. Uses(Plain) /\ Uses(Exec)
  BY PlainFacts, ExecFacts DEF Uses
<1>2. /\ Uses(Row) /\ Row.query = FALSE /\ Row.on = "db"
      /\ Uses(Early) /\ Early.query = FALSE /\ Early.on = "db"
  <2>1. Uses(Row) /\ Row.query = FALSE /\ Row.on = "db"
    BY <1>1, FailsFacts, UsesAlike, PlainFacts DEF Row, Alike
  <2>2. Uses(Early) /\ Early.query = FALSE /\ Early.on = "db"
    BY PlainFacts DEF Early, Uses, Method
  <2> QED
    BY <2>1, <2>2
<1>3. ASSUME NEW m, Uses(m)
      PROVE  /\ Uses(Never(m)) /\ Uses(Panicking(m))
             /\ Never(m).query = m.query /\ Panicking(m).query = m.query
             /\ Never(m).on = m.on /\ Panicking(m).on = m.on
  <2>1. m \in Method
    BY <1>3 DEF Uses
  <2>2. /\ Alike(Never(m), m) /\ Never(m).on = m.on
        /\ Alike(Panicking(m), m) /\ Panicking(m).on = m.on
    BY <2>1, FailsFacts DEF Never, Panicking
  <2> QED
    BY <1>3, <2>2, UsesAlike DEF Alike
<1>4. Uses(QueryRow) /\ QueryRow.on = "db"
  BY <1>1, FailsFacts, UsesAlike, ExecFacts DEF QueryRow, Alike
<1>5. ASSUME NEW m, Uses(m), NEW x \in Both(m) \cup Traced(m)
      PROVE  Uses(x) /\ x.query = m.query /\ x.on = m.on
  BY <1>5, BothAlike, UsesAlike DEF Uses, Alike
<1>6. LET q == [QueryRow EXCEPT !.context = TRUE] IN Uses(q) /\ q.on = "db"
  BY <1>4 DEF Uses, Method
<1>7. Never(Plain).on = "db" /\ Never(Exec).on = "db" /\ Panicking(Plain).on = "db"
      /\ Panicking(Exec).on = "db" /\ Never(Plain).query = FALSE /\ Panicking(Plain).query = FALSE
  BY <1>1, <1>3, PlainFacts, ExecFacts
<1>8. \A m \in NoQueryBase : Uses(m) /\ m.query = FALSE /\ m.on = "db"
  BY <1>1, <1>2, <1>3, <1>5, <1>7, PlainFacts DEF NoQueryBase
<1>9. ASSUME NEW m \in Base PROVE Uses(m) /\ m.on = "db"
  <2> DEFINE N == {Exec, QueryRow, Panicking(Exec), Never(Exec)}
             q == [QueryRow EXCEPT !.context = TRUE]
  <2>1. \A n \in N : Uses(n) /\ n.on = "db"
    BY <1>1, <1>3, <1>4, <1>7, ExecFacts
  <2>2. \/ m \in NoQueryBase \/ m = Exec \/ m = q
        \/ \E n \in N : m \in Both(n) \cup Traced(n)
    BY DEF Base
  <2> HIDE DEF N, q
  <2>3. CASE \E n \in N : m \in Both(n) \cup Traced(n)
    BY <2>1, <2>3, <1>5
  <2>4. Uses(q) /\ q.on = "db"
    BY <1>6 DEF q
  <2> QED
    BY <2>2, <2>3, <2>4, <1>1, <1>8, ExecFacts
<1> QED
  BY <1>8, <1>9

LEMMA SqlSame ==
  /\ Sql!Plain = Plain /\ Sql!Exec = Exec /\ Sql!Begin = Begin
  /\ Sql!Prepare = Prepare /\ Sql!QueryRow = QueryRow
  /\ \A m : Sql!Both(m) = Both(m) /\ Sql!Traced(m) = Traced(m)
  /\ \A r, S : Sql!On(r, S) = On(r, S)
BY DEF Sql!Plain, Sql!Exec, Sql!Begin, Sql!Prepare, Sql!QueryRow, Sql!Both, Sql!Traced,
       Sql!On, Plain, Exec, Begin, Prepare, QueryRow, Both, Traced, On

LEMMA BeginShape ==
  ASSUME NEW x, Alike(x, Begin), x.on \in {"db", "conn"}
  PROVE  Shape(x) /\ KeepsQuery(x) /\ KeepsTransaction(x)
BY BeginFacts DEF Alike, Shape, KeepsQuery, KeepsTransaction

LEMMA PrepareShape ==
  ASSUME NEW x, Alike(x, Prepare), x.on \in {"db", "conn", "tx"}
  PROVE  Shape(x) /\ KeepsQuery(x) /\ KeepsTransaction(x)
BY PrepareFacts DEF Alike, Shape, KeepsQuery, KeepsTransaction

LEMMA OnBoth ==
  ASSUME NEW r \in HandleKind, NEW m \in Method, NEW x \in On(r, Both(m) \cup Traced(m))
  PROVE  Alike(x, m) /\ x.on = r
<1>1. \A y \in Both(m) \cup Traced(m) : Alike(y, m) /\ y \in Method
  BY BothAlike DEF Alike
<1>2. PICK y \in Both(m) \cup Traced(m) : x.on = r /\ Alike(x, y)
  BY <1>1, OnAlike
<1> QED
  BY <1>1, <1>2 DEF Alike

LEMMA OnSubset ==
  ASSUME NEW r, NEW S, NEW T, S \subseteq T
  PROVE  On(r, S) \subseteq On(r, T)
BY DEF On

LEMMA UsesOnBase ==
  ASSUME NEW r \in HandleKind, NEW x \in On(r, Base), r # "stmt" \/ x \in On(r, NoQueryBase)
  PROVE  Shape(x) /\ KeepsQuery(x) /\ KeepsTransaction(x)
<1>1. Uses(x) /\ x.on = r
  BY BaseUses, UsesOn
<1>2. r = "stmt" => x.query = FALSE
  <2> SUFFICES ASSUME r = "stmt" PROVE x.query = FALSE
    OBVIOUS
  <2>1. \A m \in NoQueryBase : Uses(m) /\ m.query = FALSE
    BY BaseUses DEF Base
  <2> QED
    BY <2>1, UsesOn
<1> QED
  BY <1>1, <1>2, UsesShape

\* The methods of the database/sql wrapper.
LEMMA SqlShape == \A m \in Sql!SqlMethod : Shape(m) /\ KeepsQuery(m)
<1> DEFINE OK(m) == Shape(m) /\ KeepsQuery(m)
           C == [Plain EXCEPT !.makes = "conn", !.names = TRUE]
           A == [Plain EXCEPT !.makes = "stmt", !.adopts = "stmt",
                              !.clones = "argument", !.fails = "never"]
<1>1. /\ Sql!DBExec \cup Sql!DBPing \cup Sql!DBQuery \cup Sql!DBClose \subseteq Base
      /\ Sql!ConnExec \cup Sql!ConnQuery \subseteq On("conn", Base)
      /\ Sql!TxExec \cup Sql!TxQuery \cup Sql!TxRollback \subseteq On("tx", Base)
  <2>1. Sql!DBExec \cup Sql!DBPing \cup Sql!DBQuery \cup Sql!DBClose \subseteq Base
    BY SqlSame DEF Sql!DBExec, Sql!DBPing, Sql!DBQuery, Sql!DBClose, Base, NoQueryBase
  <2>2. Sql!ConnExec \subseteq On("conn", Base)
    BY SqlSame, OnSubset DEF Sql!ConnExec, Base, NoQueryBase
  <2>3. Sql!ConnQuery \subseteq On("conn", Base)
    BY SqlSame, OnSubset DEF Sql!ConnQuery, Base
  <2>4. Sql!TxExec \subseteq On("tx", Base)
    BY SqlSame, OnSubset DEF Sql!TxExec, Base, NoQueryBase
  <2>5. Sql!TxQuery \subseteq On("tx", Base)
    BY SqlSame, OnSubset DEF Sql!TxQuery, Base
  <2>6. Sql!TxRollback \subseteq On("tx", Base)
    BY SqlSame, OnSubset DEF Sql!TxRollback, Base, NoQueryBase
  <2> QED
    BY <2>1, <2>2, <2>3, <2>4, <2>5, <2>6
<1>2. Sql!StmtExec \cup Sql!StmtQuery \subseteq On("stmt", NoQueryBase)
  <2>1. Sql!StmtExec \subseteq On("stmt", NoQueryBase)
    BY SqlSame, OnSubset DEF Sql!StmtExec, NoQueryBase
  <2>2. Sql!StmtQuery \subseteq On("stmt", NoQueryBase)
    BY SqlSame, OnSubset DEF Sql!StmtQuery, NoQueryBase, Row
  <2> QED
    BY <2>1, <2>2
<1>3. \A m \in Base : OK(m)
  BY BaseUses, UsesShape
<1>4. \A m \in On("conn", Base) \cup On("tx", Base) \cup On("stmt", NoQueryBase) : OK(m)
  <2>1. On("stmt", NoQueryBase) \subseteq On("stmt", Base)
    BY OnSubset DEF Base
  <2> QED
    BY <2>1, UsesOnBase DEF HandleKind
<1>5. \A m \in Sql!DBBegin : OK(m)
  <2>1. /\ C \in Method /\ C.on = "db" /\ C.makes = "conn" /\ C.adopts = "nothing"
        /\ C.names = TRUE /\ C.clones = "receiver"
    BY PlainFacts DEF Method
  <2>2. Sql!DBBegin = Both(Begin) \cup Traced(C)
    BY SqlSame DEF Sql!DBBegin
  <2> HIDE DEF C
  <2>3. \A m \in Traced(C) : Alike(m, C) /\ m.on = "db"
    BY <2>1, BothAlike
  <2>4. \A m \in Traced(C) : OK(m)
    BY <2>1, <2>3 DEF Alike, Shape, KeepsQuery
  <2>5. \A m \in Both(Begin) : OK(m)
    BY BothAlike, BeginFacts, BeginShape
  <2> QED
    BY <2>2, <2>4, <2>5
<1>6. \A m \in Sql!DBPrepare : OK(m)
  BY SqlSame, BothAlike, PrepareFacts, PrepareShape DEF Sql!DBPrepare
<1>7. \A m \in Sql!ConnBegin : OK(m)
  <2>1. Sql!ConnBegin \subseteq On("conn", Both(Begin) \cup Traced(Begin))
    BY SqlSame, OnSubset DEF Sql!ConnBegin
  <2> QED
    BY <2>1, OnBoth, BeginFacts, BeginShape DEF HandleKind
<1>8. \A m \in Sql!ConnPrepare : OK(m)
  <2>1. Sql!ConnPrepare \subseteq On("conn", Both(Prepare) \cup Traced(Prepare))
    BY SqlSame, OnSubset DEF Sql!ConnPrepare
  <2> QED
    BY <2>1, OnBoth, PrepareFacts, PrepareShape DEF HandleKind
<1>9. \A m \in Sql!TxPrepare : OK(m)
  <2>1. Sql!TxPrepare \subseteq On("tx", Both(Prepare) \cup Traced(Prepare))
    BY SqlSame, OnSubset DEF Sql!TxPrepare
  <2> QED
    BY <2>1, OnBoth, PrepareFacts, PrepareShape DEF HandleKind
<1>10. \A m \in Sql!TxStmt : OK(m)
  <2>1. /\ A \in Method /\ A.makes = "stmt" /\ A.adopts = "stmt"
        /\ A.names = FALSE /\ A.keeps = FALSE /\ A.clones = "argument"
    BY PlainFacts DEF Method
  <2>2. Sql!TxStmt \subseteq On("tx", Both(A) \cup Traced(A))
    BY SqlSame, OnSubset DEF Sql!TxStmt
  <2> HIDE DEF A
  <2>3. \A m \in Sql!TxStmt : Alike(m, A) /\ m.on = "tx"
    BY <2>1, <2>2, OnBoth DEF HandleKind
  <2> QED
    BY <2>1, <2>3 DEF Alike, Shape, KeepsQuery
<1> HIDE DEF OK, A, C
<1> QED
  BY <1>1, <1>2, <1>3, <1>4, <1>5, <1>6, <1>7, <1>8, <1>9, <1>10 DEF Sql!SqlMethod, OK

LEMMA SqlxSame ==
  /\ Sqlx!Plain = Plain /\ Sqlx!Exec = Exec /\ Sqlx!Begin = Begin
  /\ Sqlx!Prepare = Prepare /\ Sqlx!QueryRow = QueryRow /\ Sqlx!Row = Row
  /\ \A m : Sqlx!Both(m) = Both(m) /\ Sqlx!Traced(m) = Traced(m)
  /\ \A m : Sqlx!Unfailing(m) = Never(m) /\ Sqlx!Must(m) = Panicking(m)
  /\ \A r, S : Sqlx!On(r, S) = On(r, S)
BY DEF Sqlx!Plain, Sqlx!Exec, Sqlx!Begin, Sqlx!Prepare, Sqlx!QueryRow, Sqlx!Row,
       Sqlx!Both, Sqlx!Traced, Sqlx!On, Sqlx!Unfailing, Sqlx!Must, Plain, Exec, Begin,
       Prepare, QueryRow, Row, Both, Traced, On, Never, Panicking

\* What makes a statement, with an ID of its own or as the transaction's.
StatementMaker(p) ==
  /\ p \in Method /\ p.makes \in {"stmt", "named"} /\ p.clones = "receiver"
  /\ p.names \/ p.adopts # "nothing"

LEMMA StatementShape ==
  ASSUME NEW p, StatementMaker(p), NEW r \in {"db", "conn", "tx"}
  PROVE  /\ \A x \in On(r, Both(p) \cup Traced(p)) : Shape(x) /\ KeepsTransaction(x)
         /\ \A x \in {p} \cup Both(p) \cup Traced(p) :
              x.on \in {"db", "conn", "tx"} => Shape(x) /\ KeepsTransaction(x)
<1>1. p \in Method /\ r \in HandleKind
  BY DEF StatementMaker, HandleKind
<1>2. Alike(p, p)
  BY <1>1 DEF Alike
<1>3. ASSUME NEW x, Alike(x, p), x.on \in {"db", "conn", "tx"}
      PROVE  Shape(x) /\ KeepsTransaction(x)
  BY <1>3 DEF StatementMaker, Alike, Shape, KeepsTransaction
<1>4. \A x \in On(r, Both(p) \cup Traced(p)) : Alike(x, p) /\ x.on = r
  BY <1>1, OnBoth
<1>5. \A x \in Both(p) \cup Traced(p) : Alike(x, p)
  BY <1>1, BothAlike
<1> QED
  BY <1>2, <1>3, <1>4, <1>5

LEMMA ForgetfulMaker ==
  ASSUME NEW m, StatementMaker(m)
  PROVE  StatementMaker(Sqlx!Forgetful(m)) /\ Sqlx!Forgetful(m).on = m.on
BY DEF StatementMaker, Sqlx!Forgetful, Method

\* The methods of the sqlx wrapper.
LEMMA SqlxShape == \A m \in Sqlx!SqlxMethod : Shape(m) /\ KeepsTransaction(m)
<1> DEFINE OK(m) == Shape(m) /\ KeepsTransaction(m)
           N == Sqlx!PrepareNamed
           F(m) == Sqlx!Forgetful(m)
           A == [Plain EXCEPT !.makes = "named", !.adopts = "named", !.fails = "never"]
           B == [Plain EXCEPT !.makes = "stmt", !.adopts = "stmt", !.names = TRUE,
                              !.fails = "never"]
<1>1. /\ StatementMaker(Prepare) /\ StatementMaker(N)
      /\ StatementMaker(A) /\ StatementMaker(B)
      /\ Prepare.on = "db" /\ N.on = "db"
  <2>1. StatementMaker(Prepare) /\ Prepare.on = "db"
    BY PrepareFacts DEF StatementMaker
  <2>2. StatementMaker(N) /\ N.on = "db"
    BY PrepareFacts, SqlxSame DEF StatementMaker, Sqlx!PrepareNamed, Method
  <2>3. StatementMaker(A)
    BY PlainFacts DEF StatementMaker, Method
  <2>4. StatementMaker(B)
    BY PlainFacts DEF StatementMaker, Method
  <2> QED
    BY <2>1, <2>2, <2>3, <2>4
<1>2. \A m \in {Prepare, N} : StatementMaker(F(m)) /\ F(m).on = "db"
  BY <1>1, ForgetfulMaker
<1> HIDE DEF N, F
<1>3. /\ Sqlx!DBBindNamed \cup Sqlx!DBExec \cup Sqlx!DBMapperFunc \cup Sqlx!DBNamed
           \cup Sqlx!DBQuery \cup Sqlx!DBSelect \cup Sqlx!DBClose \subseteq Base
  <2>1. Sqlx!DBBindNamed \cup Sqlx!DBExec \cup Sqlx!DBMapperFunc \subseteq Base
    BY SqlxSame DEF Sqlx!DBBindNamed, Sqlx!DBExec, Sqlx!DBMapperFunc, Base, NoQueryBase
  <2>2. Sqlx!DBNamed \cup Sqlx!DBQuery \subseteq Base
    BY SqlxSame DEF Sqlx!DBNamed, Sqlx!DBQuery, Base, NoQueryBase
  <2>3. Sqlx!DBSelect \cup Sqlx!DBClose \subseteq Base
    BY SqlxSame DEF Sqlx!DBSelect, Sqlx!DBClose, Base, NoQueryBase
  <2> QED
    BY <2>1, <2>2, <2>3
<1>4. /\ Sqlx!NamedExec \cup Sqlx!NamedMust \cup Sqlx!NamedQuery \subseteq On("named", Base)
      /\ Sqlx!StmtExec \cup Sqlx!StmtQuery \cup Sqlx!StmtClose \subseteq On("stmt", NoQueryBase)
  <2>1. Sqlx!NamedExec \subseteq On("named", Base)
    BY SqlxSame, OnSubset DEF Sqlx!NamedExec, Base, NoQueryBase
  <2>2. Sqlx!NamedMust \subseteq On("named", Base)
    BY SqlxSame, OnSubset DEF Sqlx!NamedMust, Base, NoQueryBase
  <2>3. Sqlx!NamedQuery \subseteq On("named", Base)
    BY SqlxSame, OnSubset DEF Sqlx!NamedQuery, Base, NoQueryBase
  <2>4. Sqlx!StmtExec \subseteq On("stmt", NoQueryBase)
    BY SqlxSame, OnSubset DEF Sqlx!StmtExec, NoQueryBase
  <2>5. Sqlx!StmtQuery \subseteq On("stmt", NoQueryBase)
    BY SqlxSame, OnSubset DEF Sqlx!StmtQuery, NoQueryBase
  <2>6. Sqlx!StmtClose \subseteq On("stmt", NoQueryBase)
    BY SqlxSame, OnSubset DEF Sqlx!StmtClose, NoQueryBase, Early
  <2> QED
    BY <2>1, <2>2, <2>3, <2>4, <2>5, <2>6
<1>5. Sqlx!TxExec \cup Sqlx!TxMust \cup Sqlx!TxNamed \cup Sqlx!TxQuery
        \cup Sqlx!TxRollback \cup Sqlx!TxSelect \cup Sqlx!TxUnsafe \subseteq On("tx", Base)
  <2>1. Sqlx!TxExec \subseteq On("tx", Base)
    BY SqlxSame, OnSubset DEF Sqlx!TxExec, Base, NoQueryBase
  <2>2. Sqlx!TxMust \subseteq On("tx", Base)
    BY SqlxSame, OnSubset DEF Sqlx!TxMust, Base
  <2>3. Sqlx!TxNamed \subseteq On("tx", Base)
    BY SqlxSame, OnSubset DEF Sqlx!TxNamed, Base
  <2>4. Sqlx!TxQuery \subseteq On("tx", Base)
    BY SqlxSame, OnSubset DEF Sqlx!TxQuery, Base
  <2>5. Sqlx!TxRollback \subseteq On("tx", Base)
    BY SqlxSame, OnSubset DEF Sqlx!TxRollback, Base, NoQueryBase
  <2>6. Sqlx!TxSelect \subseteq On("tx", Base)
    BY SqlxSame, OnSubset DEF Sqlx!TxSelect, Base
  <2>7. Sqlx!TxUnsafe \subseteq On("tx", Base)
    BY SqlxSame, OnSubset DEF Sqlx!TxUnsafe, Base, NoQueryBase
  <2> QED
    BY <2>1, <2>2, <2>3, <2>4, <2>5, <2>6, <2>7
<1>6. \A m \in Base : OK(m)
  BY BaseUses, UsesShape
<1>7. \A m \in On("named", Base) \cup On("tx", Base) \cup On("stmt", NoQueryBase) : OK(m)
  <2>1. On("stmt", NoQueryBase) \subseteq On("stmt", Base)
    BY OnSubset DEF Base
  <2> QED
    BY <2>1, UsesOnBase DEF HandleKind
<1>8. \A m \in Sqlx!DBBegin : OK(m)
  BY SqlxSame, BothAlike, BeginFacts, BeginShape DEF Sqlx!DBBegin
<1>9. \A m \in Sqlx!DBMust : OK(m)
  <2>1. Sqlx!DBMust = Both(Panicking(Begin)) \cup Both(Panicking(Exec))
    BY SqlxSame DEF Sqlx!DBMust
  <2>2. Both(Panicking(Exec)) \subseteq Base
    BY DEF Base
  <2>3. Alike(Panicking(Begin), Begin) /\ Panicking(Begin).on = "db"
    BY BeginFacts, FailsFacts DEF Panicking
  <2>4. \A m \in Both(Panicking(Begin)) : Alike(m, Begin) /\ m.on = "db"
    BY <2>3, BothAlike DEF Alike
  <2> QED
    BY <2>1, <2>2, <2>4, <1>6, BeginShape
<1>10. \A m \in Sqlx!DBPrepare : OK(m)
  <2>1. Sqlx!DBPrepare = {N} \cup Traced(F(N)) \cup Both(F(Prepare))
    BY SqlxSame DEF Sqlx!DBPrepare, N, F
  <2>2. \A m \in {N} : OK(m)
    BY <1>1, StatementShape
  <2>3. \A m \in Traced(F(N)) \cup Both(F(Prepare)) : m.on = "db"
    BY <1>2, BothAlike DEF StatementMaker
  <2>4. \A m \in Traced(F(N)) \cup Both(F(Prepare)) : OK(m)
    BY <1>2, <2>3, StatementShape
  <2> QED
    BY <2>1, <2>2, <2>4
<1>11. \A m \in Sqlx!TxNamedStmt \cup Sqlx!TxStmtx : OK(m)
  <2>1. /\ Sqlx!TxNamedStmt \subseteq On("tx", Both(A) \cup Traced(A))
        /\ Sqlx!TxStmtx \subseteq On("tx", Both(B) \cup Traced(B))
    BY SqlxSame, OnSubset DEF Sqlx!TxNamedStmt, Sqlx!TxStmtx
  <2> HIDE DEF A, B
  <2> QED
    BY <2>1, <1>1, StatementShape
<1>12. \A m \in Sqlx!TxPrepare : OK(m)
  <2>1. Sqlx!TxPrepare = On("tx", Both(N) \cup Both(Prepare))
    BY SqlxSame DEF Sqlx!TxPrepare, N
  <2>2. Sqlx!TxPrepare = On("tx", Both(N)) \cup On("tx", Both(Prepare))
    BY <2>1 DEF On
  <2>3. /\ On("tx", Both(N)) \subseteq On("tx", Both(N) \cup Traced(N))
        /\ On("tx", Both(Prepare)) \subseteq On("tx", Both(Prepare) \cup Traced(Prepare))
    BY OnSubset
  <2> QED
    BY <2>2, <2>3, <1>1, StatementShape
<1> HIDE DEF OK, A, B
<1> QED
  BY <1>3, <1>4, <1>5, <1>6, <1>7, <1>8, <1>9, <1>10, <1>11, <1>12
  DEF Sqlx!SqlxMethod, OK

-------------------------------------------------------------------------------
(* The theorems.  An instance has definitions of its own, which come to    *)
(* the same.                                                               *)

LEMMA SqlCallsSame ==
  /\ Sql!Init <=> Init
  /\ \A t, methods : Sql!Calls(t, methods) <=> Calls(t, methods)
<1>1. Sql!Init <=> Init
  BY DEF Sql!Init, Sql!Idle, Sql!NoFields, Sql!IdKind, Sql!Plain,
         Init, Idle, NoFields, IdKind, Plain
<1>2. \A t, methods : Sql!Calls(t, methods) <=> Calls(t, methods)
  BY DEF Sql!Calls, Sql!Use, Sql!Make, Sql!Database, Sql!SentByParent, Sql!Report, Sql!Return, Sql!Called,
         Sql!NewReport, Sql!Named, Sql!MadeFields, Sql!WithBuilder, Sql!Reported,
         Sql!Idle, Sql!NoFields, Sql!IdKind, Sql!IdKindOf, Sql!Plain,
         Calls, Use, Make, Database, SentByParent, Report, Return, Called, NewReport, Named,
         MadeFields, WithBuilder, Reported, Idle, NoFields, IdKind, IdKindOf, Plain
<1> QED
  BY <1>1, <1>2

LEMMA SqlxCallsSame ==
  /\ Sqlx!Init <=> Init
  /\ \A t, methods : Sqlx!Calls(t, methods) <=> Calls(t, methods)
<1>1. Sqlx!Init <=> Init
  BY DEF Sqlx!Init, Sqlx!Idle, Sqlx!NoFields, Sqlx!IdKind, Sqlx!Plain,
         Init, Idle, NoFields, IdKind, Plain
<1>2. \A t, methods : Sqlx!Calls(t, methods) <=> Calls(t, methods)
  BY DEF Sqlx!Calls, Sqlx!Use, Sqlx!Make, Sqlx!Database, Sqlx!SentByParent, Sqlx!Report, Sqlx!Return, Sqlx!Called,
         Sqlx!NewReport, Sqlx!Named, Sqlx!MadeFields, Sqlx!WithBuilder, Sqlx!Reported,
         Sqlx!Idle, Sqlx!NoFields, Sqlx!IdKind, Sqlx!IdKindOf, Sqlx!Plain,
         Calls, Use, Make, Database, SentByParent, Report, Return, Called, NewReport, Named,
         MadeFields, WithBuilder, Reported, Idle, NoFields, IdKind, IdKindOf, Plain
<1> QED
  BY <1>1, <1>2

LEMMA NothingKeeps ==
  ASSUME UNCHANGED vars
  PROVE  (IInv => IInv') /\ (QInv => QInv') /\ (TInv => TInv')
<1>1. \A h : IdsOf(h)' = IdsOf(h)
  BY DEF vars, IdsOf
<1>2. /\ \A h : HandleOK(h)' <=> HandleOK(h)
      /\ \A h : InTransaction(h)' <=> InTransaction(h)
  BY <1>1 DEF vars, HandleOK, InTransaction, NamesOf, Slots
<1>3. /\ \A t : CallOK(t)' <=> CallOK(t)
      /\ \A t : ReportOK(t)' <=> ReportOK(t)
      /\ \A t : QueryOK(t)' <=> QueryOK(t)
      /\ \A t : TransactionOK(t)' <=> TransactionOK(t)
  BY DEF vars, CallOK, ReportOK, QueryOK, TransactionOK, IdsOf, NamesOf, Slots, Subject
<1>4. TypeOK' <=> TypeOK
  BY DEF vars, TypeOK
<1> QED
  BY <1>2, <1>3, <1>4 DEF vars, IInv, QInv, TInv

LEMMA SqlInvariant == Sql!Spec => [](IInv /\ QInv)
<1>1. Sql!Init => IInv /\ QInv
  BY InitKeeps, SqlCallsSame
<1>2. IInv /\ QInv /\ [Sql!Next]_Sql!vars => (IInv /\ QInv)'
  <2> SUFFICES ASSUME IInv, QInv, [Sql!Next]_Sql!vars PROVE (IInv /\ QInv)'
    OBVIOUS
  <2>1. CASE Sql!Next
    <3>1. PICK t \in Thread : Calls(t, Sql!SqlMethod)
      BY <2>1, SqlCallsSame DEF Sql!Next
    <3> QED
      BY <3>1, SqlShape, CallsKeep, QueriesKeep
  <2>2. CASE UNCHANGED Sql!vars
    <3>1. UNCHANGED vars
      BY <2>2 DEF Sql!vars, vars
    <3> QED
      BY <3>1, NothingKeeps
  <2> QED
    BY <2>1, <2>2
<1> QED
  BY <1>1, <1>2, PTL DEF Sql!Spec

LEMMA SqlxInvariant == Sqlx!Spec => [](IInv /\ TInv)
<1>1. Sqlx!Init => IInv /\ TInv
  BY InitKeeps, SqlxCallsSame
<1>2. IInv /\ TInv /\ [Sqlx!Next]_Sqlx!vars => (IInv /\ TInv)'
  <2> SUFFICES ASSUME IInv, TInv, [Sqlx!Next]_Sqlx!vars PROVE (IInv /\ TInv)'
    OBVIOUS
  <2>1. CASE Sqlx!Next
    <3>1. PICK t \in Thread : Calls(t, Sqlx!SqlxMethod)
      BY <2>1, SqlxCallsSame DEF Sqlx!Next
    <3> QED
      BY <3>1, SqlxShape, CallsKeep, TransactionsKeep
  <2>2. CASE UNCHANGED Sqlx!vars
    <3>1. UNCHANGED vars
      BY <2>2 DEF Sqlx!vars, vars
    <3> QED
      BY <3>1, NothingKeeps
  <2> QED
    BY <2>1, <2>2
<1> QED
  BY <1>1, <1>2, PTL DEF Sqlx!Spec

\* Every reachable state of both wrappers is well typed, and a goroutine in a
\* call is at a handle of the kind its method is for.
THEOREM ReportsTyped == (Sql!Spec => []TypeOK) /\ (Sqlx!Spec => []TypeOK)
<1>1. IInv => TypeOK
  BY Reports
<1> QED
  BY <1>1, SqlInvariant, SqlxInvariant, PTL

\* A report of either wrapper carries the IDs of exactly the handles its subject
\* was made on, for any number of handles and goroutines.
THEOREM HandlesNamed ==
  (Sql!Spec => []ReportNamesHandles) /\ (Sqlx!Spec => []ReportNamesHandles)
<1>1. IInv => ReportNamesHandles
  BY Reports
<1> QED
  BY <1>1, SqlInvariant, SqlxInvariant, PTL

\* Of the database/sql wrapper: the report of a statement's use has the query
\* it was prepared with, also after a transaction took it over (Tx.Stmt).
THEOREM QueriesNamed == Sql!Spec => []ReportNamesQuery
<1>1. IInv /\ QInv => ReportNamesQuery
  BY ReportsOfQueries
<1> QED
  BY <1>1, SqlInvariant, PTL

\* Of the sqlx wrapper: the report of a call within a transaction carries the
\* ID of that transaction and of no other.
THEOREM TransactionsNamed == Sqlx!Spec => []ReportNamesTransaction
<1>1. IInv /\ TInv => ReportNamesTransaction
  BY ReportsOfTransactions
<1> QED
  BY <1>1, SqlxInvariant, PTL

===============================================================================
