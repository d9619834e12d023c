----------------------------- MODULE HeaderRelay ------------------------------
(***************************************************************************)
(* A trace on its way through processes that each read it in one header    *)
(* format and write it in another, with the functions of Propagation.  A   *)
(* process either relays the context it read, as a propagation hook may,   *)
(* or starts a trace of its own from it (trace.go, NewTrace).  The first   *)
(* header may come from a program that is no beeline.                      *)
(***************************************************************************)
EXTENDS Propagation

CONSTANTS
  ForeignHeader, \* the headers other programs may send
  NoHeader,
  MaxHops        \* bound: headers sent

-------------------------------------------------------------------------------
(* Headers.                                                                *)

Honeycomb(h) == [format |-> "honeycomb", header |-> h]
W3C(traceparent, state) ==
  [format |-> "w3c", header |-> [traceparent |-> traceparent, tracestate |-> state]]
B3(single, multiple) ==
  [format |-> "b3", header |-> [single |-> single, multiple |-> multiple]]
Amazon(h) == [format |-> "amazon", header |-> h]

Header ==
  [format: {"honeycomb"}, header: HoneycombHeader] \cup
  [format: {"w3c"}, header: [traceparent: TraceparentHeader, tracestate: Seq(Entry)]] \cup
  [format: {"b3"}, header: [single: B3SingleHeader, multiple: B3MultipleHeader]] \cup
  [format: {"amazon"}, header: AmazonHeader]

ASSUME HopsAssumption == MaxHops \in Nat

\* A B3 header is written in one form.
ASSUME ForeignAssumption ==
  \A w \in ForeignHeader :
    /\ w \in Header
    /\ w.format = "b3" =>
         w.header.single = NoB3Single \/ w.header.multiple = NoB3Multiple

ASSUME NoHeaderAssumption == NoHeader \notin Header

-------------------------------------------------------------------------------
VARIABLES
  wire,     \* the headers between two processes
  node,     \* what the current process has read, with its context.Context
  hops,     \* headers sent so far
  \* History: never read by a guard or by another variable.
  sender,   \* what the sender of the last header held
  came,     \* the format the node's context was read from, "none" if it was not
  id,       \* the ID of the trace
  fields,   \* the trace-level fields its first process had
  asText,   \* whether they have been in an Amazon header
  untouched \* the members of the trace state in the first header whose keys
            \* no process has entered or left

history == <<sender, came, id, fields, asText, untouched>>
vars == <<wire, node, hops, history>>

Format == {"honeycomb", "w3c", "b3", "amazon"}

Nothing == In(Background, Read(Empty))

Init ==
  /\ wire = NoHeader
  /\ node = Nothing
  /\ hops = 0
  /\ sender = Nothing
  /\ came = "none"
  /\ id = NoId
  /\ fields = NoFields
  /\ asText = FALSE
  /\ untouched = {}

-------------------------------------------------------------------------------
\* The headers a propagation hook makes of a context, in each format.
Marshal(format, n, keeps) ==
  CASE format = "honeycomb" -> Honeycomb(MarshalHoneycomb(n.prop, keeps))
    [] format = "w3c" -> W3C(MarshalW3C(n.prop), n.prop.state)
    [] format = "b3" -> B3(NoB3Single, MarshalB3(n.prop, n.ctx))
    [] format = "amazon" -> Amazon(MarshalAmazon(n.prop))

\* A panic takes the request with it: net/http recovers it for the connection.
Panics(w, keeps) == w.format = "honeycomb" /\ HoneycombPanics(w.header, keeps)

\* The context a parser hook makes of a header, in the request's own context.
Unmarshal(w, keeps) ==
  LET h == w.header IN
  CASE w.format = "honeycomb" -> In(Background, UnmarshalHoneycomb(h, keeps))
    [] w.format = "w3c" -> In(Background, UnmarshalW3C(h.traceparent, h.tracestate))
    [] w.format = "b3" -> UnmarshalB3(h.single, h.multiple, Background)
    [] w.format = "amazon" -> In(Background, UnmarshalAmazon(h))

\* The trace ID in the header of a program that is no beeline.
IdIn(w) ==
  CASE w.format \in {"honeycomb"} -> w.header.trace
    [] w.format = "w3c" -> w.header.traceparent.trace
    [] w.format = "b3" -> IF w.header.single.trace # NoId
                          THEN B3TraceID(w.header.single.trace)
                          ELSE B3TraceID(w.header.multiple.trace)
    [] w.format = "amazon" -> w.header.root

\* The members of its trace state, whatever else is there.
MembersIn(w) ==
  IF w.format = "w3c" THEN Member \cap Range(w.header.tracestate) ELSE {}

FieldsIn(w) ==
  CASE w.format = "honeycomb" -> w.header.context.fields
    [] w.format = "amazon" -> w.header.fields
    [] OTHER -> NoFields

-------------------------------------------------------------------------------
\* Seeded fault: a trace ID is made whatever was read.
ServiceContextFresh(prop, newTrace, newSpan, ds) ==
  [Empty EXCEPT !.trace = newTrace, !.parent = newSpan,
                !.dataset = IF prop.dataset = NoDataset THEN ds ELSE prop.dataset,
                !.fields = prop.fields, !.sampled = TRUE]

(* NewTrace and propagationContext: the context a span of a trace begun    *)
(* from prop hands on.  Neither the state nor the flags are of prop.       *)
ServiceContext(prop, newTrace, newSpan, ds) ==
  [Empty EXCEPT !.trace = IF prop.trace = NoId THEN newTrace ELSE prop.trace,
                !.parent = newSpan,
                !.dataset = IF prop.dataset = NoDataset THEN ds ELSE prop.dataset,
                !.fields = prop.fields,
                !.sampled = TRUE]

\* The first process starts a trace and adds fields to it.
Begin(t, s, ds, f) ==
  /\ hops = 0 /\ wire = NoHeader /\ node = Nothing
  /\ node' = In(Background, Read([ServiceContext(Empty, t, s, ds) EXCEPT !.fields = f]))
  /\ id' = t
  /\ fields' = f
  /\ UNCHANGED <<wire, hops, sender, came, asText, untouched>>

\* A header comes from elsewhere.
Foreign(w) ==
  /\ hops = 0 /\ wire = NoHeader /\ node = Nothing
  /\ wire' = w
  /\ hops' = 1
  /\ id' = IdIn(w)
  /\ fields' = FieldsIn(w)
  /\ asText' = (w.format = "amazon")
  /\ untouched' = MembersIn(w)
  /\ UNCHANGED <<node, sender, came>>

\* The process sends a header, in a format and with a configuration of its own.
Send(format, keeps) ==
  /\ wire = NoHeader /\ node # Nothing /\ ~node.err
  /\ hops < MaxHops
  /\ hops' = hops + 1
  /\ wire' = Marshal(format, node, keeps)
  /\ sender' = node
  /\ asText' = (asText \/ format = "amazon")
  /\ UNCHANGED <<node, came, id, fields, untouched>>

\* The next process reads it.
Receive(keeps) ==
  /\ wire # NoHeader /\ ~Panics(wire, keeps)
  /\ node' = Unmarshal(wire, keeps)
  /\ wire' = NoHeader
  /\ came' = wire.format
  /\ UNCHANGED <<hops, sender, id, fields, asText, untouched>>

\* It panics at it.
Panic(keeps) ==
  /\ wire # NoHeader /\ Panics(wire, keeps)
  /\ node' = In(Background, Refused)
  /\ wire' = NoHeader
  /\ came' = "panic"
  /\ UNCHANGED <<hops, sender, id, fields, asText, untouched>>

\* It starts a trace of what was read, whatever the error (common.go:68-82).
Continue(newTrace, newSpan, ds) ==
  /\ wire = NoHeader /\ came \in Format
  /\ node' = In(node.ctx, Read(ServiceContext(node.prop, newTrace, newSpan, ds)))
  /\ id' = IF node.prop.trace = NoId THEN newTrace ELSE id
  /\ came' = "none"
  /\ UNCHANGED <<wire, hops, sender, fields, asText, untouched>>

\* It enters itself in the trace state it has read, or tries to.
Enter(k, v) ==
  /\ wire = NoHeader /\ came = "w3c" /\ ~node.err
  /\ node' = [node EXCEPT !.prop.state = Insert(@, k, v)]
  /\ untouched' = {m \in untouched : m.key # k}
  /\ UNCHANGED <<wire, hops, sender, came, id, fields, asText>>

Leave(k) ==
  /\ wire = NoHeader /\ came = "w3c" /\ ~node.err
  /\ node' = [node EXCEPT !.prop.state = Delete(@, k)]
  /\ untouched' = {m \in untouched : m.key # k}
  /\ UNCHANGED <<wire, hops, sender, came, id, fields, asText>>

\* An Amazon load balancer on the way adds or replaces Self.
LoadBalance(self) ==
  /\ wire # NoHeader /\ wire.format = "amazon"
  /\ wire' = [wire EXCEPT !.header.self = self]
  /\ sender' = [sender EXCEPT !.prop.parent = self]
  /\ UNCHANGED <<node, hops, came, id, fields, asText, untouched>>

Next ==
  \/ \E t \in Hex32, s \in Hex16, ds \in Dataset, f \in Fields : Begin(t, s, ds, f)
  \/ \E w \in ForeignHeader : Foreign(w)
  \/ \E f \in Format, keeps \in BOOLEAN : Send(f, keeps)
  \/ \E keeps \in BOOLEAN : Receive(keeps) \/ Panic(keeps)
  \/ \E t \in Hex32, s \in Hex16, ds \in Dataset : Continue(t, s, ds)
  \/ \E k \in Key \cup {Malformed}, v \in Value \cup {Malformed} : Enter(k, v)
  \/ \E k \in Key : Leave(k)
  \/ \E s \in Other : LoadBalance(s)

Spec == Init /\ [][Next]_vars

-------------------------------------------------------------------------------
(* Properties.                                                             *)

\* A trace state conforms to the specification wherever it came from and
\* whatever was done to it, and the IDs read from a W3C or B3 header are as long
\* as those formats have them, however long they came (the comment on TraceState,
\* tracestate.go:76-81; UnmarshalW3CTraceContext, extractSingle, extractMultiple).
ReadsConform ==
  /\ node.prop \in Context /\ Conforms(node.prop.state)
  /\ came \in {"w3c", "b3"} =>
       node.prop.trace \in Hex32 \cup {NoId} /\ node.prop.parent \in Hex16 \cup {NoId}

\* Members of the trace state that no process has touched arrive together or not
\* at all: a list that is too long, has a key twice or has something else between
\* its commas is refused whole, never cut short, and a member that does not fit in
\* pushes no other out (ParseTraceState, Insert).
StateWhole == Range(node.prop.state) \cap untouched \in {{}, untouched}

\* A field that an Amazon header has under a name of the format.
Misnamed(n) == n \in FieldName /\ fields[n] # "none" /\ asText

\* Through any formats, a process reads the ID of the trace or none: it never
\* continues another trace, and a trace ID written short is read as written
\* long everywhere behind (the four unmarshal functions, NewTrace).  What is
\* excepted is a trace with a field called "root" that has been in an Amazon
\* header, where that is read for the ID.
OneTrace == node.prop.trace \in {id, NoId} \/ Misnamed("root")

\* Who reads a parent reads the sender of the header, or the load balancer
\* that came last, and with it the trace; a parent in a trace it is not of
\* would leave the new spans without a place, as NewTrace makes a trace ID
\* where there is none.  An Amazon header without a parent has the root for one.
\* What is excepted is a field called "parent" or "self" that has been in an
\* Amazon header, where it is read for the parent.
ParentIsSender ==
  /\ hasParentID(node.prop) => node.prop.trace # NoId
  /\ wire = NoHeader /\ came # "none" /\ sender # Nothing =>
       \/ node.prop.parent \in {sender.prop.parent, NoId}
       \/ sender.prop.parent = NoId /\ node.prop.parent = node.prop.trace
       \/ came = "amazon" /\ (Misnamed("parent") \/ Misnamed("self"))

Decision(n) ==
  IF n.ctx.debug THEN "debug" ELSE IF n.ctx.deferred THEN "deferred"
  ELSE IF n.prop.sampled THEN "accept" ELSE "deny"

\* The B3 headers carry each of their four decisions to the next process, also
\* those that have no bit in the context; so do the W3C headers with the two
\* they know (MarshalB3TraceContext, withDebug, withDeferred).
SamplingKept ==
  sender # Nothing /\ ~node.err =>
    /\ came = "b3" => Decision(node) = Decision(sender)
    /\ came = "w3c" => node.prop.sampled = sender.prop.sampled

\* Fields keep their values, but for what JSON makes of whole numbers and an
\* Amazon header of everything; unless one has been in an Amazon header, they
\* arrive together or not at all (MarshalHoneycombTraceContext).
FieldsKept ==
  /\ \A n \in FieldName :
       node.prop.fields[n] \in {"none", fields[n], JSON(fields[n])}
         \cup (IF asText THEN {Text(fields[n])} ELSE {})
  /\ ~asText /\ node.prop.fields # NoFields =>
       \A n \in FieldName : node.prop.fields[n] = "none" <=> fields[n] = "none"

-------------------------------------------------------------------------------
(* What comments say and the code does not do: TLC finds each violated.    *)

\* No exception: the downstream service uses the header "to start a new trace
\* using the same trace ID" (trace/doc.go, Span.headersForSpan).
SameTrace == node.prop.trace \in {id, NoId}

\* "If the header cannot be used to construct a PropagationContext with a trace
\* id and parent id, an error will be returned" (UnmarshalHoneycombTraceContext).
HoneycombReadsIds ==
  came = "honeycomb" /\ ~node.err => node.prop.trace # NoId /\ node.prop.parent # NoId

\* Of the same comment: an error is what such a header is answered with.
HoneycombAnswers == came # "panic"

\* "If the headers contain neither a trace id or parent id, an error will be
\* returned" (UnmarshalB3TraceContext).
B3ReadsIds ==
  came = "b3" /\ ~node.err => node.prop.trace # NoId \/ node.prop.parent # NoId
===============================================================================
