----------------------------- MODULE Propagation ------------------------------
(***************************************************************************)
(* The headers that carry a trace from one process to the next, package    *)
(* propagation: for each of the Honeycomb, W3C, B3 and Amazon formats what *)
(* is written of a propagation context, and what context, with or without  *)
(* an error, is read from a header that may come from anybody.             *)
(*                                                                         *)
(* An ID is a value; the formats ask of it only what it is made of.  A     *)
(* field is the kind of its value: text, a whole number, another number,   *)
(* or something that JSON cannot encode (a function, a channel).  A nil    *)
(* context is Empty: both make NewTrace start afresh (trace.go:72-85).     *)
(* Texts hold none of the delimiters of the format that carries them, and  *)
(* headers are not cut off within an ID.                                   *)
(***************************************************************************)
EXTENDS Naturals, Sequences, TraceState

CONSTANTS
  Hex32,      \* IDs of 32 hexadecimal digits, some of them not 0
  Hex16,      \* IDs of 16 hexadecimal digits, some of them not 0
  Other,      \* other IDs; what a field makes of one is among them
  Zero32, Zero16, \* IDs that are all 0
  NoId,       \* the empty string
  Padded,     \* the IDs of Hex16 with sixteen zeros in front
  Dataset, NoDataset,
  FieldName   \* names of trace-level fields, in lower case

ASSUME PaddedAssumption == Padded \in [Hex16 -> Hex32]

\* An ID is of one make.
ASSUME IdAssumption ==
  /\ Hex32 \cap (Hex16 \cup Other) = {} /\ Hex16 \cap Other = {}
  /\ {Zero32, Zero16, NoId} \cap (Hex32 \cup Hex16 \cup Other) = {}
  /\ Zero32 # Zero16 /\ Zero32 # NoId /\ Zero16 # NoId

\* Some ID is of no make that a format asks for, such as "web".
ASSUME OtherAssumption == Other # {}

Id == Hex32 \cup Hex16 \cup Other \cup {Zero32, Zero16, NoId}

\* The kinds of values; "none" is that of a field that is not there.
Kind == {"none", "text", "whole", "number", "opaque"}
Fields == [FieldName -> Kind]
NoFields == [n \in FieldName |-> "none"]

\* PropagationContext.  Of TraceFlags one bit is ever used.
Context == [trace: Id, parent: Id, dataset: Dataset \cup {NoDataset},
            fields: Fields, sampled: BOOLEAN, state: Seq(Member)]
Empty == [trace |-> NoId, parent |-> NoId, dataset |-> NoDataset,
          fields |-> NoFields, sampled |-> FALSE, state |-> <<>>]

hasTraceID(prop) == prop.trace \notin {NoId, Zero32}
hasParentID(prop) == prop.parent \notin {NoId, Zero16}
IsValid(prop) == hasTraceID(prop) /\ hasParentID(prop)

\* What an unmarshal function returns, without an error and with one.
Read(prop) == [prop |-> prop, err |-> FALSE]
Partial(prop) == [prop |-> prop, err |-> TRUE]
Refused == Partial(Empty)
\* The B3 functions return a context.Context as well.
In(ctx, result) == [prop |-> result.prop, err |-> result.err, ctx |-> ctx]

-------------------------------------------------------------------------------
(* Seeded faults: the definitions below with a plausible bug in them.      *)

\* Parent is preferred to Self.
AmazonParentFirst(h) == IF h.parent # NoId THEN h.parent ELSE h.self

\* X-B3-Sampled is written whatever the context says.
B3SamplingHeadersAlways(prop, ctx) ==
  [sampled |-> IF prop.sampled THEN "1" ELSE "0", flags |-> ""]

\* Fields that cannot be encoded are left out, the rest is sent.
HoneycombContextPicked(fields) ==
  [decodes |-> TRUE,
   fields |-> [n \in FieldName |-> IF fields[n] = "opaque" THEN "none" ELSE fields[n]]]

-------------------------------------------------------------------------------
(* Honeycomb: "1;trace_id=...,parent_id=...,dataset=...,context=...".      *)

\* cut: where something is missing, all that follows the version or the "=" of
\* the clause of an ID, of the dataset or of the context.
HoneycombHeader ==
  [version: Nat, cut: {"nowhere", "version", "id", "dataset", "context"},
   trace: Id, parent: Id, dataset: Dataset \cup {NoDataset},
   context: [decodes: BOOLEAN, fields: Fields]]

\* encoding/json: every number is read as a float64.
JSON(k) == IF k = "whole" THEN "number" ELSE k

\* "if we couldn't marshal the trace level fields, leave it blank"
HoneycombContext(fields) ==
  [decodes |-> TRUE,
   fields |-> IF \E n \in FieldName : fields[n] = "opaque" THEN NoFields
              ELSE [n \in FieldName |-> JSON(fields[n])]]

MarshalHoneycomb(prop, keeps) ==
  [version |-> 1, cut |-> "nowhere", trace |-> prop.trace, parent |-> prop.parent,
   dataset |-> IF keeps THEN prop.dataset ELSE NoDataset,
   context |-> HoneycombContext(prop.fields)]

\* What is missing is looked at all the same: an index out of range.
HoneycombPanics(h, keeps) ==
  h.version = 1 /\ h.cut \in {"version", "id", "context"} \cup IF keeps THEN {"dataset"} ELSE {}

UnmarshalHoneycomb(h, keeps) ==
  IF \/ h.version # 1
     \/ h.trace = NoId /\ h.parent # NoId
     \/ ~h.context.decodes
  THEN Refused
  ELSE Read([Empty EXCEPT !.trace = h.trace, !.parent = h.parent,
                          !.dataset = IF keeps THEN h.dataset ELSE NoDataset,
                          !.fields = h.context.fields])

-------------------------------------------------------------------------------
(* W3C: traceparent and tracestate.  A traceparent is well formed when it  *)
(* matches traceCtxRegExp; its IDs then have the right number of digits.   *)

TraceparentHeader ==
  [wellFormed: BOOLEAN, version: Nat, trace: Hex32 \cup {Zero32},
   parent: Hex16 \cup {Zero16}, flags: Nat]
NoTraceparent == [wellFormed |-> FALSE, version |-> 0, trace |-> Zero32,
                  parent |-> Zero16, flags |-> 0]

\* Unless both IDs are fit for it, no header is written at all.
MarshalW3C(prop) ==
  IF prop.trace \in Hex32 /\ prop.parent \in Hex16
  THEN [wellFormed |-> TRUE, version |-> 0, trace |-> prop.trace,
        parent |-> prop.parent, flags |-> IF prop.sampled THEN 1 ELSE 0]
  ELSE NoTraceparent

\* The later an error is found, the more of the context has been filled in.
\* An error of the tracestate header is no error.
UnmarshalW3C(h, state) ==
  IF ~h.wellFormed \/ h.version > 254 \/ h.trace = Zero32 THEN Refused
  ELSE IF h.parent = Zero16 THEN Partial([Empty EXCEPT !.trace = h.trace])
  ELSE LET ids == [Empty EXCEPT !.trace = h.trace, !.parent = h.parent] IN
  IF h.version = 0 /\ h.flags > 2 THEN Partial(ids)
  ELSE Read([ids EXCEPT !.sampled = h.flags % 2 = 1,
                        !.state = ParseTraceState(state)])

-------------------------------------------------------------------------------
(* B3.  A sampling decision may also be left to the receiver (deferred) or *)
(* be forced (debug); these two travel in the context.Context.             *)

B3Ctx == [debug: BOOLEAN, deferred: BOOLEAN]
Background == [debug |-> FALSE, deferred |-> FALSE]

\* What stands where a decision does; "?" is any other text.
Sampling == {"", "0", "1", "d", "?"}

B3TraceID(id) == IF id \in Hex16 THEN Padded[id] ELSE id

\* The b3 header, by which of its parts there are: "{sampling}", "{trace}",
\* "{trace}-{span}" and that with "-{sampling}" or "-{sampling}-{parent}".  Where
\* there is a place for a decision it may be empty, which is refused.
B3Shape == {"absent", "sampling", "trace", "ids", "idsSampling", "idsParent"}
B3SingleHeader ==
  [shape: B3Shape, trace: Id, span: Id, sampling: Sampling, parent: Id]
NoB3Single == [shape |-> "absent", trace |-> NoId, span |-> NoId,
               sampling |-> "", parent |-> NoId]

ExtractSingle(h, ctx) ==
  LET hasIds == h.shape \in {"ids", "idsSampling", "idsParent"}
      sampling == IF h.shape = "ids" THEN "" ELSE h.sampling
      found == [debug |-> ctx.debug \/ sampling = "d",
                deferred |-> ctx.deferred \/ sampling = ""] IN
  IF \/ h.shape \in {"absent", "trace"}
     \/ hasIds /\ ~(B3TraceID(h.trace) \in Hex32 /\ h.span \in Hex16)
     \/ h.shape = "idsParent" /\ h.parent \notin Hex16
     \/ h.shape # "ids" /\ h.sampling \notin {"0", "1", "d"}
  THEN In(ctx, Refused)
  ELSE In(found, Read([Empty EXCEPT
         !.trace = IF hasIds THEN B3TraceID(h.trace) ELSE NoId,
         !.parent = IF hasIds THEN h.span ELSE NoId,
         !.sampled = sampling \in {"1", "d"}]))

\* The x-b3- headers.  The context keeps what was found before an error.
ExtractMultiple(h, ctx) ==
  LET debug == h.flags = "1"
      found == [debug |-> ctx.debug \/ debug,
                deferred |-> (ctx.deferred \/ h.sampled = "") /\ ~debug]
      noIds == h.trace = NoId /\ h.span = NoId /\ h.parent = NoId
      goodIds == /\ B3TraceID(h.trace) \in Hex32 /\ h.span \in Hex16
                 /\ h.parent \in Hex16 \cup {NoId} IN
  IF h.sampled \notin {"", "0", "1"} THEN In(ctx, Refused)
  ELSE IF ~noIds /\ ~goodIds THEN In(found, Refused)
  ELSE In(found, Read([Empty EXCEPT !.trace = B3TraceID(h.trace), !.parent = h.span,
                                    !.sampled = h.sampled = "1" \/ debug]))

\* Only what comes of the x-b3- headers has to be valid.
UnmarshalB3(single, multiple, ctx) ==
  LET one == ExtractSingle(single, ctx)
      many == ExtractMultiple(multiple, ctx) IN
  IF ~one.err THEN one
  ELSE IF IsValid(many.prop) THEN many
  ELSE In(many.ctx, Refused)

B3MultipleHeader ==
  [trace: Id, span: Id, parent: Id, sampled: Sampling, flags: Sampling]
NoB3Multiple == [trace |-> NoId, span |-> NoId, parent |-> NoId,
                 sampled |-> "", flags |-> ""]

B3SamplingHeaders(prop, ctx) ==
  IF ctx.debug THEN [sampled |-> "", flags |-> "1"]
  ELSE [sampled |-> IF ctx.deferred THEN "" ELSE IF prop.sampled THEN "1" ELSE "0",
        flags |-> ""]

\* Any trace ID as long as 32 digits will do, the zero one too.
MarshalB3(prop, ctx) ==
  IF prop.trace \in Hex32 \cup {Zero32}
  THEN LET sampling == B3SamplingHeaders(prop, ctx) IN
       [NoB3Multiple EXCEPT !.trace = prop.trace, !.span = prop.parent,
                            !.sampled = sampling.sampled, !.flags = sampling.flags]
  ELSE NoB3Multiple

-------------------------------------------------------------------------------
(* Amazon: "Root=...;Parent=...;Self=...;name=value".  A field whose name  *)
(* is one of these stands behind them, and the last of a name is read.     *)

AmazonHeader == [root: Id, parent: Id, self: Id, fields: Fields]

\* fmt's %v makes a text of every value.
Text(k) == IF k = "none" THEN "none" ELSE "text"

\* What is read under one of the names of the format.
UnderName(name, fields, id) ==
  IF name \in FieldName /\ fields[name] # "none" THEN CHOOSE o \in Other : TRUE ELSE id

MarshalAmazon(prop) ==
  [root |-> UnderName("root", prop.fields, prop.trace),
   parent |-> UnderName("parent", prop.fields, prop.parent),
   self |-> UnderName("self", prop.fields, NoId),
   fields |-> [n \in FieldName |->
     IF n \in {"root", "parent", "self"} THEN "none" ELSE Text(prop.fields[n])]]

\* "favor self over parent"
AmazonParent(h) == IF h.self # NoId THEN h.self ELSE h.parent

\* A root without a parent is its own parent.
UnmarshalAmazon(h) ==
  LET parent == IF AmazonParent(h) = NoId THEN h.root ELSE AmazonParent(h)
      prop == [Empty EXCEPT !.trace = h.root, !.parent = parent, !.fields = h.fields] IN
  IF IsValid(prop) THEN Read(prop) ELSE Refused
===============================================================================
