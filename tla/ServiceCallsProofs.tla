-------------------------- MODULE ServiceCallsProofs --------------------------
(***************************************************************************)
(* What the spans of services that call one another say, for any requests  *)
(* from elsewhere, any number of handlers and calls, and calls that are    *)
(* lost, repeated, made again or late.                                     *)
(***************************************************************************)
EXTENDS ServiceCalls, TLAPS

-------------------------------------------------------------------------------
(* The inductive invariant.                                                *)

WrapperKind == {"recorder", "framework", "grpc"}
Committed == Code \cup {Unset}
Status == Committed \cup {Informational}
Outcome == Code \cup {Informational, "none", "error"}
Headers == Seq(HoneycombHeader)

Span == [trace: Id \ {NoId}, parent: Id, above: SpanId \cup {NoId}, handler: Nat,
         outcome: Outcome, sent: {"no", "self", "parent"}, fields: Fields]
FrameType == [span: SpanId, wrapper: WrapperKind, status: Status]
Handler == [span: SpanId, from: Nat, incoming: Headers, frames: Seq(FrameType),
            committed: Committed, odd: BOOLEAN, fields: Fields,
            end: {"no", "returned", "panicked"}, header: Headers, metadata: Headers]
CallType == [handler: Nat, mode: Mode, span: SpanId \cup {NoId}, honeycomb: Headers,
             result: Outcome \cup {"out"}]

SpansTyped == /\ DOMAIN spans \subseteq SpanId
              /\ \A s \in DOMAIN spans : spans[s] \in Span
HandlersTyped == handlers \in Seq(Handler)
CallsTyped == calls \in Seq(CallType)
Types == SpansTyped /\ HandlersTyped /\ CallsTyped

\* The frames of handler h: open spans of its own, at most two, the outer one
\* below nothing in this process and the inner one below it.
FramesOf(h) ==
  LET k == handlers[h] IN
  /\ Len(k.frames) <= 2
  /\ k.span \in DOMAIN spans
  /\ Len(k.frames) # 0 => k.end = "no"
  /\ \A i \in 1 .. Len(k.frames) :
       LET s == k.frames[i].span IN
       /\ s \in DOMAIN spans
       /\ spans[s].sent = "no" /\ spans[s].handler = h /\ ~IsCall(s)
       /\ spans[s].trace = spans[k.span].trace
       /\ i = 1 => s = k.span /\ spans[s].above = NoId
       /\ i = 2 => s # k.span /\ spans[s].above = k.span /\ k.frames[i].wrapper = "recorder"
FrameInv == \A h \in 1 .. Len(handlers) : FramesOf(h)

\* Calls are of handlers that were started, their spans of the process.
CallInv ==
  \A c \in 1 .. Len(calls) :
    /\ calls[c].handler \in 1 .. Len(handlers)
    /\ calls[c].mode \in Untraced <=> calls[c].span = NoId
    /\ calls[c].span # NoId => calls[c].span \in DOMAIN spans

Base == Types /\ FrameInv /\ CallInv

\* The IDs in a header or of a span: no span ID of this program that is not yet a
\* span's, and with it the trace of that span.
Known(trace, parent) ==
  parent \in SpanId => parent \in DOMAIN spans /\ spans[parent].trace = trace
KnownAll(headers) ==
  \A i \in 1 .. Len(headers) : Known(headers[i].trace, headers[i].parent)

TraceInv ==
  /\ \A s \in DOMAIN spans : Known(spans[s].trace, spans[s].parent)
  /\ \A h \in 1 .. Len(handlers) :
       /\ KnownAll(handlers[h].incoming)
       /\ KnownAll(handlers[h].header) /\ KnownAll(handlers[h].metadata)
  /\ \A c \in 1 .. Len(calls) : KnownAll(calls[c].honeycomb)

\* The first header is that of the call's span s, and will be read.
Names(headers, s) ==
  LET w == headers[1] IN
  /\ Len(headers) # 0
  /\ w.version = 1 /\ w.trace # NoId /\ w.context.decodes /\ w.parent = s

\* It is that of one of h's HTTP calls before number n.
NamesCall(headers, h, n) ==
  \E c \in 1 .. Len(calls) :
    /\ c < n /\ calls[c].mode = "http" /\ calls[c].handler = h
    /\ Names(headers, calls[c].span)

\* What handler h adds its next HTTP call's header to.
HeaderNamed(h) ==
  \/ HasForwarded(h) \/ handlers[h].header = <<>>
  \/ NamesCall(handlers[h].header, h, Len(calls) + 1)

\* The header that will be read of call c.
CallNamed(c) ==
  LET call == calls[c] IN
  \/ call.mode # "grpc" /\ HasForwarded(call.handler)
  \/ Names(call.honeycomb, call.span)
  \/ call.mode \in Untraced /\ call.honeycomb = <<>>
  \/ call.mode \in {"http", "httpUntraced"} /\ NamesCall(call.honeycomb, call.handler, c)

\* ChildOfCaller, of handler h.
Child(h) ==
  handlers[h].from # 0 =>
    LET call == calls[handlers[h].from]
        parent == spans[handlers[h].span].parent IN
    \/ parent = call.span
    \/ call.mode # "grpc" /\ HasForwarded(call.handler)
    \/ /\ call.mode \in {"http", "httpUntraced"}
       /\ \E c \in 1 .. handlers[h].from - 1 :
            calls[c].mode = "http" /\ calls[c].handler = call.handler /\ calls[c].span = parent

CallerInv ==
  /\ \A c \in 1 .. Len(calls) : CallNamed(c)
  /\ \A h \in 1 .. Len(handlers) :
       HeaderNamed(h) /\ handlers[h].from \in 0 .. Len(calls) /\ Child(h)

\* A span that is not a call's goes without an outcome when the handler panicked.
Excused(s) ==
  \/ IsCall(s)
  \/ /\ spans[s].handler \in 1 .. Len(handlers)
     /\ handlers[spans[s].handler].end = "panicked"

OutcomeInv ==
  \A s \in DOMAIN spans :
    spans[s].sent = "self" /\ spans[s].outcome = "none" => Excused(s)

\* The span of call c is not sent by itself before the call has ended, and then
\* says how it did.
CallResult(c) ==
  LET s == calls[c].span IN
  s # NoId /\ spans[s].sent = "self" =>
    calls[c].result # "out" /\ spans[s].outcome = calls[c].result

\* No two calls have a span in common.
OwnSpan(c) ==
  \A d \in 1 .. Len(calls) : c < d /\ calls[d].span # NoId => calls[c].span # calls[d].span

ResultInv == \A c \in 1 .. Len(calls) : CallResult(c) /\ OwnSpan(c)

\* What is on the event of a handler that has returned, and how the outer wrapper
\* of one that is running comes by the status.
HandlerEnds(h) ==
  LET k == handlers[h]
      s == spans[k.span] IN
  /\ k.end = "returned" =>
       /\ s.sent = "self" /\ s.fields = k.fields
       /\ ~k.odd => s.outcome = k.committed
  /\ Len(k.frames) # 0 /\ ~k.odd /\ k.frames[1].wrapper = "recorder" =>
       k.frames[1].status = k.committed
EndInv == \A h \in 1 .. Len(handlers) : HandlerEnds(h)

IInv == Base /\ TraceInv /\ CallerInv /\ OutcomeInv /\ ResultInv /\ EndInv

-------------------------------------------------------------------------------
(* What is done to the spans.                                              *)

Fixed(x) ==
  /\ spans'[x].trace = spans[x].trace /\ spans'[x].parent = spans[x].parent
  /\ spans'[x].above = spans[x].above /\ spans'[x].handler = spans[x].handler

\* A span is started: s is new, the others are as they were.
Started(s, new) ==
  /\ s \in SpanId \ DOMAIN spans
  /\ DOMAIN spans' = DOMAIN spans \cup {s}
  /\ spans'[s] = new
  /\ \A x \in DOMAIN spans : spans'[x] = spans[x]

LEMMA SpanStarts ==
  ASSUME MoreIDs, NEW new, spans' = WithSpan(getNewID, new)
  PROVE  Started(getNewID, new)
<1>1. getNewID \in SpanId \ DOMAIN spans
  BY DEF MoreIDs, getNewID
<1> HIDE DEF getNewID
<1> QED
  BY <1>1 DEF Started, WithSpan

\* Spans of S are sent, and open spans below them with them.
Sent(S, outcome, fields) ==
  /\ DOMAIN spans' = DOMAIN spans
  /\ \A x \in DOMAIN spans :
       /\ spans'[x] \in Span /\ Fixed(x)
       /\ x \in S /\ spans[x].sent = "no" =>
            /\ spans'[x].sent = "self" /\ spans'[x].outcome = outcome
            /\ spans'[x].fields = fields
       /\ ~(x \in S /\ spans[x].sent = "no") =>
            \/ spans'[x] = spans[x]
            \/ /\ spans'[x].sent = "parent" /\ spans[x].sent = "no"
               /\ \/ spans[x].above \in S
                  \/ /\ spans[x].above \in DOMAIN spans
                     /\ spans[spans[x].above].above \in S

LEMMA SpansSent ==
  ASSUME SpansTyped, NEW S \in SUBSET DOMAIN spans, NEW outcome \in Outcome,
         NEW fields \in Fields, spans' = Send(S, outcome, fields)
  PROVE  Sent(S, outcome, fields)
<1> DEFINE open == {s \in S : spans[s].sent = "no"}
           below == Below(open)
<1>1. DOMAIN spans' = DOMAIN spans
  BY DEF Send
<1> SUFFICES ASSUME NEW x \in DOMAIN spans
             PROVE  /\ spans'[x] \in Span /\ Fixed(x)
                    /\ x \in open => /\ spans'[x].sent = "self"
                                     /\ spans'[x].outcome = outcome
                                     /\ spans'[x].fields = fields
                    /\ x \notin open =>
                         \/ spans'[x] = spans[x]
                         \/ /\ spans'[x].sent = "parent" /\ spans[x].sent = "no"
                            /\ \/ spans[x].above \in S
                               \/ /\ spans[x].above \in DOMAIN spans
                                  /\ spans[spans[x].above].above \in S
  BY <1>1 DEF Sent
<1>2. spans[x] \in Span
  BY DEF SpansTyped
<1>3. CASE x \in open
  <2>1. spans'[x] = [spans[x] EXCEPT !.outcome = outcome, !.sent = "self", !.fields = fields]
    BY <1>3 DEF Send
  <2> HIDE DEF open
  <2> QED
    BY <1>2, <1>3, <2>1 DEF Span, Fixed
<1>4. CASE x \notin open /\ x \in below
  <2>1. spans'[x] = [spans[x] EXCEPT !.sent = "parent", !.fields = fields]
    BY <1>4 DEF Send
  <2>2. /\ spans[x].sent = "no"
        /\ \/ spans[x].above \in S
           \/ /\ spans[x].above \in DOMAIN spans
              /\ spans[spans[x].above].above \in S
    BY <1>4 DEF Below
  <2>3. spans'[x] \in Span /\ Fixed(x) /\ spans'[x].sent = "parent"
    BY <1>2, <2>1 DEF Span, Fixed
  <2> QED
    BY <1>4, <2>2, <2>3
<1>5. CASE x \notin open /\ x \notin below
  <2>1. spans'[x] = spans[x]
    BY <1>5 DEF Send
  <2> QED
    BY <1>2, <1>5, <2>1 DEF Fixed
<1> QED
  BY <1>3, <1>4, <1>5

-------------------------------------------------------------------------------
(* What is done to handlers and calls.                                     *)

LEMMA Appended ==
  ASSUME NEW S, NEW q \in Seq(S), NEW x \in S
  PROVE  /\ Append(q, x) \in Seq(S) /\ Len(Append(q, x)) = Len(q) + 1
         /\ Append(q, x)[Len(q) + 1] = x
         /\ \A i \in 1 .. Len(q) : Append(q, x)[i] = q[i]
OBVIOUS

LEMMA Replaced ==
  ASSUME NEW S, NEW q \in Seq(S), NEW i \in 1 .. Len(q), NEW x \in S
  PROVE  LET new == [q EXCEPT ![i] = x] IN
         /\ new \in Seq(S) /\ Len(new) = Len(q)
         /\ \A j \in 1 .. Len(q) : new[j] = IF j = i THEN x ELSE q[j]
         /\ x = q[i] => new = q
OBVIOUS

LEMMA Typed ==
  ASSUME Types
  PROVE  /\ Len(handlers) \in Nat /\ DOMAIN handlers = 1 .. Len(handlers)
         /\ \A h \in 1 .. Len(handlers) : handlers[h] \in Handler
         /\ Len(calls) \in Nat /\ DOMAIN calls = 1 .. Len(calls)
         /\ \A c \in 1 .. Len(calls) : calls[c] \in CallType
         /\ \A s \in DOMAIN spans : spans[s] \in Span /\ s \in SpanId
BY DEF Types, SpansTyped, HandlersTyped, CallsTyped

LEMMA FramesTyped ==
  ASSUME Types, NEW h \in 1 .. Len(handlers)
  PROVE  /\ Len(handlers[h].frames) \in Nat
         /\ DOMAIN handlers[h].frames = 1 .. Len(handlers[h].frames)
         /\ \A i \in 1 .. Len(handlers[h].frames) : handlers[h].frames[i] \in FrameType
<1>1. handlers[h].frames \in Seq(FrameType)
  BY Typed DEF Handler
<1> QED
  BY <1>1

\* A frame's span, in the parts of FramesOf.
LEMMA FrameSpan ==
  ASSUME Base, NEW h \in 1 .. Len(handlers), NEW i \in 1 .. Len(handlers[h].frames)
  PROVE  LET k == handlers[h]
             s == k.frames[i].span IN
         /\ s \in DOMAIN spans /\ spans[s].sent = "no" /\ spans[s].handler = h /\ ~IsCall(s)
         /\ spans[s].trace = spans[k.span].trace
         /\ i = 1 => s = k.span /\ spans[s].above = NoId
         /\ i = 2 => s # k.span /\ spans[s].above = k.span /\ k.frames[i].wrapper = "recorder"
         /\ k.end = "no"
<1>1. Len(handlers[h].frames) # 0
  BY FramesTyped DEF Base
<1>2. FramesOf(h)
  BY DEF Base, FrameInv
<1> QED
  BY <1>1, <1>2 DEF FramesOf

\* The record of handler h is changed, all but what it is from.
Changed(h) ==
  /\ HandlersTyped' /\ Len(handlers') = Len(handlers)
  /\ \A j \in 1 .. Len(handlers) : j # h => handlers'[j] = handlers[j]
  /\ handlers'[h].span = handlers[h].span /\ handlers'[h].from = handlers[h].from
  /\ handlers'[h].incoming = handlers[h].incoming

LEMMA HandlerChanges ==
  ASSUME Types, NEW h \in 1 .. Len(handlers), NEW k \in Handler,
         handlers' = [handlers EXCEPT ![h] = k],
         k.span = handlers[h].span, k.from = handlers[h].from,
         k.incoming = handlers[h].incoming
  PROVE  Changed(h) /\ handlers'[h] = k
<1>1. handlers \in Seq(Handler)
  BY DEF Types, HandlersTyped
<1>2. handlers' \in Seq(Handler) /\ Len(handlers') = Len(handlers)
      /\ \A j \in 1 .. Len(handlers) : handlers'[j] = IF j = h THEN k ELSE handlers[j]
  BY <1>1, Replaced
<1> QED
  BY <1>2 DEF Changed, HandlersTyped

\* What a handler has of its calls and its trace.
SameTrace(h) ==
  /\ handlers'[h].header = handlers[h].header
  /\ handlers'[h].metadata = handlers[h].metadata
  /\ handlers'[h].fields = handlers[h].fields

\* A response: where frames stand does not change, and a status that is the one
\* committed to stays so, or the response is an odd one.
Responds(h) ==
  LET k == handlers[h]
      k1 == handlers'[h] IN
  /\ h \in 1 .. Len(handlers) /\ Changed(h) /\ SameTrace(h) /\ k1.end = k.end
  /\ UNCHANGED <<spans, calls>>
  /\ Len(k.frames) # 0 /\ Len(k1.frames) = Len(k.frames)
  /\ \A i \in 1 .. Len(k.frames) : /\ k1.frames[i].span = k.frames[i].span
                                   /\ k1.frames[i].wrapper = k.frames[i].wrapper
  /\ ~k1.odd => ~k.odd /\ (k.frames[1].status = k.committed =>
                            k1.frames[1].status = k1.committed)

LEMMA RecordedFrames ==
  ASSUME Types, NEW h \in 1 .. Len(handlers), NEW code \in Status
  PROVE  LET frames == handlers[h].frames
             new == AllRecorded(h, code) IN
         /\ new \in Seq(FrameType) /\ Len(new) = Len(frames)
         /\ \A i \in 1 .. Len(frames) :
              /\ new[i].span = frames[i].span /\ new[i].wrapper = frames[i].wrapper
              /\ new[i].status = Recorded(frames[i].status, code)
<1> DEFINE frames == handlers[h].frames
           new == AllRecorded(h, code)
           n == Len(frames)
<1>1. n \in Nat /\ DOMAIN frames = 1 .. n /\ \A i \in 1 .. n : frames[i] \in FrameType
  BY FramesTyped
<1>2. /\ new = [i \in 1 .. n |-> [frames[i] EXCEPT !.status = Recorded(frames[i].status, code)]]
      /\ \A i \in 1 .. n : new[i] = [frames[i] EXCEPT !.status = Recorded(frames[i].status, code)]
  BY <1>1 DEF AllRecorded
<1>3. \A i \in 1 .. n : Recorded(frames[i].status, code) \in Status
  BY <1>1 DEF Recorded, FrameType
<1> HIDE DEF new, frames
<1>4. \A i \in 1 .. n : /\ new[i] \in FrameType
                        /\ new[i].span = frames[i].span /\ new[i].wrapper = frames[i].wrapper
                        /\ new[i].status = Recorded(frames[i].status, code)
  BY <1>1, <1>2, <1>3 DEF FrameType
<1>5. new \in Seq(FrameType) /\ Len(new) = n
  <2>1. DOMAIN new = 1 .. n /\ new \in [1 .. n -> FrameType]
    BY <1>1, <1>2, <1>4
  <2> HIDE DEF n
  <2> QED BY <1>1, <2>1
<1> QED
  BY <1>4, <1>5 DEF new, frames

LEMMA WriteHeaderResponds ==
  ASSUME Types, NEW h \in 1 .. Len(handlers), NEW code \in Code, WriteHeader(h, code)
  PROVE  Responds(h)
<1> DEFINE k == handlers[h]
           frames == AllRecorded(h, code)
           committed == IF k.committed = Unset THEN code ELSE k.committed
           k1 == [k EXCEPT !.frames = frames, !.committed = committed]
<1>0. k \in Handler /\ committed \in Committed
  BY Typed DEF Handler, Committed
<1>1. UNCHANGED <<spans, calls>> /\ Len(k.frames) # 0 /\ Len(k.frames) \in Nat
  BY <1>0 DEF WriteHeader, IsHttp, Running, Handler
<1>2. handlers' = [handlers EXCEPT ![h] = k1]
  BY Typed DEF WriteHeader
<1>3. /\ frames \in Seq(FrameType) /\ Len(frames) = Len(k.frames)
      /\ \A i \in 1 .. Len(k.frames) :
           /\ frames[i].span = k.frames[i].span /\ frames[i].wrapper = k.frames[i].wrapper
           /\ frames[i].status = Recorded(k.frames[i].status, code)
  BY RecordedFrames DEF Status, Committed
<1>4. committed = Recorded(k.committed, code)
  BY DEF Recorded
<1> HIDE DEF frames, committed
<1>5. /\ k1 \in Handler /\ k1.span = k.span /\ k1.from = k.from /\ k1.incoming = k.incoming
      /\ k1.header = k.header /\ k1.metadata = k.metadata /\ k1.fields = k.fields
      /\ k1.end = k.end /\ k1.odd = k.odd /\ k1.frames = frames /\ k1.committed = committed
  <2> HIDE DEF k
  <2> QED BY <1>0, <1>3 DEF Handler
<1> HIDE DEF k1
<1>6. Changed(h) /\ handlers'[h] = k1
  BY <1>2, <1>5, HandlerChanges
<1>7. frames[1].status = Recorded(k.frames[1].status, code)
  BY <1>1, <1>3
<1> QED
  BY <1>1, <1>3, <1>4, <1>5, <1>6, <1>7 DEF Responds, SameTrace

LEMMA WriteResponds ==
  ASSUME Types, NEW h \in 1 .. Len(handlers), Write(h)
  PROVE  Responds(h)
<1> DEFINE k == handlers[h]
           k1 == [k EXCEPT !.committed = "200", !.odd = TRUE]
<1>0. k \in Handler
  BY Typed
<1>1. UNCHANGED <<spans, calls>> /\ Len(k.frames) # 0 /\ Len(k.frames) \in Nat
  BY <1>0 DEF Write, IsHttp, Running, Handler
<1>2. handlers' = [handlers EXCEPT ![h] = k1]
  BY Typed DEF Write
<1>3. /\ k1 \in Handler /\ k1.span = k.span /\ k1.from = k.from /\ k1.incoming = k.incoming
      /\ k1.header = k.header /\ k1.metadata = k.metadata /\ k1.fields = k.fields
      /\ k1.end = k.end /\ k1.odd = TRUE /\ k1.frames = k.frames
  <2> HIDE DEF k
  <2> QED BY <1>0, CodeAssumption DEF Handler, Committed
<1> HIDE DEF k1
<1>4. Changed(h) /\ handlers'[h] = k1
  BY <1>2, <1>3, HandlerChanges
<1> QED
  BY <1>1, <1>3, <1>4 DEF Responds, SameTrace

LEMMA WriteInformationalResponds ==
  ASSUME Types, NEW h \in 1 .. Len(handlers), WriteInformational(h)
  PROVE  Responds(h)
<1> DEFINE k == handlers[h]
           frames == AllRecorded(h, Informational)
           k1 == [k EXCEPT !.frames = frames, !.odd = TRUE]
<1>0. k \in Handler
  BY Typed
<1>1. UNCHANGED <<spans, calls>> /\ Len(k.frames) # 0 /\ Len(k.frames) \in Nat
  BY <1>0 DEF WriteInformational, IsHttp, Running, Handler
<1>2. handlers' = [handlers EXCEPT ![h] = k1]
  BY Typed DEF WriteInformational
<1>3. /\ frames \in Seq(FrameType) /\ Len(frames) = Len(k.frames)
      /\ \A i \in 1 .. Len(k.frames) :
           /\ frames[i].span = k.frames[i].span /\ frames[i].wrapper = k.frames[i].wrapper
  BY RecordedFrames DEF Status
<1> HIDE DEF frames
<1>4. /\ k1 \in Handler /\ k1.span = k.span /\ k1.from = k.from /\ k1.incoming = k.incoming
      /\ k1.header = k.header /\ k1.metadata = k.metadata /\ k1.fields = k.fields
      /\ k1.end = k.end /\ k1.odd = TRUE /\ k1.frames = frames
  <2> HIDE DEF k
  <2> QED BY <1>0, <1>3 DEF Handler
<1> HIDE DEF k1
<1>5. Changed(h) /\ handlers'[h] = k1
  BY <1>2, <1>4, HandlerChanges
<1> QED
  BY <1>1, <1>3, <1>4, <1>5 DEF Responds, SameTrace

\* The handler copies the headers it got; it has made no call yet.
Forwards(h) ==
  LET k == handlers[h]
      k1 == handlers'[h] IN
  /\ h \in 1 .. Len(handlers) /\ Changed(h) /\ UNCHANGED <<spans, calls>>
  /\ k1.frames = k.frames /\ k1.committed = k.committed /\ k1.odd = k.odd
  /\ k1.end = k.end /\ k1.fields = k.fields
  /\ \A c \in 1 .. Len(calls) : calls[c].handler # h
  /\ k.incoming # <<>> /\ k1.header = k.incoming /\ k1.metadata = k.incoming

LEMMA ForwardForwards ==
  ASSUME Types, NEW h \in 1 .. Len(handlers), Forward(h)
  PROVE  Forwards(h)
<1> DEFINE k == handlers[h]
           k1 == [k EXCEPT !.header = k.incoming, !.metadata = k.incoming]
<1>0. k \in Handler
  BY Typed
<1>1. /\ UNCHANGED <<spans, calls>> /\ k.incoming # <<>>
      /\ \A c \in 1 .. Len(calls) : calls[c].handler # h
  BY Typed DEF Forward
<1>2. handlers' = [handlers EXCEPT ![h] = k1]
  BY Typed DEF Forward
<1>3. /\ k1 \in Handler /\ k1.span = k.span /\ k1.from = k.from /\ k1.incoming = k.incoming
      /\ k1.header = k.incoming /\ k1.metadata = k.incoming /\ k1.fields = k.fields
      /\ k1.end = k.end /\ k1.odd = k.odd /\ k1.frames = k.frames
      /\ k1.committed = k.committed
  <2> HIDE DEF k
  <2> QED BY <1>0 DEF Handler
<1> HIDE DEF k1
<1>4. Changed(h) /\ handlers'[h] = k1
  BY <1>2, <1>3, HandlerChanges
<1> QED
  BY <1>1, <1>3, <1>4 DEF Forwards

\* A second wrapper starts a span below that of the first.
Wraps(h, s) ==
  LET k == handlers[h]
      k1 == handlers'[h] IN
  /\ h \in 1 .. Len(handlers) /\ Changed(h) /\ SameTrace(h) /\ UNCHANGED calls
  /\ k1.committed = k.committed /\ k1.odd = k.odd /\ k1.end = k.end
  /\ Len(k.frames) = 1 /\ Len(k1.frames) = 2 /\ k1.frames[1] = k.frames[1]
  /\ k1.frames[2] = Frame(s, "recorder")
  /\ Started(s, NewSpan(spans[k.frames[1].span].trace, k.frames[1].span,
                        k.frames[1].span, h))

LEMMA WrapWraps ==
  ASSUME Types, NEW h \in 1 .. Len(handlers), Wrap(h)
  PROVE  \E s : Wraps(h, s)
<1> DEFINE k == handlers[h]
           s == getNewID
           frames == Append(k.frames, Frame(s, "recorder"))
           k1 == [k EXCEPT !.frames = frames]
           new == NewSpan(spans[k.frames[1].span].trace, k.frames[1].span,
                          k.frames[1].span, h)
<1>0. k \in Handler
  BY Typed
<1>1. UNCHANGED calls /\ Len(k.frames) = 1
  BY DEF Wrap
<1>2. Started(s, new)
  BY SpanStarts DEF Wrap
<1>3. handlers' = [handlers EXCEPT ![h] = k1]
  BY Typed DEF Wrap
<1>4. Frame(s, "recorder") \in FrameType
  BY <1>2 DEF Started, Frame, FrameType, WrapperKind, Status, Committed
<1>5. /\ frames \in Seq(FrameType) /\ Len(frames) = 2 /\ frames[1] = k.frames[1]
      /\ frames[2] = Frame(s, "recorder")
  <2>1. k.frames \in Seq(FrameType)
    BY <1>0 DEF Handler
  <2>2. Len(k.frames) + 1 = 2 /\ 1 \in 1 .. Len(k.frames)
    BY <1>1
  <2> HIDE DEF k, s
  <2> QED
    BY <1>4, <2>1, <2>2, Appended DEF frames
<1> HIDE DEF frames, s, new
<1>6. /\ k1 \in Handler /\ k1.span = k.span /\ k1.from = k.from /\ k1.incoming = k.incoming
      /\ k1.header = k.header /\ k1.metadata = k.metadata /\ k1.fields = k.fields
      /\ k1.end = k.end /\ k1.odd = k.odd /\ k1.frames = frames
      /\ k1.committed = k.committed
  <2> HIDE DEF k
  <2> QED BY <1>0, <1>5 DEF Handler
<1> HIDE DEF k1
<1>7. Changed(h) /\ handlers'[h] = k1
  BY <1>3, <1>6, HandlerChanges
<1>8. Wraps(h, s)
  BY <1>1, <1>2, <1>5, <1>6, <1>7 DEF Wraps, SameTrace, new
<1> QED
  BY <1>8

-------------------------------------------------------------------------------
(* What a handler reads of a request.                                      *)

LEMMA EmptyContext ==
  /\ Empty \in Context /\ Empty.trace = NoId /\ Empty.parent = NoId
  /\ Empty.fields \in Fields
<1>1. NoFields \in Fields
  BY DEF NoFields, Fields, Kind
<1>2. <<>> \in Seq(Member)
  OBVIOUS
<1> QED
  BY <1>1, <1>2 DEF Empty, Context, Id

\* What a context can hold after a header with the two IDs has been read.
ReadOf(p, trace, parent) ==
  /\ p.fields \in Fields /\ p.trace \in Id /\ p.parent \in Id
  /\ \/ p.trace = trace /\ p.parent = parent
     \/ p.parent = NoId

LEMMA HoneycombRead ==
  ASSUME NEW w \in HoneycombHeader
  PROVE  LET p == UnmarshalHoneycomb(w, FALSE).prop IN
         /\ ReadOf(p, w.trace, w.parent)
         /\ w.version = 1 /\ w.trace # NoId /\ w.context.decodes => p.parent = w.parent
<1> DEFINE r == UnmarshalHoneycomb(w, FALSE)
           p == [Empty EXCEPT !.trace = w.trace, !.parent = w.parent,
                              !.dataset = NoDataset, !.fields = w.context.fields]
           refused == \/ w.version # 1
                      \/ w.trace = NoId /\ w.parent # NoId
                      \/ ~w.context.decodes
<1>1. w.trace \in Id /\ w.parent \in Id /\ w.context.fields \in Fields
  BY DEF HoneycombHeader
<1>2. p.trace = w.trace /\ p.parent = w.parent /\ p.fields = w.context.fields
  BY EmptyContext DEF Context
<1> HIDE DEF p
<1>3. r = IF refused THEN Refused ELSE Read(p)
  BY DEF UnmarshalHoneycomb, p
<1> HIDE DEF refused, r
<1>4. CASE refused
  <2>1. r = [prop |-> Empty, err |-> TRUE]
    BY <1>3, <1>4 DEF Refused, Partial
  <2>2. r.prop = Empty
    BY <2>1
  <2>3. ReadOf(Empty, w.trace, w.parent)
    BY EmptyContext DEF ReadOf, Id
  <2>4. w.version = 1 /\ w.trace # NoId /\ w.context.decodes => FALSE
    BY <1>4 DEF refused
  <2> QED
    BY <2>2, <2>3, <2>4 DEF r
<1>5. CASE ~refused
  <2>1. r = [prop |-> p, err |-> FALSE]
    BY <1>3, <1>5 DEF Read
  <2>2. r.prop = p
    BY <2>1
  <2>3. ReadOf(p, w.trace, w.parent)
    BY <1>1, <1>2 DEF ReadOf
  <2> QED
    BY <1>2, <2>2, <2>3 DEF r
<1> QED
  BY <1>4, <1>5

LEMMA TraceparentRead ==
  ASSUME NEW w \in TraceparentHeader
  PROVE  /\ ReadOf(UnmarshalW3C(w, <<>>).prop, w.trace, w.parent)
         /\ ~w.wellFormed => UnmarshalW3C(w, <<>>).prop.parent = NoId
<1> DEFINE part == [Empty EXCEPT !.trace = w.trace]
           ids == [Empty EXCEPT !.trace = w.trace, !.parent = w.parent]
           p == [ids EXCEPT !.sampled = w.flags % 2 = 1, !.state = ParseTraceState(<<>>)]
           r == UnmarshalW3C(w, <<>>)
<1>1. w.trace \in Id /\ w.parent \in Id
  BY DEF TraceparentHeader, Id
<1>2. /\ part.trace = w.trace /\ part.parent = NoId /\ part.fields \in Fields
      /\ ids.trace = w.trace /\ ids.parent = w.parent /\ ids.fields \in Fields
      /\ ids \in Context
  BY <1>1, EmptyContext DEF Context
<1> HIDE DEF part, ids
<1>3. p.trace = w.trace /\ p.parent = w.parent /\ p.fields \in Fields
  BY <1>2 DEF Context
<1>4. /\ r \in {Refused, Partial(part), Partial(ids), Read(p)}
      /\ ~w.wellFormed => r = Refused
  BY DEF UnmarshalW3C, part, ids
<1> HIDE DEF p, r
<1>5. r.prop \in {Empty, part, ids, p} /\ (~w.wellFormed => r.prop = Empty)
  BY <1>4 DEF Refused, Partial, Read
<1>6. \A q \in {Empty, part, ids, p} : ReadOf(q, w.trace, w.parent)
  BY <1>1, <1>2, <1>3, EmptyContext DEF ReadOf, Id
<1> QED
  BY <1>5, <1>6, EmptyContext DEF r

\* What StartSpanOrTrace makes of the headers of a request.
LEMMA ContextRead ==
  ASSUME NEW request, NEW wrapper,
         request.honeycomb \in Headers, request.traceparent \in TraceparentHeader
  PROVE  LET p == ReadContext(request, wrapper) IN
         /\ p.fields \in Fields /\ p.trace \in Id /\ p.parent \in Id
         /\ \/ p.parent = NoId
            \/ /\ request.honeycomb # <<>>
               /\ ReadOf(p, request.honeycomb[1].trace, request.honeycomb[1].parent)
            \/ /\ request.honeycomb = <<>> /\ request.traceparent.wellFormed
               /\ ReadOf(p, request.traceparent.trace, request.traceparent.parent)
         /\ \A s : Names(request.honeycomb, s) => p.parent = s
<1> DEFINE headers == request.honeycomb
           w == request.traceparent
           p == ReadContext(request, wrapper)
           r1 == UnmarshalHoneycomb(headers[1], FALSE)
           r2 == UnmarshalW3C(w, <<>>)
<1>1. p = IF headers # <<>> THEN r1.prop
          ELSE IF wrapper # "grpc" /\ w.wellFormed THEN r2.prop ELSE Empty
  BY DEF ReadContext
<1>2. Len(headers) \in Nat /\ (headers # <<>> => headers[1] \in HoneycombHeader)
      /\ (Len(headers) # 0 => headers # <<>>)
  BY DEF Headers
<1>3. headers # <<>> =>
        /\ ReadOf(r1.prop, headers[1].trace, headers[1].parent)
        /\ headers[1].version = 1 /\ headers[1].trace # NoId /\ headers[1].context.decodes
             => r1.prop.parent = headers[1].parent
  BY <1>2, HoneycombRead
<1>4. ReadOf(r2.prop, w.trace, w.parent)
  BY TraceparentRead
<1> HIDE DEF r1, r2, p
<1>5. CASE headers # <<>>
  <2>1. p = r1.prop
    BY <1>1, <1>5
  <2> HIDE DEF headers, w
  <2>2. \A s : Names(headers, s) => p.parent = s
    BY <1>3, <1>5, <2>1 DEF Names
  <2>3. ReadOf(p, headers[1].trace, headers[1].parent)
    BY <1>3, <1>5, <2>1
  <2>4. p.fields \in Fields /\ p.trace \in Id /\ p.parent \in Id
    BY <2>3 DEF ReadOf
  <2> QED
    BY <1>5, <2>2, <2>3, <2>4 DEF p, headers, w
<1>6. CASE headers = <<>>
  <2>1. p \in {r2.prop, Empty} /\ (~w.wellFormed => p = Empty)
    BY <1>1, <1>6
  <2> HIDE DEF headers, w
  <2>2. p.fields \in Fields /\ p.trace \in Id /\ p.parent \in Id
    BY <1>4, <2>1, EmptyContext DEF ReadOf, Id
  <2>3. p.parent = NoId \/ (w.wellFormed /\ ReadOf(p, w.trace, w.parent))
    BY <1>4, <2>1, EmptyContext
  <2>4. \A s : ~Names(headers, s)
    BY <1>2, <1>6 DEF Names
  <2> QED
    BY <1>6, <2>2, <2>3, <2>4 DEF p, headers, w
<1> QED
  BY <1>5, <1>6

\* A handler is started with a span of its own, from a request from elsewhere or
\* from a call.
StartsHandler(from, s) ==
  LET h == Len(handlers) + 1
      k == handlers'[h]
      new == spans'[s] IN
  /\ UNCHANGED calls /\ HandlersTyped' /\ Len(handlers') = h
  /\ \A j \in 1 .. Len(handlers) : handlers'[j] = handlers[j]
  /\ Started(s, new) /\ new \in Span
  /\ new.above = NoId /\ new.handler = h /\ new.outcome = "none" /\ new.sent = "no"
  /\ Known(new.trace, new.parent)
  /\ k.span = s /\ k.from = from /\ KnownAll(k.incoming)
  /\ Len(k.frames) = 1 /\ k.frames[1].span = s /\ k.frames[1].status = Unset
  /\ k.committed = Unset /\ k.end = "no" /\ k.header = <<>> /\ k.metadata = <<>>
  /\ from \in 0 .. Len(calls)
  /\ from # 0 =>
       /\ k.incoming = calls[from].honeycomb
       /\ k.incoming = <<>> => new.parent = NoId
       /\ \A t : Names(k.incoming, t) => new.parent = t

LEMMA SpanIdsAreIds ==
  /\ SpanId \subseteq Id \ {NoId, Zero16} /\ NoId \in Id /\ Hex32 \subseteq Id \ {NoId}
  /\ \A s \in SpanId : NewTraceID[s] \in Id \ {NoId}
<1>1. \A s \in Hex16 : NewTraceID[s] \in Hex32
  BY NewTraceAssumption
<1> QED
  BY <1>1, IdAssumption DEF SpanId, Id

LEMMA StartStarts ==
  ASSUME Types, NEW request, NEW wrapper \in Wrapper, NEW from \in 0 .. Len(calls),
         request.honeycomb \in Headers, request.traceparent \in TraceparentHeader,
         KnownAll(request.honeycomb),
         request.traceparent.wellFormed =>
           Known(request.traceparent.trace, request.traceparent.parent),
         from # 0 => /\ request.honeycomb = calls[from].honeycomb
                     /\ ~request.traceparent.wellFormed,
         StartSpanOrTrace(request, wrapper, from)
  PROVE  \E s : StartsHandler(from, s)
<1> DEFINE headers == request.honeycomb
           p == ReadContext(request, wrapper)
           s == getNewID
           h == Len(handlers) + 1
           trace == TraceOf(p, s)
           new == NewSpan(trace, p.parent, NoId, h)
           frames == <<Frame(s, wrapper)>>
           k == [span |-> s, from |-> from, incoming |-> headers, frames |-> frames,
                 committed |-> Unset, odd |-> FALSE, fields |-> p.fields, end |-> "no",
                 header |-> <<>>, metadata |-> <<>>]
<1>1. /\ UNCHANGED calls /\ handlers' = Append(handlers, k) /\ Started(s, new)
  BY SpanStarts DEF StartSpanOrTrace
<1>2. /\ p.fields \in Fields /\ p.trace \in Id /\ p.parent \in Id
      /\ \/ p.parent = NoId
         \/ /\ headers # <<>> /\ ReadOf(p, headers[1].trace, headers[1].parent)
         \/ /\ headers = <<>> /\ request.traceparent.wellFormed
            /\ ReadOf(p, request.traceparent.trace, request.traceparent.parent)
      /\ \A t : Names(headers, t) => p.parent = t
  BY ContextRead
<1>3. s \in SpanId
  BY <1>1 DEF Started
<1>4. Len(headers) \in Nat /\ (headers # <<>> => 1 \in 1 .. Len(headers))
  BY DEF Headers
<1>5. /\ headers # <<>> => Known(headers[1].trace, headers[1].parent)
      /\ KnownAll(headers)
  BY <1>4 DEF KnownAll
<1>6. h \in Nat /\ wrapper \in WrapperKind
  BY Typed DEF Wrapper, WrapperKind, NetHttp, Goji, Gorilla, HttpRouter, Gin, Echo, Grpc
<1> HIDE DEF headers, p, s
<1>7. Known(p.trace, p.parent)
  <2>1. NoId \notin SpanId
    BY SpanIdsAreIds
  <2>2. \A tr, pa : ReadOf(p, tr, pa) /\ Known(tr, pa) => Known(p.trace, p.parent)
    BY <2>1 DEF ReadOf, Known
  <2>3. CASE p.parent = NoId
    BY <2>1, <2>3 DEF Known
  <2>4. CASE headers # <<>> /\ ReadOf(p, headers[1].trace, headers[1].parent)
    BY <1>5, <2>2, <2>4
  <2>5. CASE /\ request.traceparent.wellFormed
             /\ ReadOf(p, request.traceparent.trace, request.traceparent.parent)
    BY <2>2, <2>5
  <2> QED
    BY <1>2, <2>3, <2>4, <2>5
<1>8. trace \in Id \ {NoId} /\ Known(trace, p.parent)
  <2>1. CASE p.trace = NoId
    <3>1. p.parent \notin SpanId
      <4>1. \A x \in DOMAIN spans : spans[x].trace # NoId
        BY Typed DEF Span
      <4> QED
        BY <1>7, <2>1, <4>1 DEF Known
    <3>2. trace = NewTraceID[s]
      BY <2>1 DEF TraceOf
    <3> HIDE DEF trace
    <3> QED
      BY <1>3, <3>1, <3>2, SpanIdsAreIds DEF Known
  <2>2. CASE p.trace # NoId
    <3>1. trace = p.trace
      BY <2>2 DEF TraceOf
    <3> HIDE DEF trace
    <3> QED
      BY <1>2, <1>7, <2>2, <3>1
  <2> QED
    BY <2>1, <2>2
<1> HIDE DEF trace
<1>9. /\ new \in Span /\ new.above = NoId /\ new.handler = h /\ new.outcome = "none"
      /\ new.sent = "no" /\ new.trace = trace /\ new.parent = p.parent
  <2>1. NoFields \in Fields
    BY EmptyContext DEF Empty
  <2> HIDE DEF h
  <2> QED
    BY <1>2, <1>6, <1>8, <2>1 DEF NewSpan, Span, Outcome
<1> HIDE DEF new
<1>10. /\ frames \in Seq(FrameType) /\ Len(frames) = 1
       /\ frames[1].span = s /\ frames[1].status = Unset
  BY <1>3, <1>6 DEF Frame, FrameType, Status, Committed
<1> HIDE DEF frames
<1>11. k \in Handler
  <2>1. <<>> \in Headers /\ headers \in Headers
    BY DEF Headers, headers
  <2> HIDE DEF Headers
  <2> QED
    BY <1>2, <1>3, <1>10, <2>1 DEF Handler, Committed
<1>12. /\ k.span = s /\ k.from = from /\ k.incoming = headers /\ k.frames = frames
       /\ k.committed = Unset /\ k.end = "no" /\ k.header = <<>> /\ k.metadata = <<>>
  OBVIOUS
<1> HIDE DEF k
<1>13. /\ handlers' \in Seq(Handler) /\ Len(handlers') = h
       /\ \A j \in 1 .. Len(handlers) : handlers'[j] = handlers[j]
       /\ handlers'[h] = k
  <2>1. handlers \in Seq(Handler)
    BY DEF Types, HandlersTyped
  <2> QED
    BY <1>1, <1>11, <2>1, Appended
<1>14. from # 0 => /\ headers = calls[from].honeycomb
                   /\ headers = <<>> => p.parent = NoId
  BY <1>2 DEF headers
<1>15. spans'[s] = new
  BY <1>1 DEF Started
<1>16. StartsHandler(from, s)
  <2> HIDE DEF h
  <2>1. \A t : Names(headers, t) => p.parent = t
    BY <1>2
  <2>2. Known(new.trace, new.parent)
    BY <1>8, <1>9
  <2> QED
    BY <1>1, <1>5, <1>9, <1>10, <1>12, <1>13, <1>14, <1>15, <2>1, <2>2
    DEF StartsHandler, HandlersTyped, h
<1> QED
  BY <1>16

-------------------------------------------------------------------------------
(* The end of a handler.                                                   *)

\* The innermost wrapper has its span sent; the status it reports is the one that
\* is committed to when no wrapper is left.
Returns(h, outcome, fields) ==
  LET k == handlers[h]
      k1 == handlers'[h]
      n == Len(k.frames) IN
  /\ h \in 1 .. Len(handlers) /\ Changed(h) /\ UNCHANGED calls
  /\ k1.header = k.header /\ k1.metadata = k.metadata /\ k1.odd = k.odd
  /\ n # 0 /\ Len(k1.frames) = n - 1
  /\ \A i \in 1 .. n - 1 : k1.frames[i] = k.frames[i]
  /\ outcome \in Outcome \ {"none"} /\ fields \in Fields /\ k1.fields = fields
  /\ Sent({k.frames[n].span}, outcome, fields)
  /\ n = 1 =>
       /\ k1.end = "returned"
       /\ (k.frames[1].wrapper = "recorder" => k.frames[1].status = k.committed) =>
            outcome = k1.committed
  /\ n # 1 => k1.end = k.end /\ k1.committed = k.committed

LEMMA ReturnReturns ==
  ASSUME Types, FrameInv, NEW h \in 1 .. Len(handlers), NEW err \in BOOLEAN, Return(h, err)
  PROVE  \E outcome, fields : Returns(h, outcome, fields)
<1> DEFINE k == handlers[h]
           n == Len(k.frames)
           f == Top(h)
           early == IF f.wrapper = "framework" /\ err /\ k.committed = Unset
                    THEN "500" ELSE k.committed
           outcome == IF f.wrapper = "grpc" THEN IF err THEN "500" ELSE "200"
                      ELSE FrameStatus(f, early)
           fields == IF f.wrapper = "grpc" /\ err
                     THEN [k.fields EXCEPT !["handler_error"] = "text"] ELSE k.fields
           committed == IF f.wrapper = "grpc" THEN outcome
                        ELSE IF n = 1 /\ early = Unset THEN "200" ELSE early
           end == IF n = 1 THEN "returned" ELSE k.end
           frames == Front(k.frames)
           k1 == [k EXCEPT !.frames = frames, !.fields = fields, !.committed = committed,
                           !.end = end]
<1>0. k \in Handler
  BY Typed
<1>1. n \in Nat \ {0} /\ (err => f.wrapper \in {"framework", "grpc"})
  BY <1>0 DEF Return, Running, Handler
<1>2. UNCHANGED calls /\ spans' = Send({f.span}, outcome, fields)
  BY DEF Return
<1>3. handlers' = [handlers EXCEPT ![h] = k1]
  BY Typed DEF Return
<1>4. f = k.frames[n] /\ f \in FrameType /\ f.span \in DOMAIN spans
  <2>1. f = k.frames[n]
    BY DEF Top
  <2>2. n \in 1 .. n
    BY <1>1
  <2>3. k.frames[n] \in FrameType
    BY <2>2, FramesTyped
  <2>4. k.frames[n].span \in DOMAIN spans
    BY <2>2 DEF FrameInv, FramesOf
  <2> QED
    BY <2>1, <2>3, <2>4
<1>5. n = 2 \/ n = 1
  <2>1. n <= 2
    BY DEF FrameInv, FramesOf
  <2> HIDE DEF n
  <2> QED
    BY <1>1, <2>1
<1>6. n = 2 => f.wrapper = "recorder"
  BY <1>4 DEF FrameInv, FramesOf
<1>7. /\ k.frames \in Seq(FrameType) /\ k.committed \in Committed /\ k.fields \in Fields
      /\ k.end \in {"no", "returned", "panicked"}
  BY <1>0 DEF Handler
<1>8. frames \in Seq(FrameType) /\ Len(frames) = n - 1
      /\ \A i \in 1 .. n - 1 : frames[i] = k.frames[i]
  <2> DEFINE q == k.frames
  <2>1. q \in Seq(FrameType) /\ Len(q) = n /\ frames = SubSeq(q, 1, Len(q) - 1)
    BY <1>7 DEF Front
  <2> HIDE DEF q, n, frames
  <2>2. frames \in Seq(FrameType) /\ Len(frames) = n - 1
        /\ \A i \in 1 .. n - 1 : frames[i] = q[i]
    BY <1>1, <2>1
  <2> QED
    BY <2>2 DEF q
<1> HIDE DEF frames
<1>9. early \in Committed /\ (f.wrapper = "recorder" => early = k.committed)
  BY <1>1, <1>7, CodeAssumption DEF Committed
<1>10. /\ f.wrapper = "grpc" => outcome \in {"500", "200"}
       /\ f.wrapper # "grpc" => outcome = FrameStatus(f, early)
  OBVIOUS
<1>11. /\ f.wrapper = "grpc" => committed = outcome
       /\ f.wrapper # "grpc" /\ n = 1 => committed = IF early = Unset THEN "200" ELSE early
       /\ f.wrapper # "grpc" /\ n # 1 => committed = early
  OBVIOUS
<1>12. fields \in Fields
  BY <1>7 DEF Fields, Kind
<1>13. end \in {"no", "returned", "panicked"} /\ (n = 1 => end = "returned")
       /\ (n # 1 => end = k.end)
  BY <1>7
<1>14. /\ f.wrapper \in WrapperKind /\ f.status \in Status
  BY <1>4 DEF FrameType
<1> HIDE DEF early, outcome, fields, committed, end
<1>15. outcome \in Outcome \ {"none"}
  BY <1>9, <1>10, <1>14, CodeAssumption
  DEF Outcome, FrameStatus, Committed, Status, Informational, Unset
<1>16. committed \in Committed
  BY <1>9, <1>10, <1>11, CodeAssumption DEF Committed
<1>17. n = 1 /\ (f.wrapper = "recorder" => f.status = k.committed) => outcome = committed
  BY <1>9, <1>10, <1>11 DEF FrameStatus
<1>18. /\ k1 \in Handler /\ k1.span = k.span /\ k1.from = k.from /\ k1.incoming = k.incoming
       /\ k1.header = k.header /\ k1.metadata = k.metadata /\ k1.fields = fields
       /\ k1.end = end /\ k1.odd = k.odd /\ k1.frames = frames
       /\ k1.committed = committed
  <2> HIDE DEF k
  <2> QED BY <1>0, <1>8, <1>12, <1>13, <1>16 DEF Handler
<1> HIDE DEF k1
<1>19. Changed(h) /\ handlers'[h] = k1
  BY <1>3, <1>18, HandlerChanges
<1>20. Sent({f.span}, outcome, fields)
  <2>1. {f.span} \in SUBSET DOMAIN spans
    BY <1>4
  <2> QED
    BY <1>2, <1>12, <1>15, <2>1, SpansSent DEF Types
<1>21. n # 1 => committed = k.committed
  BY <1>5, <1>6, <1>9, <1>11
<1> HIDE DEF f
<1>22. Returns(h, outcome, fields)
  <2>1. Sent({k.frames[n].span}, outcome, fields)
    BY <1>4, <1>20
  <2>2. n = 1 /\ (k.frames[1].wrapper = "recorder" => k.frames[1].status = k.committed)
          => outcome = k1.committed
    BY <1>4, <1>17, <1>18
  <2>3. n # 0
    BY <1>1
  <2> HIDE DEF k, n
  <2> QED
    BY <1>2, <1>8, <1>12, <1>13, <1>15, <1>18, <1>19, <1>21, <2>1, <2>2, <2>3
    DEF Returns, k, n
<1> QED
  BY <1>22

\* All the handler's open spans are sent.
Panics(h) ==
  LET k == handlers[h]
      k1 == handlers'[h] IN
  /\ h \in 1 .. Len(handlers) /\ Changed(h) /\ SameTrace(h) /\ UNCHANGED calls
  /\ Len(k.frames) # 0 /\ Len(k1.frames) = 0 /\ k1.end = "panicked"
  /\ Sent({k.frames[i].span : i \in 1 .. Len(k.frames)}, "none", k.fields)

LEMMA PanicPanics ==
  ASSUME Types, FrameInv, NEW h \in 1 .. Len(handlers), Panic(h)
  PROVE  Panics(h)
<1> DEFINE k == handlers[h]
           k1 == [k EXCEPT !.frames = <<>>, !.end = "panicked"]
           S == {k.frames[i].span : i \in 1 .. Len(k.frames)}
<1>0. k \in Handler
  BY Typed
<1>1. UNCHANGED calls /\ Len(k.frames) # 0
  BY <1>0 DEF Panic, Running, Handler
<1>2. handlers' = [handlers EXCEPT ![h] = k1]
  BY Typed DEF Panic
<1>3. /\ k1 \in Handler /\ k1.span = k.span /\ k1.from = k.from /\ k1.incoming = k.incoming
      /\ k1.header = k.header /\ k1.metadata = k.metadata /\ k1.fields = k.fields
      /\ k1.end = "panicked" /\ k1.frames = <<>>
  <2>1. <<>> \in Seq(FrameType)
    OBVIOUS
  <2> HIDE DEF k
  <2> QED BY <1>0, <2>1 DEF Handler
<1> HIDE DEF k1
<1>4. Changed(h) /\ handlers'[h] = k1
  BY <1>2, <1>3, HandlerChanges
<1>5. S = {f.span : f \in Range(k.frames)}
  BY FramesTyped DEF Range
<1>6. S \in SUBSET DOMAIN spans
  BY DEF FrameInv, FramesOf
<1>7. spans' = Send(S, "none", k.fields)
  <2>1. spans' = Send({f.span : f \in Range(k.frames)}, "none", k.fields)
    BY DEF Panic, SentByPanic
  <2> HIDE DEF S
  <2> QED
    BY <1>5, <2>1
<1>8. k.fields \in Fields /\ "none" \in Outcome
  BY <1>0 DEF Handler, Outcome
<1> HIDE DEF S
<1>9. Sent(S, "none", k.fields)
  BY <1>6, <1>7, <1>8, SpansSent DEF Types
<1> QED
  BY <1>1, <1>3, <1>4, <1>9 DEF Panics, SameTrace, S

-------------------------------------------------------------------------------
(* Calls.                                                                  *)

\* A call is made: a new one after the others.
Made(call) ==
  LET c == Len(calls) + 1 IN
  /\ CallsTyped' /\ Len(calls') = c /\ calls'[c] = call
  /\ \A i \in 1 .. Len(calls) : calls'[i] = calls[i]

LEMMA CallMade ==
  ASSUME Types, NEW call \in CallType, calls' = Append(calls, call)
  PROVE  Made(call)
<1>1. calls \in Seq(CallType)
  BY DEF Types, CallsTyped
<1> QED
  BY <1>1, Appended DEF Made, CallsTyped

\* The header of a call's span s in the trace.
NamesSpan(w, trace, s) ==
  /\ w \in HoneycombHeader /\ w.version = 1 /\ w.context.decodes
  /\ w.trace = trace /\ w.parent = s

LEMMA HeaderNames ==
  ASSUME Types, FrameInv, NEW h \in 1 .. Len(handlers), Running(h), NEW s \in SpanId
  PROVE  LET f == handlers[h].frames[1] IN
         /\ f.span \in DOMAIN spans
         /\ NamesSpan(CallHeader(h, s), spans[f.span].trace, s)
<1> DEFINE k == handlers[h]
           trace == spans[k.frames[1].span].trace
           p == [Empty EXCEPT !.trace = trace, !.parent = s, !.fields = k.fields]
           w == CallHeader(h, s)
<1>1. k \in Handler
  BY Typed
<1>2. 1 \in 1 .. Len(k.frames)
  BY <1>1 DEF Running, Handler
<1>3. k.frames[1].span \in DOMAIN spans
  BY <1>2 DEF FrameInv, FramesOf
<1>4. trace \in Id
  BY <1>3, Typed DEF Span
<1>5. k.fields \in Fields
  BY <1>1 DEF Handler
<1>6. w = MarshalHoneycomb(p, FALSE)
  BY DEF CallHeader
<1> HIDE DEF trace
<1>7. p.trace = trace /\ p.parent = s /\ p.fields = k.fields
  BY EmptyContext DEF Context
<1> HIDE DEF p, w
<1>8. w = [version |-> 1, trace |-> trace, parent |-> s, dataset |-> NoDataset,
           context |-> HoneycombContext(k.fields), cut |-> "nowhere"]
  BY <1>6, <1>7 DEF MarshalHoneycomb
<1>9. \E fields \in Fields :
        HoneycombContext(k.fields) = [decodes |-> TRUE, fields |-> fields]
  <2>1. [n \in FieldName |-> JSON(k.fields[n])] \in Fields
    BY <1>5 DEF Fields, JSON, Kind
  <2>2. NoFields \in Fields
    BY EmptyContext DEF Empty
  <2>3. \/ HoneycombContext(k.fields) = [decodes |-> TRUE, fields |-> NoFields]
        \/ HoneycombContext(k.fields) =
             [decodes |-> TRUE, fields |-> [n \in FieldName |-> JSON(k.fields[n])]]
    BY DEF HoneycombContext
  <2> QED
    BY <2>1, <2>2, <2>3
<1>10. PICK fields \in Fields :
         HoneycombContext(k.fields) = [decodes |-> TRUE, fields |-> fields]
  BY <1>9
<1>11. w = [version |-> 1, trace |-> trace, parent |-> s, dataset |-> NoDataset,
            context |-> [decodes |-> TRUE, fields |-> fields], cut |-> "nowhere"]
  BY <1>8, <1>10
<1>12. NamesSpan(w, trace, s)
  BY <1>4, <1>11, SpanIdsAreIds DEF NamesSpan, HoneycombHeader
<1> QED
  BY <1>3, <1>12 DEF w, trace

\* A call with a span s below that of the innermost wrapper.
Calls(h, s, call) ==
  LET k == handlers[h]
      k1 == handlers'[h]
      up == k.frames[Len(k.frames)].span IN
  /\ h \in 1 .. Len(handlers) /\ Changed(h) /\ Len(k.frames) \in Nat \ {0}
  /\ k1.metadata = k.metadata /\ k1.fields = k.fields /\ k1.frames = k.frames
  /\ k1.committed = k.committed /\ k1.odd = k.odd /\ k1.end = k.end
  /\ Started(s, NewSpan(spans[up].trace, up, up, h))
  /\ Made(call) /\ call.handler = h /\ call.span = s
  /\ call.mode \in {"http", "grpc", "grpcHook"}
  /\ k1.header = IF call.mode = "http" THEN call.honeycomb ELSE k.header
  /\ \E w, carried :
       /\ NamesSpan(w, spans[k.frames[1].span].trace, s)
       /\ carried \in Headers /\ call.honeycomb = Append(carried, w)
       /\ \/ carried = <<>>
          \/ call.mode = "http" /\ carried = k.header
          \/ call.mode = "grpcHook" /\ carried = k.metadata

LEMMA CallCalls ==
  ASSUME Types, FrameInv, NEW h \in 1 .. Len(handlers), NEW mode \in Mode \ Untraced,
         NEW again \in BOOLEAN, Call(h, mode, again)
  PROVE  \E s, call : Calls(h, s, call)
<1> DEFINE k == handlers[h]
           s == getNewID
           w == CallHeader(h, s)
           carried == CASE mode = "http" -> IF again THEN k.header ELSE <<>>
                        [] mode = "grpc" -> <<>>
                        [] mode = "grpcHook" -> k.metadata
           sent == CASE mode = "http" -> Append(IF again THEN k.header ELSE <<>>, w)
                     [] mode = "grpc" -> <<w>>
                     [] mode = "grpcHook" -> Append(k.metadata, w)
           up == k.frames[Len(k.frames)].span
           call == [handler |-> h, mode |-> mode, span |-> s, honeycomb |-> sent,
                    result |-> "out"]
           k1 == [k EXCEPT !.header = IF mode = "http" THEN sent ELSE k.header]
<1>0. k \in Handler /\ mode \in {"http", "grpc", "grpcHook"}
  BY Typed DEF Mode, Untraced
<1>1. Running(h) /\ Len(k.frames) \in Nat \ {0}
  BY <1>0 DEF Call, Running, Handler
<1>2. Started(s, NewSpan(spans[up].trace, up, up, h))
  BY SpanStarts DEF Call, Top
<1>3. calls' = Append(calls, call)
  BY DEF Call
<1>4. handlers' = IF mode = "http" THEN [handlers EXCEPT ![h].header = sent] ELSE handlers
  BY DEF Call
<1>5. s \in SpanId
  BY <1>2 DEF Started
<1>6. NamesSpan(w, spans[k.frames[1].span].trace, s)
  BY <1>1, <1>5, HeaderNames
<1>7. k.header \in Headers /\ k.metadata \in Headers /\ <<>> \in Headers
  BY <1>0 DEF Handler, Headers
<1>8. carried \in Headers
  BY <1>0, <1>7
<1>9. /\ \/ carried = <<>>
         \/ mode = "http" /\ carried = k.header
         \/ mode = "grpcHook" /\ carried = k.metadata
  BY <1>0
<1> HIDE DEF w, s
<1>10. sent = Append(carried, w)
  <2>1. <<w>> = Append(<<>>, w)
    OBVIOUS
  <2> QED
    BY <1>0, <2>1
<1> HIDE DEF carried, sent
<1>11. sent \in Headers
  BY <1>6, <1>8, <1>10, Appended DEF Headers, NamesSpan
<1>12. call \in CallType
  BY <1>0, <1>5, <1>11, Typed DEF CallType, Mode
<1>13. Made(call)
  BY <1>3, <1>12, CallMade
<1>14. handlers' = [handlers EXCEPT ![h] = k1]
  <2>1. CASE mode = "http"
    BY <1>4, <2>1, Typed
  <2>2. CASE mode # "http"
    <3>1. k1 = k
      BY <1>0, <2>2 DEF Handler
    <3> HIDE DEF k1
    <3> QED
      BY <1>4, <2>2, <3>1, Replaced DEF Types, HandlersTyped
  <2> QED
    BY <2>1, <2>2
<1>15. /\ k1 \in Handler /\ k1.span = k.span /\ k1.from = k.from /\ k1.incoming = k.incoming
       /\ k1.header = IF mode = "http" THEN sent ELSE k.header
       /\ k1.metadata = k.metadata /\ k1.fields = k.fields
       /\ k1.end = k.end /\ k1.odd = k.odd /\ k1.frames = k.frames
       /\ k1.committed = k.committed
  <2> HIDE DEF k
  <2> QED BY <1>0, <1>7, <1>11 DEF Handler
<1> HIDE DEF k1
<1>16. Changed(h) /\ handlers'[h] = k1
  BY <1>14, <1>15, HandlerChanges
<1>17. call.handler = h /\ call.mode = mode /\ call.span = s /\ call.honeycomb = sent
  OBVIOUS
<1> HIDE DEF call
<1>18. \E x, y :
         /\ NamesSpan(x, spans[k.frames[1].span].trace, s)
         /\ y \in Headers /\ call.honeycomb = Append(y, x)
         /\ \/ y = <<>>
            \/ call.mode = "http" /\ y = k.header
            \/ call.mode = "grpcHook" /\ y = k.metadata
  BY <1>6, <1>8, <1>9, <1>10, <1>17
<1>19. Calls(h, s, call)
  BY <1>0, <1>1, <1>2, <1>13, <1>15, <1>16, <1>17, <1>18 DEF Calls
<1> QED
  BY <1>19

\* A call without a span.
CallsUntraced(h, call) ==
  /\ h \in 1 .. Len(handlers) /\ UNCHANGED <<spans, handlers>>
  /\ Made(call) /\ call.handler = h /\ call.mode \in Untraced /\ call.span = NoId
  /\ call.honeycomb = IF call.mode = "grpcUntraced" THEN handlers[h].metadata
                      ELSE handlers[h].header

LEMMA CallUntracedCalls ==
  ASSUME Types, NEW h \in 1 .. Len(handlers), NEW mode \in Untraced, CallUntraced(h, mode)
  PROVE  \E call : CallsUntraced(h, call)
<1> DEFINE carried == IF mode = "grpcUntraced" THEN handlers[h].metadata
                      ELSE handlers[h].header
           call == [handler |-> h, mode |-> mode, span |-> NoId,
                    honeycomb |-> carried, result |-> "out"]
<1>1. carried \in Headers
  BY Typed DEF Handler
<1>2. call \in CallType
  BY <1>1, Typed DEF CallType, Mode
<1>3. Made(call)
  BY <1>2, CallMade DEF CallUntraced
<1>4. CallsUntraced(h, call)
  BY <1>3 DEF CallUntraced, CallsUntraced
<1> QED
  BY <1>4

\* The call is out no more and its span, if it has one, is sent.
Ends(c) ==
  /\ c \in 1 .. Len(calls) /\ UNCHANGED handlers
  /\ CallsTyped' /\ Len(calls') = Len(calls)
  /\ \A i \in 1 .. Len(calls) :
       /\ calls'[i].handler = calls[i].handler /\ calls'[i].mode = calls[i].mode
       /\ calls'[i].span = calls[i].span /\ calls'[i].honeycomb = calls[i].honeycomb
  /\ calls[c].result = "out" /\ calls'[c].result # "out"
  /\ \A i \in 1 .. Len(calls) : i # c => calls'[i].result = calls[i].result
  /\ \/ calls[c].span = NoId /\ UNCHANGED spans
     \/ \E outcome, fields :
          /\ calls[c].span # NoId /\ Sent({calls[c].span}, outcome, fields)
          /\ outcome = calls'[c].result

LEMMA EndCallEnds ==
  ASSUME Types, CallInv, NEW c \in 1 .. Len(calls), NEW o \in Responses(c), EndCall(c, o)
  PROVE  Ends(c)
<1> DEFINE call == calls[c]
           call1 == [call EXCEPT !.result = o]
           codes == {handlers[h].committed :
                       h \in {k \in DOMAIN handlers : handlers[k].from = c}} \ {Unset}
<1>0. call \in CallType /\ calls \in Seq(CallType)
  BY Typed DEF Types, CallsTyped
<1>1. UNCHANGED handlers /\ calls' = [calls EXCEPT ![c] = call1]
  BY DEF EndCall
<1>2. codes \subseteq Code
  BY Typed DEF Handler, Committed
<1>3. o \in Outcome /\ o # "out"
  <2>1. o \in {"error", "none"} \cup codes
    BY DEF Responses
  <2> HIDE DEF codes
  <2> QED
    BY <1>2, <2>1, CodeAssumption DEF Outcome
<1>4. /\ call1 \in CallType /\ call1.handler = call.handler /\ call1.mode = call.mode
      /\ call1.span = call.span /\ call1.honeycomb = call.honeycomb /\ call1.result = o
  <2> HIDE DEF call
  <2> QED BY <1>0, <1>3 DEF CallType
<1> HIDE DEF call1
<1>5. /\ CallsTyped' /\ Len(calls') = Len(calls)
      /\ \A i \in 1 .. Len(calls) : calls'[i] = IF i = c THEN call1 ELSE calls[i]
  <2> HIDE DEF call
  <2>1. calls' \in Seq(CallType) /\ Len(calls') = Len(calls)
        /\ \A i \in 1 .. Len(calls) : calls'[i] = IF i = c THEN call1 ELSE calls[i]
    BY <1>0, <1>1, <1>4, Replaced
  <2> QED
    BY <2>1 DEF CallsTyped
<1>6. \A i \in 1 .. Len(calls) :
        /\ calls'[i].handler = calls[i].handler /\ calls'[i].mode = calls[i].mode
        /\ calls'[i].span = calls[i].span /\ calls'[i].honeycomb = calls[i].honeycomb
  BY <1>4, <1>5
<1>7. call.result = "out" /\ calls'[c].result = o
      /\ \A i \in 1 .. Len(calls) : i # c => calls'[i].result = calls[i].result
  BY <1>4, <1>5 DEF EndCall
<1>8. \/ call.span = NoId /\ UNCHANGED spans
      \/ \E outcome, fields :
           /\ call.span # NoId /\ Sent({call.span}, outcome, fields)
           /\ outcome = calls'[c].result
  <2>1. CASE call.span = NoId
    BY <2>1 DEF EndCall, CallEnded
  <2>2. CASE call.span # NoId
    <3>1. spans' = Send({call.span}, o, handlers[call.handler].fields)
      BY <2>2 DEF EndCall, CallEnded
    <3>2. {call.span} \in SUBSET DOMAIN spans /\ call.handler \in 1 .. Len(handlers)
      BY <2>2 DEF CallInv
    <3>3. handlers[call.handler].fields \in Fields
      BY <3>2, Typed DEF Handler
    <3>4. Sent({call.span}, o, handlers[call.handler].fields)
      BY <1>3, <3>1, <3>2, <3>3, SpansSent DEF Types
    <3> QED
      BY <1>7, <2>2, <3>4
  <2> QED
    BY <2>1, <2>2
<1> QED
  BY <1>1, <1>3, <1>5, <1>6, <1>7, <1>8 DEF Ends

-------------------------------------------------------------------------------
(* Every step is one of the above, and keeps what others have read.        *)

Effect ==
  \/ \E h : Responds(h)
  \/ \E h : Forwards(h)
  \/ \E h, s : Wraps(h, s)
  \/ \E from, s : StartsHandler(from, s)
  \/ \E h, outcome, fields : Returns(h, outcome, fields)
  \/ \E h : Panics(h)
  \/ \E h, s, call : Calls(h, s, call)
  \/ \E h, call : CallsUntraced(h, call)
  \/ \E c : Ends(c)
  \/ UNCHANGED <<spans, handlers, calls>>

LEMMA ArriveEffect ==
  ASSUME Types, NEW r \in ForeignRequest, NEW w \in Wrapper, Arrive(r, w)
  PROVE  Effect
<1>1. /\ r.honeycomb \in Headers /\ r.traceparent \in TraceparentHeader
      /\ \A i \in DOMAIN r.honeycomb : r.honeycomb[i].parent \notin SpanId
      /\ r.traceparent.parent \notin SpanId
  BY ForeignAssumption DEF Headers
<1>2. KnownAll(r.honeycomb)
  BY <1>1 DEF KnownAll, Known, Headers
<1>3. Known(r.traceparent.trace, r.traceparent.parent)
  BY <1>1 DEF Known
<1>4. StartSpanOrTrace(r, w, 0) /\ 0 \in 0 .. Len(calls)
  BY Typed DEF Arrive
<1>5. \E s : StartsHandler(0, s)
  BY <1>1, <1>2, <1>3, <1>4, StartStarts
<1> QED
  BY <1>5 DEF Effect

LEMMA DeliverEffect ==
  ASSUME Types, TraceInv, NEW c \in 1 .. Len(calls), NEW w \in Wrapper, Deliver(c, w)
  PROVE  Effect
<1> DEFINE r == [honeycomb |-> calls[c].honeycomb, traceparent |-> NoTraceparent]
<1>1. r.honeycomb = calls[c].honeycomb /\ r.traceparent = NoTraceparent
  OBVIOUS
<1>2. calls[c].honeycomb \in Headers /\ KnownAll(calls[c].honeycomb)
  BY Typed DEF CallType, TraceInv
<1>3. NoTraceparent \in TraceparentHeader /\ ~NoTraceparent.wellFormed
  BY DEF NoTraceparent, TraceparentHeader
<1>4. StartSpanOrTrace(r, w, c) /\ c \in 0 .. Len(calls)
  BY Typed DEF Deliver
<1> HIDE DEF r
<1>5. \E s : StartsHandler(c, s)
  BY <1>1, <1>2, <1>3, <1>4, StartStarts
<1> QED
  BY <1>5 DEF Effect

LEMMA OperationEffect ==
  ASSUME Types, FrameInv, NEW h \in 1 .. Len(handlers), Operation(h)
  PROVE  Effect
<1>1. CASE Wrap(h)
  BY <1>1, WrapWraps DEF Effect
<1>2. CASE Write(h)
  BY <1>2, WriteResponds DEF Effect
<1>3. CASE WriteInformational(h)
  BY <1>3, WriteInformationalResponds DEF Effect
<1>4. CASE Forward(h)
  BY <1>4, ForwardForwards DEF Effect
<1>5. ASSUME NEW mode \in Untraced, CallUntraced(h, mode) PROVE Effect
  BY <1>5, CallUntracedCalls DEF Effect
<1>6. ASSUME NEW code \in Code, WriteHeader(h, code) PROVE Effect
  BY <1>6, WriteHeaderResponds DEF Effect
<1>7. ASSUME NEW mode \in Mode \ Untraced, NEW again \in BOOLEAN, Call(h, mode, again)
      PROVE  Effect
  BY <1>7, CallCalls DEF Effect
<1> QED
  BY <1>1, <1>2, <1>3, <1>4, <1>5, <1>6, <1>7 DEF Operation

LEMMA StepEffect ==
  ASSUME Base, TraceInv, [Next]_vars
  PROVE  Effect
<1>0. /\ Types /\ FrameInv /\ CallInv
      /\ DOMAIN handlers = 1 .. Len(handlers) /\ DOMAIN calls = 1 .. Len(calls)
  BY Typed DEF Base
<1>1. ASSUME NEW r \in ForeignRequest, NEW w \in Wrapper, Arrive(r, w) PROVE Effect
  BY <1>0, <1>1, ArriveEffect
<1>2. ASSUME NEW c \in 1 .. Len(calls), NEW w \in Wrapper, Deliver(c, w) PROVE Effect
  BY <1>0, <1>2, DeliverEffect
<1>3. ASSUME NEW h \in 1 .. Len(handlers), Panic(h) PROVE Effect
  BY <1>0, <1>3, PanicPanics DEF Effect
<1>4. ASSUME NEW h \in 1 .. Len(handlers), NEW err \in BOOLEAN, Return(h, err) PROVE Effect
  BY <1>0, <1>4, ReturnReturns DEF Effect
<1>5. ASSUME NEW h \in 1 .. Len(handlers), Operation(h) PROVE Effect
  BY <1>0, <1>5, OperationEffect
<1>6. ASSUME NEW c \in 1 .. Len(calls), NEW o \in Responses(c), EndCall(c, o) PROVE Effect
  BY <1>0, <1>6, EndCallEnds DEF Effect
<1>7. CASE UNCHANGED vars
  BY <1>7 DEF vars, Effect
<1> QED
  BY <1>0, <1>1, <1>2, <1>3, <1>4, <1>5, <1>6, <1>7 DEF Next

SpansKept ==
  \A x \in DOMAIN spans :
    /\ x \in DOMAIN spans' /\ Fixed(x)
    /\ spans[x].sent = "self" => spans'[x] = spans[x]
HandlersKept ==
  /\ Len(handlers') \in Nat /\ Len(handlers) <= Len(handlers')
  /\ \A j \in 1 .. Len(handlers) :
       /\ handlers'[j].span = handlers[j].span /\ handlers'[j].from = handlers[j].from
       /\ handlers'[j].incoming = handlers[j].incoming
       /\ handlers[j].metadata # <<>> => handlers'[j].metadata # <<>>
       /\ handlers[j].end # "no" =>
            /\ handlers'[j].end = handlers[j].end /\ handlers'[j].fields = handlers[j].fields
            /\ handlers'[j].odd = handlers[j].odd
            /\ handlers'[j].committed = handlers[j].committed
CallsKept ==
  /\ Len(calls') \in Nat /\ Len(calls) <= Len(calls')
  /\ \A i \in 1 .. Len(calls) :
       /\ calls'[i].handler = calls[i].handler /\ calls'[i].mode = calls[i].mode
       /\ calls'[i].span = calls[i].span /\ calls'[i].honeycomb = calls[i].honeycomb
  /\ \A i \in Len(calls) + 1 .. Len(calls') : calls'[i].span \notin DOMAIN spans

LEMMA NewSpanTyped ==
  ASSUME Types, NEW up \in DOMAIN spans, NEW h \in Nat
  PROVE  NewSpan(spans[up].trace, up, up, h) \in Span
<1>1. up \in SpanId /\ up \in Id /\ spans[up].trace \in Id \ {NoId}
  BY Typed, SpanIdsAreIds DEF Span
<1>2. NoFields \in Fields
  BY EmptyContext DEF Empty
<1> QED
  BY <1>1, <1>2 DEF NewSpan, Span, Outcome

LEMMA StartedKeeps ==
  ASSUME SpansTyped, NEW s, NEW new \in Span, Started(s, new)
  PROVE  SpansTyped' /\ SpansKept
BY DEF Started, SpansTyped, SpansKept, Fixed

LEMMA SentKeeps ==
  ASSUME SpansTyped, NEW S, NEW outcome, NEW fields, Sent(S, outcome, fields)
  PROVE  SpansTyped' /\ SpansKept
BY DEF Sent, SpansTyped, SpansKept

LEMMA SpansUnchangedKeeps ==
  ASSUME SpansTyped, UNCHANGED spans
  PROVE  SpansTyped' /\ SpansKept
BY DEF SpansTyped, SpansKept, Fixed

\* The spans of a step.
LEMMA EffectOnSpans ==
  ASSUME Base, Effect
  PROVE  SpansTyped' /\ SpansKept
<1>0. SpansTyped /\ Types /\ FrameInv /\ Len(handlers) \in Nat
  BY Typed DEF Base, Types
<1>1. \A h \in 1 .. Len(handlers) : \A i \in 1 .. Len(handlers[h].frames) :
        handlers[h].frames[i].span \in DOMAIN spans
  BY <1>0 DEF FrameInv, FramesOf
<1>2. ASSUME NEW h, Responds(h) PROVE UNCHANGED spans
  BY <1>2 DEF Responds
<1>3. ASSUME NEW h, Forwards(h) PROVE UNCHANGED spans
  BY <1>3 DEF Forwards
<1>4. ASSUME NEW h, NEW s, Wraps(h, s) PROVE SpansTyped' /\ SpansKept
  <2> DEFINE up == handlers[h].frames[1].span
  <2>1. h \in 1 .. Len(handlers) /\ Len(handlers[h].frames) = 1
        /\ Started(s, NewSpan(spans[up].trace, up, up, h))
    BY <1>4 DEF Wraps
  <2>2. up \in DOMAIN spans
    BY <1>1, <2>1
  <2> HIDE DEF up
  <2>3. NewSpan(spans[up].trace, up, up, h) \in Span
    BY <1>0, <2>1, <2>2, NewSpanTyped
  <2> QED
    BY <1>0, <2>1, <2>3, StartedKeeps
<1>5. ASSUME NEW from, NEW s, StartsHandler(from, s) PROVE SpansTyped' /\ SpansKept
  <2>1. Started(s, spans'[s]) /\ spans'[s] \in Span
    BY <1>5 DEF StartsHandler
  <2> QED
    BY <1>0, <2>1 DEF Started, SpansTyped, SpansKept, Fixed
<1>6. ASSUME NEW h, NEW outcome, NEW fields, Returns(h, outcome, fields)
      PROVE  SpansTyped' /\ SpansKept
  <2>1. \E S : Sent(S, outcome, fields)
    BY <1>6 DEF Returns
  <2> QED
    BY <1>0, <2>1, SentKeeps
<1>7. ASSUME NEW h, Panics(h) PROVE SpansTyped' /\ SpansKept
  <2>1. \E S, fields : Sent(S, "none", fields)
    BY <1>7 DEF Panics
  <2> QED
    BY <1>0, <2>1, SentKeeps
<1>8. ASSUME NEW h, NEW s, NEW call, Calls(h, s, call) PROVE SpansTyped' /\ SpansKept
  <2> DEFINE up == handlers[h].frames[Len(handlers[h].frames)].span
  <2>1. h \in 1 .. Len(handlers) /\ Len(handlers[h].frames) \in Nat \ {0}
        /\ Started(s, NewSpan(spans[up].trace, up, up, h))
    BY <1>8 DEF Calls
  <2>2. up \in DOMAIN spans
    BY <1>1, <2>1
  <2> HIDE DEF up
  <2>3. NewSpan(spans[up].trace, up, up, h) \in Span
    BY <1>0, <2>1, <2>2, NewSpanTyped
  <2> QED
    BY <1>0, <2>1, <2>3, StartedKeeps
<1>9. ASSUME NEW h, NEW call, CallsUntraced(h, call) PROVE UNCHANGED spans
  BY <1>9 DEF CallsUntraced
<1>10. ASSUME NEW c, Ends(c) PROVE SpansTyped' /\ SpansKept
  <2>1. \/ UNCHANGED spans
        \/ \E S, outcome, fields : Sent(S, outcome, fields)
    BY <1>10 DEF Ends
  <2> QED
    BY <1>0, <2>1, SentKeeps, SpansUnchangedKeeps
<1>11. UNCHANGED <<spans, handlers, calls>> => UNCHANGED spans
  OBVIOUS
<1> QED
  BY <1>0, <1>2, <1>3, <1>4, <1>5, <1>6, <1>7, <1>8, <1>9, <1>10, <1>11, SpansUnchangedKeeps
  DEF Effect

LEMMA ChangedKeeps ==
  ASSUME Base, NEW h \in 1 .. Len(handlers), Changed(h), handlers[h].end = "no",
         handlers[h].metadata # <<>> => handlers'[h].metadata # <<>>
  PROVE  HandlersTyped' /\ HandlersKept
<1>1. Len(handlers) \in Nat
  BY Typed DEF Base
<1> QED
  BY <1>1 DEF Changed, HandlersKept

LEMMA HandlersUnchangedKeeps ==
  ASSUME Base, UNCHANGED handlers
  PROVE  HandlersTyped' /\ HandlersKept
<1>1. Len(handlers) \in Nat /\ HandlersTyped
  BY Typed DEF Base, Types
<1> QED
  BY <1>1 DEF HandlersTyped, HandlersKept

\* A handler with frames has not ended.
LEMMA RunningOn ==
  ASSUME Base, NEW h \in 1 .. Len(handlers), Len(handlers[h].frames) # 0
  PROVE  handlers[h].end = "no"
BY DEF Base, FrameInv, FramesOf

LEMMA EffectOnHandlers ==
  ASSUME Base, Effect
  PROVE  HandlersTyped' /\ HandlersKept
<1>0. Len(handlers) \in Nat
  BY Typed DEF Base
<1>1. ASSUME NEW h, Responds(h) PROVE HandlersTyped' /\ HandlersKept
  <2>1. /\ h \in 1 .. Len(handlers) /\ Changed(h) /\ Len(handlers[h].frames) # 0
        /\ handlers'[h].metadata = handlers[h].metadata
    BY <1>1 DEF Responds, SameTrace
  <2> QED
    BY <2>1, RunningOn, ChangedKeeps
<1>2. ASSUME NEW h, Forwards(h) PROVE HandlersTyped' /\ HandlersKept
  <2>1. /\ h \in 1 .. Len(handlers) /\ Changed(h)
        /\ handlers'[h].metadata # <<>>
        /\ handlers'[h].end = handlers[h].end /\ handlers'[h].fields = handlers[h].fields
        /\ handlers'[h].odd = handlers[h].odd
        /\ handlers'[h].committed = handlers[h].committed
    BY <1>2 DEF Forwards
  <2> QED
    BY <1>0, <2>1 DEF Changed, HandlersKept
<1>3. ASSUME NEW h, NEW s, Wraps(h, s) PROVE HandlersTyped' /\ HandlersKept
  <2>1. /\ h \in 1 .. Len(handlers) /\ Changed(h) /\ Len(handlers[h].frames) # 0
        /\ handlers'[h].metadata = handlers[h].metadata
    BY <1>3 DEF Wraps, SameTrace
  <2> QED
    BY <2>1, RunningOn, ChangedKeeps
<1>4. ASSUME NEW from, NEW s, StartsHandler(from, s) PROVE HandlersTyped' /\ HandlersKept
  <2>1. /\ HandlersTyped' /\ Len(handlers') = Len(handlers) + 1
        /\ \A j \in 1 .. Len(handlers) : handlers'[j] = handlers[j]
    BY <1>4 DEF StartsHandler
  <2> QED
    BY <1>0, <2>1 DEF HandlersKept
<1>5. ASSUME NEW h, NEW outcome, NEW fields, Returns(h, outcome, fields)
      PROVE  HandlersTyped' /\ HandlersKept
  <2>1. /\ h \in 1 .. Len(handlers) /\ Changed(h) /\ Len(handlers[h].frames) # 0
        /\ handlers'[h].metadata = handlers[h].metadata
    BY <1>5 DEF Returns
  <2> QED
    BY <2>1, RunningOn, ChangedKeeps
<1>6. ASSUME NEW h, Panics(h) PROVE HandlersTyped' /\ HandlersKept
  <2>1. /\ h \in 1 .. Len(handlers) /\ Changed(h) /\ Len(handlers[h].frames) # 0
        /\ handlers'[h].metadata = handlers[h].metadata
    BY <1>6 DEF Panics, SameTrace
  <2> QED
    BY <2>1, RunningOn, ChangedKeeps
<1>7. ASSUME NEW h, NEW s, NEW call, Calls(h, s, call) PROVE HandlersTyped' /\ HandlersKept
  <2>1. /\ h \in 1 .. Len(handlers) /\ Changed(h) /\ Len(handlers[h].frames) # 0
        /\ handlers'[h].metadata = handlers[h].metadata
    BY <1>7 DEF Calls
  <2> QED
    BY <2>1, RunningOn, ChangedKeeps
<1>8. ASSUME NEW h, NEW call, CallsUntraced(h, call) PROVE UNCHANGED handlers
  BY <1>8 DEF CallsUntraced
<1>9. ASSUME NEW c, Ends(c) PROVE UNCHANGED handlers
  BY <1>9 DEF Ends
<1>10. UNCHANGED <<spans, handlers, calls>> => UNCHANGED handlers
  OBVIOUS
<1> QED
  BY <1>1, <1>2, <1>3, <1>4, <1>5, <1>6, <1>7, <1>8, <1>9, <1>10, HandlersUnchangedKeeps
  DEF Effect

LEMMA MadeKeeps ==
  ASSUME Base, NEW call, Made(call), call.span \notin DOMAIN spans
  PROVE  CallsTyped' /\ CallsKept
<1>1. Len(calls) \in Nat
  BY Typed DEF Base
<1>2. \A i \in Len(calls) + 1 .. Len(calls) + 1 : i = Len(calls) + 1
  BY <1>1
<1> QED
  BY <1>1, <1>2 DEF Made, CallsKept

LEMMA CallsUnchangedKeeps ==
  ASSUME Base, UNCHANGED calls
  PROVE  CallsTyped' /\ CallsKept
<1>1. Len(calls) \in Nat /\ CallsTyped
  BY Typed DEF Base, Types
<1>2. Len(calls) + 1 .. Len(calls) = {}
  BY <1>1
<1> QED
  BY <1>1, <1>2 DEF CallsTyped, CallsKept

LEMMA EffectOnCalls ==
  ASSUME Base, Effect
  PROVE  CallsTyped' /\ CallsKept
<1>0. Len(calls) \in Nat /\ DOMAIN spans \subseteq SpanId
  BY Typed DEF Base
<1>1. ASSUME NEW h, Responds(h) PROVE UNCHANGED calls
  BY <1>1 DEF Responds
<1>2. ASSUME NEW h, Forwards(h) PROVE UNCHANGED calls
  BY <1>2 DEF Forwards
<1>3. ASSUME NEW h, NEW s, Wraps(h, s) PROVE UNCHANGED calls
  BY <1>3 DEF Wraps
<1>4. ASSUME NEW from, NEW s, StartsHandler(from, s) PROVE UNCHANGED calls
  BY <1>4 DEF StartsHandler
<1>5. ASSUME NEW h, NEW outcome, NEW fields, Returns(h, outcome, fields)
      PROVE  UNCHANGED calls
  BY <1>5 DEF Returns
<1>6. ASSUME NEW h, Panics(h) PROVE UNCHANGED calls
  BY <1>6 DEF Panics
<1>7. ASSUME NEW h, NEW s, NEW call, Calls(h, s, call) PROVE CallsTyped' /\ CallsKept
  <2>1. Made(call) /\ call.span \notin DOMAIN spans
    BY <1>7 DEF Calls, Started
  <2> QED
    BY <2>1, MadeKeeps
<1>8. ASSUME NEW h, NEW call, CallsUntraced(h, call) PROVE CallsTyped' /\ CallsKept
  <2>1. Made(call) /\ call.span \notin DOMAIN spans
    BY <1>0, <1>8, SpanIdsAreIds DEF CallsUntraced
  <2> QED
    BY <2>1, MadeKeeps
<1>9. ASSUME NEW c, Ends(c) PROVE CallsTyped' /\ CallsKept
  <2>1. Len(calls) + 1 .. Len(calls) = {}
    BY <1>0
  <2> QED
    BY <1>0, <1>9, <2>1 DEF Ends, CallsKept
<1>10. UNCHANGED <<spans, handlers, calls>> => UNCHANGED calls
  OBVIOUS
<1> QED
  BY <1>1, <1>2, <1>3, <1>4, <1>5, <1>6, <1>7, <1>8, <1>9, <1>10, CallsUnchangedKeeps
  DEF Effect

Kept == Types' /\ SpansKept /\ HandlersKept /\ CallsKept

LEMMA EffectKeeps ==
  ASSUME Base, Effect
  PROVE  Kept
BY EffectOnSpans, EffectOnHandlers, EffectOnCalls DEF Kept, Types

\* A span stays what it is to calls.
CalledNext(x) == \E c \in DOMAIN calls' : calls'[c].span = x

LEMMA CallSpansStay ==
  ASSUME Base, Kept, NEW x \in DOMAIN spans
  PROVE  CalledNext(x) <=> IsCall(x)
<1>1. /\ DOMAIN calls = 1 .. Len(calls) /\ Len(calls) \in Nat
      /\ DOMAIN calls' = 1 .. Len(calls') /\ Len(calls') \in Nat
      /\ Len(calls) <= Len(calls')
  BY Typed DEF Base, Kept, Types, CallsTyped, CallsKept
<1>2. /\ \A i \in 1 .. Len(calls) : /\ calls'[i].span = calls[i].span
                                    /\ calls'[i].mode = calls[i].mode
      /\ \A i \in Len(calls) + 1 .. Len(calls') : calls'[i].span # x
  BY DEF Kept, CallsKept
<1>3. \A i : i \in 1 .. Len(calls') <=>
               i \in 1 .. Len(calls) \/ i \in Len(calls) + 1 .. Len(calls')
  BY <1>1
<1>4. CalledNext(x) <=> \E c \in 1 .. Len(calls') : calls'[c].span = x
  BY <1>1 DEF CalledNext
<1>5. IsCall(x) <=> \E c \in 1 .. Len(calls) : calls[c].span = x
  BY <1>1 DEF IsCall
<1> QED
  BY <1>2, <1>3, <1>4, <1>5

LEMMA NotYetCalled ==
  ASSUME Base, UNCHANGED calls, NEW s \in SpanId, s \notin DOMAIN spans
  PROVE  ~CalledNext(s)
<1>1. \A c \in DOMAIN calls : calls[c].span = NoId \/ calls[c].span \in DOMAIN spans
  BY Typed DEF Base, CallInv
<1> QED
  BY <1>1, SpanIdsAreIds DEF CalledNext

\* Frames stay when their spans do.
LEMMA FramesStay ==
  ASSUME Base, Kept, NEW h \in 1 .. Len(handlers),
         Len(handlers'[h].frames) \in Nat,
         Len(handlers'[h].frames) <= Len(handlers[h].frames),
         Len(handlers'[h].frames) # 0 => handlers'[h].end = handlers[h].end,
         \A i \in 1 .. Len(handlers'[h].frames) :
           /\ handlers'[h].frames[i].span = handlers[h].frames[i].span
           /\ handlers'[h].frames[i].wrapper = handlers[h].frames[i].wrapper
           /\ spans'[handlers[h].frames[i].span].sent = "no"
  PROVE  FramesOf(h)'
<1> DEFINE k == handlers[h]
           k1 == handlers'[h]
           n == Len(k.frames)
           n1 == Len(k1.frames)
<1>1. n \in Nat /\ n <= 2 /\ n1 \in Nat /\ n1 <= n /\ k.span \in DOMAIN spans
      /\ (n # 0 => k.end = "no")
  BY FramesTyped DEF Base, FrameInv, FramesOf
<1>2. \A i \in 1 .. n :
        LET s == k.frames[i].span IN
        /\ s \in DOMAIN spans /\ spans[s].handler = h /\ ~IsCall(s)
        /\ spans[s].trace = spans[k.span].trace
        /\ i = 1 => s = k.span /\ spans[s].above = NoId
        /\ i = 2 => s # k.span /\ spans[s].above = k.span /\ k.frames[i].wrapper = "recorder"
  BY FrameSpan
<1>3. k1.span = k.span
  BY DEF Kept, HandlersKept
<1>4. \A x \in DOMAIN spans : /\ x \in DOMAIN spans' /\ Fixed(x)
                              /\ CalledNext(x) <=> IsCall(x)
  BY CallSpansStay DEF Kept, SpansKept
<1>5. \A i \in 1 .. n1 : /\ i \in 1 .. n /\ k1.frames[i].span = k.frames[i].span
                         /\ k1.frames[i].wrapper = k.frames[i].wrapper
                         /\ spans'[k.frames[i].span].sent = "no"
  <2>1. \A i \in 1 .. n1 : i \in 1 .. n
    <3> HIDE DEF n, n1
    <3> QED BY <1>1
  <2> QED
    BY <2>1
<1>6. n1 # 0 => k1.end = "no"
  <2>1. n1 # 0 => n # 0
    <3> HIDE DEF n, n1
    <3> QED BY <1>1
  <2> QED
    BY <1>1, <2>1
<1> HIDE DEF n, n1, k, k1
<1>7. \A i \in 1 .. n1 :
        LET s == k1.frames[i].span IN
        /\ s \in DOMAIN spans' /\ spans'[s].sent = "no" /\ spans'[s].handler = h
        /\ ~CalledNext(s)
        /\ spans'[s].trace = spans'[k1.span].trace
        /\ i = 1 => s = k1.span /\ spans'[s].above = NoId
        /\ i = 2 => s # k1.span /\ spans'[s].above = k1.span /\ k1.frames[i].wrapper = "recorder"
  <2> TAKE i \in 1 .. n1
  <2> DEFINE s == k.frames[i].span
  <2>1. /\ i \in 1 .. n /\ k1.frames[i].span = s /\ k1.frames[i].wrapper = k.frames[i].wrapper
        /\ spans'[s].sent = "no"
    BY <1>5
  <2>2. /\ s \in DOMAIN spans /\ spans[s].handler = h /\ ~IsCall(s)
        /\ spans[s].trace = spans[k.span].trace
        /\ i = 1 => s = k.span /\ spans[s].above = NoId
        /\ i = 2 => s # k.span /\ spans[s].above = k.span /\ k.frames[i].wrapper = "recorder"
    BY <1>2, <2>1
  <2> HIDE DEF s
  <2>3. s \in DOMAIN spans' /\ Fixed(s) /\ (CalledNext(s) <=> IsCall(s)) /\ Fixed(k.span)
    BY <1>1, <1>4, <2>2
  <2>4. /\ spans'[s].handler = h /\ spans'[s].trace = spans'[k.span].trace
        /\ spans'[s].above = spans[s].above
    BY <2>2, <2>3 DEF Fixed
  <2> QED
    BY <1>3, <2>1, <2>2, <2>3, <2>4
<1>8. n1 <= 2 /\ k1.span \in DOMAIN spans'
  BY <1>1, <1>3, <1>4
<1> QED
  BY <1>6, <1>7, <1>8 DEF FramesOf, IsCall, CalledNext, n1, k1

\* A frame's span that is not sent itself is not sent with another's either: what
\* is above it is of the same handler.
LEMMA FrameSpanStays ==
  ASSUME Base, NEW S \in SUBSET DOMAIN spans, NEW outcome, NEW fields,
         Sent(S, outcome, fields),
         NEW h \in 1 .. Len(handlers), NEW i \in 1 .. Len(handlers[h].frames),
         \A m \in 1 .. i : handlers[h].frames[m].span \notin S
  PROVE  spans'[handlers[h].frames[i].span].sent = "no"
<1> DEFINE k == handlers[h]
           x == k.frames[i].span
           up == k.frames[1].span
<1>1. /\ Len(k.frames) \in Nat /\ Len(k.frames) <= 2
      /\ 1 \in 1 .. Len(k.frames) /\ (i = 1 \/ i = 2)
  <2>1. Len(k.frames) \in Nat /\ Len(k.frames) <= 2
    BY FramesTyped DEF Base, FrameInv, FramesOf
  <2> HIDE DEF k
  <2> QED
    BY <2>1 DEF k
<1>2. /\ x \in DOMAIN spans /\ spans[x].sent = "no" /\ x \notin S
      /\ i = 1 => spans[x].above = NoId
      /\ i = 2 => spans[x].above = up
      /\ up \in DOMAIN spans /\ spans[up].above = NoId /\ up \notin S
  <2>1. x \in DOMAIN spans /\ spans[x].sent = "no"
        /\ (i = 1 => spans[x].above = NoId) /\ (i = 2 => spans[x].above = k.span)
    BY DEF Base, FrameInv, FramesOf
  <2>2. up \in DOMAIN spans /\ up = k.span /\ spans[up].above = NoId
    BY <1>1 DEF Base, FrameInv, FramesOf
  <2>3. x \notin S /\ up \notin S
    BY <1>1
  <2> QED
    BY <2>1, <2>2, <2>3
<1>3. NoId \notin DOMAIN spans
  BY SpanIdsAreIds, Typed DEF Base
<1>4. \/ spans'[x] = spans[x]
      \/ spans[x].above \in S
      \/ spans[x].above \in DOMAIN spans /\ spans[spans[x].above].above \in S
  BY <1>2 DEF Sent
<1> HIDE DEF x, up
<1>5. spans'[x] = spans[x]
  BY <1>1, <1>2, <1>3, <1>4
<1> QED
  BY <1>2, <1>5 DEF x

\* Handler j is not touched, nor are its spans sent.
LEMMA HandlerStays ==
  ASSUME Base, Kept, NEW j \in 1 .. Len(handlers), handlers'[j] = handlers[j],
         \A i \in 1 .. Len(handlers[j].frames) :
           spans'[handlers[j].frames[i].span].sent = "no"
  PROVE  FramesOf(j)'
<1>1. Len(handlers[j].frames) \in Nat
  BY FramesTyped DEF Base
<1> QED
  BY <1>1, FramesStay

LEMMA SpansStayOpen ==
  ASSUME Base, \A x \in DOMAIN spans : spans'[x] = spans[x],
         NEW j \in 1 .. Len(handlers), NEW i \in 1 .. Len(handlers[j].frames)
  PROVE  spans'[handlers[j].frames[i].span].sent = "no"
<1>1. /\ handlers[j].frames[i].span \in DOMAIN spans
      /\ spans[handlers[j].frames[i].span].sent = "no"
  BY DEF Base, FrameInv, FramesOf
<1> QED
  BY <1>1

\* The spans of handler h, or of calls, are none of another's frames.
LEMMA OthersStayOpen ==
  ASSUME Base, NEW S \in SUBSET DOMAIN spans, NEW outcome, NEW fields,
         Sent(S, outcome, fields), NEW h, NEW j \in 1 .. Len(handlers), j # h,
         \A s \in S : IsCall(s) \/ spans[s].handler = h,
         NEW i \in 1 .. Len(handlers[j].frames)
  PROVE  spans'[handlers[j].frames[i].span].sent = "no"
<1>1. \A m \in 1 .. Len(handlers[j].frames) :
        /\ spans[handlers[j].frames[m].span].handler = j
        /\ ~IsCall(handlers[j].frames[m].span)
  BY DEF Base, FrameInv, FramesOf
<1>2. \A m \in 1 .. i : m \in 1 .. Len(handlers[j].frames)
  BY FramesTyped DEF Base
<1>3. \A m \in 1 .. i : handlers[j].frames[m].span \notin S
  BY <1>1, <1>2
<1> QED
  BY <1>3, FrameSpanStays

LEMMA RespondsFrames ==
  ASSUME Base, Kept, NEW h, Responds(h)
  PROVE  FrameInv'
<1>1. /\ h \in 1 .. Len(handlers) /\ Changed(h) /\ handlers'[h].end = handlers[h].end
      /\ Len(handlers'[h].frames) = Len(handlers[h].frames)
      /\ \A i \in 1 .. Len(handlers[h].frames) :
           /\ handlers'[h].frames[i].span = handlers[h].frames[i].span
           /\ handlers'[h].frames[i].wrapper = handlers[h].frames[i].wrapper
  BY DEF Responds
<1>2. \A j \in 1 .. Len(handlers) : \A i \in 1 .. Len(handlers[j].frames) :
        spans'[handlers[j].frames[i].span].sent = "no"
  BY SpansStayOpen DEF Responds
<1>3. Len(handlers[h].frames) \in Nat
  BY <1>1, FramesTyped DEF Base
<1>4. FramesOf(h)'
  <2> DEFINE n == Len(handlers[h].frames)
             n1 == Len(handlers'[h].frames)
  <2>1. n1 = n /\ n1 \in Nat /\ n1 <= n
    BY <1>1, <1>3
  <2>2. \A i \in 1 .. n1 :
          /\ handlers'[h].frames[i].span = handlers[h].frames[i].span
          /\ handlers'[h].frames[i].wrapper = handlers[h].frames[i].wrapper
          /\ spans'[handlers[h].frames[i].span].sent = "no"
    BY <1>1, <1>2, <2>1
  <2> QED
    BY <1>1, <2>1, <2>2, FramesStay
<1>5. ASSUME NEW j \in 1 .. Len(handlers), j # h PROVE FramesOf(j)'
  BY <1>1, <1>2, <1>5, HandlerStays DEF Changed
<1> QED
  BY <1>1, <1>4, <1>5 DEF FrameInv, Changed

\* What leaves the frames of all handlers alone.
LEMMA NoFrames ==
  ASSUME Base, Kept, Len(handlers') = Len(handlers),
         \A x \in DOMAIN spans : spans'[x] = spans[x],
         \A j \in 1 .. Len(handlers) : /\ handlers'[j].frames = handlers[j].frames
                                       /\ handlers'[j].end = handlers[j].end
  PROVE  FrameInv'
<1>1. ASSUME NEW j \in 1 .. Len(handlers) PROVE FramesOf(j)'
  <2>1. Len(handlers[j].frames) \in Nat
    BY FramesTyped DEF Base
  <2>2. \A i \in 1 .. Len(handlers[j].frames) :
          spans'[handlers[j].frames[i].span].sent = "no"
    BY SpansStayOpen
  <2> QED
    BY SMTT(20), <2>1, <2>2, FramesStay
<1> QED
  BY <1>1 DEF FrameInv

LEMMA ForwardsFrames ==
  ASSUME Base, Kept, NEW h, Forwards(h)
  PROVE  FrameInv'
BY NoFrames DEF Forwards, Changed

LEMMA CallsFrames ==
  ASSUME Base, Kept, NEW h, NEW s, NEW call, Calls(h, s, call)
  PROVE  FrameInv'
BY NoFrames DEF Calls, Changed, Started

LEMMA StartedInSpans ==
  ASSUME NEW s, NEW new, Started(s, new)
  PROVE  /\ s \in SpanId /\ s \notin DOMAIN spans /\ s \in DOMAIN spans' /\ spans'[s] = new
         /\ \A x \in DOMAIN spans : spans'[x] = spans[x]
BY DEF Started

LEMMA WrapsFrames ==
  ASSUME Base, Kept, NEW h, NEW s, Wraps(h, s)
  PROVE  FrameInv'
<1> DEFINE k == handlers[h]
           k1 == handlers'[h]
           up == k.frames[1].span
           new == NewSpan(spans[up].trace, up, up, h)
<1>1. /\ h \in 1 .. Len(handlers) /\ Changed(h) /\ k1.end = k.end /\ UNCHANGED calls
      /\ Len(k.frames) = 1 /\ Len(k1.frames) = 2 /\ k1.frames[1] = k.frames[1]
      /\ k1.frames[2] = Frame(s, "recorder") /\ Started(s, new)
  BY DEF Wraps
<1>2. /\ s \in SpanId /\ s \notin DOMAIN spans /\ s \in DOMAIN spans' /\ spans'[s] = new
      /\ \A x \in DOMAIN spans : spans'[x] = spans[x]
  BY <1>1, StartedInSpans
<1>3. ASSUME NEW j \in 1 .. Len(handlers), j # h PROVE FramesOf(j)'
  BY <1>1, <1>2, <1>3, SpansStayOpen, HandlerStays DEF Changed
<1>4. /\ k.end = "no" /\ up \in DOMAIN spans /\ up = k.span
      /\ spans[up].sent = "no" /\ spans[up].handler = h /\ ~IsCall(up)
      /\ spans[up].above = NoId
  <2>1. h \in 1 .. Len(handlers) /\ 1 \in 1 .. Len(k.frames) /\ Len(k.frames) # 0
    BY <1>1
  <2>2. k.end = "no"
    BY <2>1 DEF Base, FrameInv, FramesOf
  <2> QED
    BY SMTT(20), <2>1, <2>2 DEF Base, FrameInv, FramesOf
<1>5. k1.span = k.span
  BY <1>1 DEF Changed
<1>6. /\ new.trace = spans[up].trace /\ new.above = up /\ new.handler = h /\ new.sent = "no"
  BY DEF NewSpan
<1>7. ~CalledNext(s)
  BY <1>1, <1>2, NotYetCalled
<1>8. ~CalledNext(up)
  BY <1>4, CallSpansStay
<1>9. up \in DOMAIN spans'
  BY <1>4 DEF Kept, SpansKept
<1>10. k1.frames[2].span = s /\ k1.frames[2].wrapper = "recorder"
  BY <1>1 DEF Frame
<1> HIDE DEF new, up
<1>11. k1.frames[1].span = up
  BY <1>1 DEF up
<1>12. 1 .. 2 = {1, 2}
  OBVIOUS
<1>13. s # up
  BY <1>2, <1>4
<1> HIDE DEF k, k1
<1>14. FramesOf(h)'
  BY SMTT(20), <1>1, <1>2, <1>4, <1>5, <1>6, <1>7, <1>8, <1>9, <1>10, <1>11, <1>12, <1>13
  DEF FramesOf, IsCall, CalledNext, k1
<1> QED
  BY <1>1, <1>3, <1>14 DEF FrameInv, Changed

LEMMA StartsFrames ==
  ASSUME Base, Kept, NEW from, NEW s, StartsHandler(from, s)
  PROVE  FrameInv'
<1>0. Len(handlers) \in Nat
  BY Typed DEF Base
<1> SUFFICES ASSUME NEW h, h = Len(handlers) + 1
             PROVE  FrameInv'
  OBVIOUS
<1> DEFINE k1 == handlers'[h]
           new == spans'[s]
<1>1. /\ UNCHANGED calls /\ Len(handlers') = h
      /\ \A j \in 1 .. Len(handlers) : handlers'[j] = handlers[j]
      /\ Started(s, new) /\ new.above = NoId /\ new.handler = h /\ new.sent = "no"
      /\ k1.span = s /\ Len(k1.frames) = 1 /\ k1.frames[1].span = s /\ k1.end = "no"
  BY DEF StartsHandler
<1>2. /\ s \in SpanId /\ s \notin DOMAIN spans /\ s \in DOMAIN spans'
      /\ \A x \in DOMAIN spans : spans'[x] = spans[x]
  BY <1>1, StartedInSpans
<1>3. ASSUME NEW j \in 1 .. Len(handlers) PROVE FramesOf(j)'
  BY <1>1, <1>2, SpansStayOpen, HandlerStays
<1>4. ~CalledNext(s)
  BY <1>1, <1>2, NotYetCalled
<1>5. 1 .. 1 = {1}
  OBVIOUS
<1> HIDE DEF new, k1
<1>7. FramesOf(h)'
  BY <1>1, <1>2, <1>4, <1>5 DEF FramesOf, IsCall, CalledNext, k1, new
<1>8. \A j \in 1 .. h : j = h \/ j \in 1 .. Len(handlers)
  BY <1>0
<1> QED
  BY <1>1, <1>3, <1>7, <1>8 DEF FrameInv

LEMMA ReturnsFrames ==
  ASSUME Base, Kept, NEW h, NEW outcome, NEW fields, Returns(h, outcome, fields)
  PROVE  FrameInv'
<1> DEFINE k == handlers[h]
           k1 == handlers'[h]
           n == Len(k.frames)
           S == {k.frames[n].span}
<1>1. /\ h \in 1 .. Len(handlers) /\ Changed(h)
      /\ n # 0 /\ Len(k1.frames) = n - 1
      /\ \A i \in 1 .. n - 1 : k1.frames[i] = k.frames[i]
      /\ Sent(S, outcome, fields)
      /\ n # 1 => k1.end = k.end
  BY DEF Returns
<1>2. n \in 1 .. n /\ n \in Nat /\ n <= 2
  <2>1. n \in Nat /\ n <= 2
    BY <1>1, FramesTyped DEF Base, FrameInv, FramesOf
  <2> HIDE DEF n
  <2> QED
    BY <1>1, <2>1
<1>3. S \in SUBSET DOMAIN spans /\ \A s \in S : spans[s].handler = h
  <2>1. h \in 1 .. Len(handlers)
    BY <1>1
  <2>2. k.frames[n].span \in DOMAIN spans /\ spans[k.frames[n].span].handler = h
    BY <1>2, <2>1, FrameSpan
  <2> QED
    BY <2>2
<1>4. ASSUME NEW j \in 1 .. Len(handlers), j # h PROVE FramesOf(j)'
  <2>1. \A i \in 1 .. Len(handlers[j].frames) :
          spans'[handlers[j].frames[i].span].sent = "no"
    <3> HIDE DEF S
    <3> QED
      BY <1>1, <1>3, <1>4, OthersStayOpen
  <2> QED
    BY <1>1, <1>4, <2>1, HandlerStays DEF Changed
<1>5. \A i \in 1 .. n - 1 : spans'[k.frames[i].span].sent = "no"
  <2> TAKE i \in 1 .. n - 1
  <2>1. i = 1 /\ n = 2 /\ i \in 1 .. n /\ \A m \in 1 .. i : m = 1
    <3> HIDE DEF n
    <3> QED BY <1>2
  <2>2. k.frames[1].span # k.frames[2].span
    <3>1. 1 \in 1 .. n /\ 2 \in 1 .. n
      BY <2>1
    <3>2. h \in 1 .. Len(handlers)
      BY <1>1
    <3>3. k.frames[1].span = k.span /\ k.frames[2].span # k.span
      BY <3>1, <3>2, FrameSpan
    <3> QED
      BY <3>3
  <2>3. \A m \in 1 .. i : k.frames[m].span \notin S
    BY <2>1, <2>2
  <2> HIDE DEF S
  <2> QED
    BY <1>1, <1>3, <2>1, <2>3, FrameSpanStays
<1>6. Len(k1.frames) \in Nat /\ Len(k1.frames) <= n /\ (Len(k1.frames) # 0 => n # 1)
  <2> HIDE DEF n, k1
  <2> QED BY <1>1, <1>2
<1>7. FramesOf(h)'
  BY <1>1, <1>5, <1>6, FramesStay
<1> QED
  BY <1>1, <1>4, <1>7 DEF FrameInv, Changed

LEMMA PanicsFrames ==
  ASSUME Base, Kept, NEW h, Panics(h)
  PROVE  FrameInv'
<1> DEFINE k == handlers[h]
           S == {k.frames[i].span : i \in 1 .. Len(k.frames)}
<1>1. /\ h \in 1 .. Len(handlers) /\ Changed(h) /\ Len(handlers'[h].frames) = 0
      /\ Sent(S, "none", k.fields)
  BY DEF Panics
<1>2. ASSUME NEW s \in S PROVE s \in DOMAIN spans /\ spans[s].handler = h
  <2>1. PICK i \in 1 .. Len(k.frames) : s = k.frames[i].span
    OBVIOUS
  <2> HIDE DEF S
  <2> QED
    BY <1>1, <2>1, FrameSpan
<1>3. ASSUME NEW j \in 1 .. Len(handlers), j # h PROVE FramesOf(j)'
  <2>1. \A i \in 1 .. Len(handlers[j].frames) :
          spans'[handlers[j].frames[i].span].sent = "no"
    <3> HIDE DEF S
    <3>1. S \in SUBSET DOMAIN spans /\ \A s \in S : spans[s].handler = h
      BY <1>2
    <3> QED
      BY <1>1, <1>3, <3>1, OthersStayOpen
  <2> QED
    BY <1>1, <1>3, <2>1, HandlerStays DEF Changed
<1>4. FramesOf(h)'
  <2>1. 1 .. 0 = {} /\ 0 <= Len(k.frames)
    BY <1>1, FramesTyped DEF Base
  <2> QED
    BY <1>1, <2>1, FramesStay
<1> QED
  BY <1>1, <1>3, <1>4 DEF FrameInv, Changed

LEMMA EndsFrames ==
  ASSUME Base, Kept, NEW c, Ends(c)
  PROVE  FrameInv'
<1>1. /\ c \in 1 .. Len(calls) /\ UNCHANGED handlers
      /\ \/ UNCHANGED spans
         \/ \E outcome, fields : /\ calls[c].span # NoId
                                 /\ Sent({calls[c].span}, outcome, fields)
  BY DEF Ends
<1>2. CASE UNCHANGED spans
  BY <1>1, <1>2, NoFrames
<1>3. ASSUME NEW outcome, NEW fields, calls[c].span # NoId,
             Sent({calls[c].span}, outcome, fields)
      PROVE  FrameInv'
  <2> DEFINE S == {calls[c].span}
  <2>1. S \in SUBSET DOMAIN spans /\ \A s \in S : IsCall(s)
    BY <1>1, <1>3, Typed DEF Base, CallInv, IsCall
  <2>2. Sent(S, outcome, fields)
    BY <1>3
  <2> HIDE DEF S
  <2>3. ASSUME NEW j \in 1 .. Len(handlers) PROVE FramesOf(j)'
    <3>1. j # 0
      OBVIOUS
    <3>2. \A i \in 1 .. Len(handlers[j].frames) :
            spans'[handlers[j].frames[i].span].sent = "no"
      BY <2>1, <2>2, <3>1, OthersStayOpen
    <3> QED
      BY <1>1, <3>2, HandlerStays
  <2> QED
    BY <1>1, <2>3 DEF FrameInv
<1> QED
  BY <1>1, <1>2, <1>3

LEMMA EffectFrames ==
  ASSUME Base, Kept, Effect
  PROVE  FrameInv'
<1>1. ASSUME NEW h, NEW call, CallsUntraced(h, call) PROVE FrameInv'
  BY <1>1, NoFrames DEF CallsUntraced
<1>2. CASE UNCHANGED <<spans, handlers, calls>>
  BY <1>2, NoFrames
<1> QED
  BY <1>1, <1>2, RespondsFrames, ForwardsFrames, WrapsFrames, StartsFrames, ReturnsFrames,
     PanicsFrames, CallsFrames, EndsFrames DEF Effect

LEMMA CallsStay ==
  ASSUME Base, Kept, NEW c \in 1 .. Len(calls)
  PROVE  /\ c \in 1 .. Len(calls')
         /\ calls'[c].handler \in 1 .. Len(handlers')
         /\ calls'[c].mode \in Untraced <=> calls'[c].span = NoId
         /\ calls'[c].span # NoId => calls'[c].span \in DOMAIN spans'
<1>1. /\ calls[c].handler \in 1 .. Len(handlers)
      /\ calls[c].mode \in Untraced <=> calls[c].span = NoId
      /\ calls[c].span # NoId => calls[c].span \in DOMAIN spans
  BY DEF Base, CallInv
<1>2. /\ Len(handlers) <= Len(handlers') /\ Len(calls) <= Len(calls')
      /\ Len(calls) \in Nat /\ Len(calls') \in Nat
      /\ Len(handlers) \in Nat /\ Len(handlers') \in Nat
      /\ calls'[c].handler = calls[c].handler /\ calls'[c].mode = calls[c].mode
      /\ calls'[c].span = calls[c].span
  BY Typed DEF Base, Kept, HandlersKept, CallsKept
<1>3. \A x \in DOMAIN spans : x \in DOMAIN spans'
  BY DEF Kept, SpansKept
<1> QED
  BY <1>1, <1>2, <1>3

\* A new call is right when it is made.
LEMMA MadeCallInv ==
  ASSUME Base, Kept, NEW call, Made(call), call.handler \in 1 .. Len(handlers),
         call.mode \in Untraced <=> call.span = NoId,
         call.span # NoId => call.span \in DOMAIN spans'
  PROVE  CallInv'
<1>1. /\ Len(calls') = Len(calls) + 1 /\ calls'[Len(calls) + 1] = call
      /\ Len(calls) \in Nat
  BY Typed DEF Made, Base
<1>2. \A c \in 1 .. Len(calls') : c \in 1 .. Len(calls) \/ c = Len(calls) + 1
  BY <1>1
<1>3. call.handler \in 1 .. Len(handlers')
  BY Typed DEF Kept, HandlersKept, Base
<1> QED
  BY <1>1, <1>2, <1>3, CallsStay DEF CallInv

LEMMA SameCallInv ==
  ASSUME Base, Kept, Len(calls') = Len(calls)
  PROVE  CallInv'
BY CallsStay DEF CallInv

LEMMA EffectCalls ==
  ASSUME Base, Kept, Effect
  PROVE  CallInv'
<1>1. ASSUME NEW h, Responds(h) PROVE UNCHANGED calls
  BY <1>1 DEF Responds
<1>2. ASSUME NEW h, Forwards(h) PROVE UNCHANGED calls
  BY <1>2 DEF Forwards
<1>3. ASSUME NEW h, NEW s, Wraps(h, s) PROVE UNCHANGED calls
  BY <1>3 DEF Wraps
<1>4. ASSUME NEW from, NEW s, StartsHandler(from, s) PROVE UNCHANGED calls
  BY <1>4 DEF StartsHandler
<1>5. ASSUME NEW h, NEW outcome, NEW fields, Returns(h, outcome, fields)
      PROVE  UNCHANGED calls
  BY <1>5 DEF Returns
<1>6. ASSUME NEW h, Panics(h) PROVE UNCHANGED calls
  BY <1>6 DEF Panics
<1>7. ASSUME NEW h, NEW s, NEW call, Calls(h, s, call) PROVE CallInv'
  <2>1. /\ h \in 1 .. Len(handlers) /\ Made(call) /\ call.handler = h /\ call.span = s
        /\ call.mode \notin Untraced /\ s \in SpanId /\ s \in DOMAIN spans'
    BY <1>7 DEF Calls, Started, Untraced
  <2>2. s # NoId
    BY <2>1, SpanIdsAreIds
  <2> QED
    BY <2>1, <2>2, MadeCallInv
<1>8. ASSUME NEW h, NEW call, CallsUntraced(h, call) PROVE CallInv'
  BY <1>8, MadeCallInv DEF CallsUntraced
<1>9. ASSUME NEW c, Ends(c) PROVE Len(calls') = Len(calls)
  BY <1>9 DEF Ends
<1>10. UNCHANGED <<spans, handlers, calls>> => UNCHANGED calls
  OBVIOUS
<1> QED
  BY <1>1, <1>2, <1>3, <1>4, <1>5, <1>6, <1>7, <1>8, <1>9, <1>10, SameCallInv DEF Effect

-------------------------------------------------------------------------------
(* A span is in the trace of its parent.                                   *)

KnownNext(trace, parent) ==
  parent \in SpanId => parent \in DOMAIN spans' /\ spans'[parent].trace = trace
KnownAllNext(headers) ==
  \A i \in 1 .. Len(headers) : KnownNext(headers[i].trace, headers[i].parent)

LEMMA KnownStays ==
  ASSUME Kept
  PROVE  /\ \A trace, parent : Known(trace, parent) => KnownNext(trace, parent)
         /\ \A headers : KnownAll(headers) => KnownAllNext(headers)
<1>1. \A trace, parent : Known(trace, parent) => KnownNext(trace, parent)
  BY DEF Kept, SpansKept, Fixed, Known, KnownNext
<1> QED
  BY <1>1 DEF KnownAll, KnownAllNext

\* What handler h may send is known when what it got or sent before was.
HandlerKnown(h) ==
  /\ KnownAll(handlers[h].incoming)
  /\ KnownAll(handlers[h].header) /\ KnownAll(handlers[h].metadata)
HandlerKnownNext(h) ==
  /\ KnownAllNext(handlers'[h].incoming)
  /\ KnownAllNext(handlers'[h].header) /\ KnownAllNext(handlers'[h].metadata)

LEMMA TraceStep ==
  ASSUME Base, TraceInv, Kept,
         \A s \in DOMAIN spans' \ DOMAIN spans :
           KnownNext(spans'[s].trace, spans'[s].parent),
         \A h \in 1 .. Len(handlers') : HandlerKnownNext(h),
         \A c \in Len(calls) + 1 .. Len(calls') : KnownAllNext(calls'[c].honeycomb)
  PROVE  TraceInv'
<1>1. ASSUME NEW s \in DOMAIN spans' PROVE KnownNext(spans'[s].trace, spans'[s].parent)
  <2>1. CASE s \in DOMAIN spans
    <3>1. Known(spans[s].trace, spans[s].parent)
      BY <2>1 DEF TraceInv
    <3>2. spans'[s].trace = spans[s].trace /\ spans'[s].parent = spans[s].parent
      BY <2>1 DEF Kept, SpansKept, Fixed
    <3> QED
      BY <3>1, <3>2, KnownStays
  <2> QED
    BY <2>1
<1>2. ASSUME NEW c \in 1 .. Len(calls') PROVE KnownAllNext(calls'[c].honeycomb)
  <2>1. CASE c \in 1 .. Len(calls)
    <3>1. KnownAll(calls[c].honeycomb) /\ calls'[c].honeycomb = calls[c].honeycomb
      BY <2>1 DEF TraceInv, Kept, CallsKept
    <3> QED
      BY <3>1, KnownStays
  <2>2. CASE c \notin 1 .. Len(calls)
    <3>1. c \in Len(calls) + 1 .. Len(calls')
      BY <2>2, Typed DEF Base, Kept, CallsKept
    <3> QED
      BY <3>1
  <2> QED
    BY <2>1, <2>2
<1>3. \A s \in DOMAIN spans' :
        spans'[s].parent \in SpanId =>
          /\ spans'[s].parent \in DOMAIN spans'
          /\ spans'[spans'[s].parent].trace = spans'[s].trace
  BY <1>1 DEF KnownNext
<1>4. \A h \in 1 .. Len(handlers') :
        /\ KnownAll(handlers[h].incoming)'
        /\ KnownAll(handlers[h].header)' /\ KnownAll(handlers[h].metadata)'
  BY DEF HandlerKnownNext, KnownAll, KnownAllNext, Known, KnownNext
<1>5. \A c \in 1 .. Len(calls') : KnownAll(calls[c].honeycomb)'
  BY <1>2 DEF KnownAll, KnownAllNext, Known, KnownNext
<1> QED
  BY <1>3, <1>4, <1>5 DEF TraceInv, Known

LEMMA HandlerKnownStays ==
  ASSUME TraceInv, Kept, NEW h \in 1 .. Len(handlers),
         handlers'[h].header \in {handlers[h].header, handlers[h].incoming},
         handlers'[h].metadata \in {handlers[h].metadata, handlers[h].incoming}
  PROVE  HandlerKnownNext(h)
<1>1. HandlerKnown(h)
  BY DEF TraceInv, HandlerKnown
<1>2. handlers'[h].incoming = handlers[h].incoming
  BY DEF Kept, HandlersKept
<1> QED
  BY <1>1, <1>2, KnownStays DEF HandlerKnown, HandlerKnownNext

\* Nothing is new but what a handler does with headers it had.
LEMMA NothingNew ==
  ASSUME Base, TraceInv, Kept, Len(handlers') = Len(handlers), Len(calls') = Len(calls),
         \A s \in DOMAIN spans' \ DOMAIN spans :
           KnownNext(spans'[s].trace, spans'[s].parent),
         \A h \in 1 .. Len(handlers) :
           /\ handlers'[h].header \in {handlers[h].header, handlers[h].incoming}
           /\ handlers'[h].metadata \in {handlers[h].metadata, handlers[h].incoming}
  PROVE  TraceInv'
<1>1. Len(calls) + 1 .. Len(calls') = {}
  BY Typed DEF Base
<1> QED
  BY <1>1, HandlerKnownStays, TraceStep

\* A span below span up of the process.
LEMMA BelowKnown ==
  ASSUME Base, Kept, NEW up \in DOMAIN spans, NEW h, NEW s,
         Started(s, NewSpan(spans[up].trace, up, up, h))
  PROVE  /\ KnownNext(spans[up].trace, up)
         /\ \A x \in DOMAIN spans' \ DOMAIN spans :
              KnownNext(spans'[x].trace, spans'[x].parent)
<1>1. KnownNext(spans[up].trace, up)
  BY DEF Kept, SpansKept, Fixed, KnownNext
<1>2. /\ spans'[s].trace = spans[up].trace /\ spans'[s].parent = up
      /\ \A x \in DOMAIN spans' \ DOMAIN spans : x = s
  BY DEF Started, NewSpan
<1> QED
  BY <1>1, <1>2

LEMMA StartsTrace ==
  ASSUME Base, TraceInv, Kept, NEW from, NEW s, StartsHandler(from, s)
  PROVE  TraceInv'
<1>0. Len(handlers) \in Nat /\ Len(calls) \in Nat
  BY Typed DEF Base
<1> SUFFICES ASSUME NEW h, h = Len(handlers) + 1
             PROVE  TraceInv'
  OBVIOUS
<1>1. /\ UNCHANGED calls /\ Len(handlers') = h
      /\ \A j \in 1 .. Len(handlers) : handlers'[j] = handlers[j]
      /\ Started(s, spans'[s]) /\ Known(spans'[s].trace, spans'[s].parent)
      /\ KnownAll(handlers'[h].incoming)
      /\ handlers'[h].header = <<>> /\ handlers'[h].metadata = <<>>
  BY DEF StartsHandler
<1>2. \A x \in DOMAIN spans' \ DOMAIN spans : x = s
  BY <1>1 DEF Started
<1>3. KnownNext(spans'[s].trace, spans'[s].parent)
  BY <1>1, KnownStays
<1>4. KnownAllNext(<<>>)
  BY DEF KnownAllNext
<1>5. HandlerKnownNext(h)
  BY <1>1, <1>4, KnownStays DEF HandlerKnownNext
<1>6. \A j \in 1 .. Len(handlers') : j = h \/ j \in 1 .. Len(handlers)
  BY <1>0, <1>1
<1>7. \A j \in 1 .. Len(handlers') : HandlerKnownNext(j)
  BY <1>1, <1>5, <1>6, HandlerKnownStays
<1>8. Len(calls) + 1 .. Len(calls') = {}
  BY <1>0, <1>1
<1> QED
  BY <1>2, <1>3, <1>7, <1>8, TraceStep

\* The header of a call is one more after those carried.
LEMMA CarriedKnown ==
  ASSUME NEW trace, NEW s, KnownNext(trace, s), NEW w, NamesSpan(w, trace, s),
         NEW carried \in Headers, KnownAllNext(carried)
  PROVE  KnownAllNext(Append(carried, w))
<1> DEFINE q == Append(carried, w)
<1>1. /\ Len(carried) \in Nat /\ Len(q) = Len(carried) + 1 /\ q[Len(carried) + 1] = w
      /\ \A i \in 1 .. Len(carried) : q[i] = carried[i]
  BY Appended DEF Headers, NamesSpan
<1> HIDE DEF q
<1>2. KnownNext(w.trace, w.parent)
  BY DEF NamesSpan
<1>3. \A i \in 1 .. Len(q) : i = Len(carried) + 1 \/ i \in 1 .. Len(carried)
  BY <1>1
<1>4. KnownAllNext(q)
  BY <1>1, <1>2, <1>3 DEF KnownAllNext
<1> QED
  BY <1>4 DEF q

LEMMA CallsTrace ==
  ASSUME Base, TraceInv, Kept, NEW h, NEW s, NEW call, Calls(h, s, call)
  PROVE  TraceInv'
<1> DEFINE k == handlers[h]
           k1 == handlers'[h]
           n == Len(k.frames)
           up == k.frames[n].span
<1>1. /\ h \in 1 .. Len(handlers) /\ Changed(h) /\ n \in Nat \ {0}
      /\ k1.metadata = k.metadata /\ Started(s, NewSpan(spans[up].trace, up, up, h))
      /\ Made(call)
      /\ k1.header = IF call.mode = "http" THEN call.honeycomb ELSE k.header
  BY DEF Calls
<1>2. PICK w, carried :
        /\ NamesSpan(w, spans[k.frames[1].span].trace, s)
        /\ carried \in Headers /\ call.honeycomb = Append(carried, w)
        /\ carried = <<>> \/ carried = k.header \/ carried = k.metadata
  BY DEF Calls
<1>3. n \in 1 .. n /\ 1 \in 1 .. n
  BY <1>1
<1>4. up \in DOMAIN spans /\ spans[up].trace = spans[k.frames[1].span].trace
  <2>1. \A i \in 1 .. n : /\ k.frames[i].span \in DOMAIN spans
                          /\ spans[k.frames[i].span].trace = spans[k.span].trace
    <3>1. h \in 1 .. Len(handlers)
      BY <1>1
    <3> QED
      BY <3>1, FrameSpan
  <2> HIDE DEF k, n
  <2> QED
    BY <1>3, <2>1
<1>5. \A x \in DOMAIN spans' \ DOMAIN spans :
        KnownNext(spans'[x].trace, spans'[x].parent)
  BY <1>1, <1>4, BelowKnown
<1>6. KnownNext(spans[up].trace, s)
  <2>1. spans'[s].trace = spans[up].trace /\ s \in DOMAIN spans'
    BY <1>1 DEF Started, NewSpan
  <2> QED
    BY <2>1 DEF KnownNext
<1>7. KnownAllNext(carried)
  <2>1. KnownAllNext(<<>>)
    BY DEF KnownAllNext
  <2>2. KnownAllNext(k.header) /\ KnownAllNext(k.metadata)
    BY <1>1, KnownStays DEF TraceInv
  <2> QED
    BY <1>2, <2>1, <2>2
<1>8. KnownAllNext(call.honeycomb)
  <2> HIDE DEF up
  <2> QED
    BY <1>2, <1>4, <1>6, <1>7, CarriedKnown
<1>9. HandlerKnownNext(h)
  <2>1. HandlerKnown(h)
    BY <1>1 DEF TraceInv, HandlerKnown
  <2>2. k1.incoming = k.incoming
    BY <1>1 DEF Changed
  <2> QED
    BY <1>1, <1>8, <2>1, <2>2, KnownStays DEF HandlerKnown, HandlerKnownNext
<1>10. \A j \in 1 .. Len(handlers') : HandlerKnownNext(j)
  BY <1>1, <1>9, HandlerKnownStays DEF Changed
<1>11. \A c \in Len(calls) + 1 .. Len(calls') : calls'[c] = call
  BY <1>1, Typed DEF Base, Made
<1> QED
  BY <1>5, <1>8, <1>10, <1>11, TraceStep

LEMMA CallsUntracedTrace ==
  ASSUME Base, TraceInv, Kept, NEW h, NEW call, CallsUntraced(h, call)
  PROVE  TraceInv'
<1>1. /\ h \in 1 .. Len(handlers) /\ UNCHANGED <<spans, handlers>> /\ Made(call)
      /\ call.honeycomb \in {handlers[h].header, handlers[h].metadata}
  BY DEF CallsUntraced
<1>2. KnownAllNext(call.honeycomb)
  BY <1>1, KnownStays DEF TraceInv
<1>3. \A c \in Len(calls) + 1 .. Len(calls') : calls'[c] = call
  BY <1>1, Typed DEF Base, Made
<1>4. \A j \in 1 .. Len(handlers') : HandlerKnownNext(j)
  BY <1>1, HandlerKnownStays
<1> QED
  BY <1>1, <1>2, <1>3, <1>4, TraceStep

LEMMA EffectTrace ==
  ASSUME Base, TraceInv, Kept, Effect
  PROVE  TraceInv'
<1>1. ASSUME NEW h, Responds(h) PROVE TraceInv'
  BY <1>1, NothingNew DEF Responds, SameTrace, Changed
<1>2. ASSUME NEW h, Forwards(h) PROVE TraceInv'
  BY <1>2, NothingNew DEF Forwards, Changed
<1>3. ASSUME NEW h, NEW s, Wraps(h, s) PROVE TraceInv'
  <2> DEFINE up == handlers[h].frames[1].span
  <2>1. /\ h \in 1 .. Len(handlers) /\ Changed(h) /\ SameTrace(h) /\ UNCHANGED calls
        /\ Len(handlers[h].frames) = 1
        /\ Started(s, NewSpan(spans[up].trace, up, up, h))
    BY <1>3 DEF Wraps
  <2>2. 1 \in 1 .. Len(handlers[h].frames)
    BY <2>1
  <2>3. up \in DOMAIN spans
    BY <2>1, <2>2, FrameSpan
  <2>4. \A x \in DOMAIN spans' \ DOMAIN spans :
          KnownNext(spans'[x].trace, spans'[x].parent)
    BY <2>1, <2>3, BelowKnown
  <2> QED
    BY <2>1, <2>4, NothingNew DEF Changed, SameTrace
<1>4. ASSUME NEW h, NEW outcome, NEW fields, Returns(h, outcome, fields) PROVE TraceInv'
  BY <1>4, NothingNew DEF Returns, Changed, Sent
<1>5. ASSUME NEW h, Panics(h) PROVE TraceInv'
  BY <1>5, NothingNew DEF Panics, SameTrace, Changed, Sent
<1>6. ASSUME NEW c, Ends(c) PROVE TraceInv'
  BY <1>6, NothingNew DEF Ends, Sent
<1>7. CASE UNCHANGED <<spans, handlers, calls>>
  BY <1>7, NothingNew
<1> QED
  BY <1>1, <1>2, <1>3, <1>4, <1>5, <1>6, <1>7, StartsTrace, CallsTrace, CallsUntracedTrace
  DEF Effect

-------------------------------------------------------------------------------
(* An event says how its request ended.                                    *)

LEMMA ExcusedStays ==
  ASSUME Base, Kept, NEW x \in DOMAIN spans, Excused(x)
  PROVE  Excused(x)'
<1>1. IsCall(x)' <=> IsCall(x)
  BY CallSpansStay DEF IsCall, CalledNext
<1>2. spans'[x].handler = spans[x].handler
  BY DEF Kept, SpansKept, Fixed
<1>3. \A h \in 1 .. Len(handlers) : handlers[h].end = "panicked" =>
        h \in 1 .. Len(handlers') /\ handlers'[h].end = "panicked"
  BY Typed DEF Base, Kept, HandlersKept
<1> QED
  BY <1>1, <1>2, <1>3 DEF Excused

\* A span that stays as it was stays excused.
LEMMA SameOutcome ==
  ASSUME Base, OutcomeInv, Kept, NEW x \in DOMAIN spans, spans'[x] = spans[x],
         spans'[x].sent = "self", spans'[x].outcome = "none"
  PROVE  Excused(x)'
BY ExcusedStays DEF OutcomeInv

LEMMA StartedOutcome ==
  ASSUME Base, OutcomeInv, Kept, NEW s, NEW new, Started(s, new), new.sent = "no"
  PROVE  OutcomeInv'
<1> SUFFICES ASSUME NEW x \in DOMAIN spans',
                    spans'[x].sent = "self", spans'[x].outcome = "none"
             PROVE  Excused(x)'
  BY DEF OutcomeInv
<1>1. x \in DOMAIN spans /\ spans'[x] = spans[x]
  BY DEF Started
<1> QED
  BY <1>1, SameOutcome

LEMMA SentOutcome ==
  ASSUME Base, OutcomeInv, Kept, NEW S, NEW outcome, NEW fields, Sent(S, outcome, fields),
         \A x \in S : outcome = "none" => Excused(x)'
  PROVE  OutcomeInv'
<1> SUFFICES ASSUME NEW x \in DOMAIN spans',
                    spans'[x].sent = "self", spans'[x].outcome = "none"
             PROVE  Excused(x)'
  BY DEF OutcomeInv
<1>1. x \in DOMAIN spans
  BY DEF Sent
<1>2. CASE x \in S /\ spans[x].sent = "no"
  BY <1>1, <1>2 DEF Sent
<1>3. CASE ~(x \in S /\ spans[x].sent = "no")
  <2>1. spans'[x] = spans[x]
    BY <1>1, <1>3 DEF Sent
  <2> QED
    BY <1>1, <2>1, SameOutcome
<1> QED
  BY <1>2, <1>3

LEMMA UnchangedOutcome ==
  ASSUME Base, OutcomeInv, Kept, UNCHANGED spans
  PROVE  OutcomeInv'
BY SameOutcome DEF OutcomeInv

LEMMA EffectOutcome ==
  ASSUME Base, OutcomeInv, Kept, Effect
  PROVE  OutcomeInv'
<1>1. ASSUME NEW h, Responds(h) PROVE UNCHANGED spans
  BY <1>1 DEF Responds
<1>2. ASSUME NEW h, Forwards(h) PROVE UNCHANGED spans
  BY <1>2 DEF Forwards
<1>3. ASSUME NEW h, NEW s, Wraps(h, s) PROVE OutcomeInv'
  <2>1. \E new : Started(s, new) /\ new.sent = "no"
    BY <1>3 DEF Wraps, NewSpan
  <2> QED
    BY <2>1, StartedOutcome
<1>4. ASSUME NEW from, NEW s, StartsHandler(from, s) PROVE OutcomeInv'
  <2>1. \A x \in DOMAIN spans : spans'[x] = spans[x]
    BY <1>4 DEF StartsHandler, Started
  <2>2. \A x \in DOMAIN spans' : x \in DOMAIN spans \/ spans'[x].sent = "no"
    BY <1>4 DEF StartsHandler, Started
  <2> QED
    BY <2>1, <2>2, SameOutcome DEF OutcomeInv
<1>5. ASSUME NEW h, NEW outcome, NEW fields, Returns(h, outcome, fields)
      PROVE  OutcomeInv'
  <2>1. outcome # "none" /\ \E S : Sent(S, outcome, fields)
    BY <1>5 DEF Returns
  <2> QED
    BY <2>1, SentOutcome
<1>6. ASSUME NEW h, Panics(h) PROVE OutcomeInv'
  <2> DEFINE S == {handlers[h].frames[i].span : i \in 1 .. Len(handlers[h].frames)}
  <2>1. /\ h \in 1 .. Len(handlers) /\ Changed(h) /\ UNCHANGED calls
        /\ handlers'[h].end = "panicked" /\ Sent(S, "none", handlers[h].fields)
    BY <1>6 DEF Panics
  <2>2. ASSUME NEW x \in S PROVE Excused(x)'
    <3>1. x \in DOMAIN spans /\ spans[x].handler = h /\ ~IsCall(x)
      <4>1. PICK i \in 1 .. Len(handlers[h].frames) : x = handlers[h].frames[i].span
        OBVIOUS
      <4>2. h \in 1 .. Len(handlers)
        BY <2>1
      <4> QED
        BY <4>1, <4>2, FrameSpan
    <3>2. ~IsCall(x)'
      BY <2>1, <3>1 DEF IsCall
    <3>3. spans'[x].handler = h
      BY <3>1 DEF Kept, SpansKept, Fixed
    <3> QED
      BY <2>1, <3>2, <3>3 DEF Excused, Changed
  <2> HIDE DEF S
  <2> QED
    BY <2>1, <2>2, SentOutcome
<1>7. ASSUME NEW h, NEW s, NEW call, Calls(h, s, call) PROVE OutcomeInv'
  <2> DEFINE up == handlers[h].frames[Len(handlers[h].frames)].span
             new == NewSpan(spans[up].trace, up, up, h)
  <2>1. Started(s, new) /\ new.sent = "no"
    BY <1>7 DEF Calls, NewSpan
  <2> QED
    BY <2>1, StartedOutcome
<1>8. ASSUME NEW h, NEW call, CallsUntraced(h, call) PROVE UNCHANGED spans
  BY <1>8 DEF CallsUntraced
<1>9. ASSUME NEW c, Ends(c) PROVE OutcomeInv'
  <2>1. c \in 1 .. Len(calls)
    BY <1>9 DEF Ends
  <2>2. ASSUME NEW outcome, NEW fields, calls[c].span # NoId,
               Sent({calls[c].span}, outcome, fields)
        PROVE  OutcomeInv'
    <3>1. ASSUME NEW x \in {calls[c].span} PROVE Excused(x)'
      <4>1. x \in DOMAIN spans /\ IsCall(x)
        BY <2>1, <2>2, Typed DEF Base, CallInv, IsCall
      <4> QED
        BY <4>1, ExcusedStays DEF Excused
    <3> QED
      BY <2>2, <3>1, SentOutcome
  <2> QED
    BY <1>9, <2>2, UnchangedOutcome DEF Ends
<1>10. UNCHANGED <<spans, handlers, calls>> => UNCHANGED spans
  OBVIOUS
<1> QED
  BY <1>1, <1>2, <1>3, <1>4, <1>5, <1>6, <1>7, <1>8, <1>9, <1>10, UnchangedOutcome DEF Effect

\* The span of call c is as it was, or sent with its parent.
LEMMA SameResult ==
  ASSUME Base, ResultInv, Kept, NEW c \in 1 .. Len(calls),
         calls'[c].result = calls[c].result,
         LET s == calls[c].span IN
           s # NoId => spans'[s] = spans[s] \/ spans'[s].sent # "self"
  PROVE  CallResult(c)'
<1>1. CallResult(c) /\ calls'[c].span = calls[c].span
  BY DEF ResultInv, Kept, CallsKept
<1> QED
  BY <1>1 DEF CallResult

\* A sending of spans that are not calls'.
LEMMA SentOthers ==
  ASSUME Base, NEW S, NEW outcome, NEW fields, Sent(S, outcome, fields),
         NEW x \in DOMAIN spans, x \notin S
  PROVE  spans'[x] = spans[x] \/ spans'[x].sent # "self"
BY DEF Sent

LEMMA OwnSpanStays ==
  ASSUME Base, ResultInv, Kept, Len(calls') <= Len(calls) + 1, NEW c \in 1 .. Len(calls')
  PROVE  OwnSpan(c)'
<1> SUFFICES ASSUME NEW d \in 1 .. Len(calls'), c < d, calls'[d].span # NoId
             PROVE  calls'[c].span # calls'[d].span
  BY DEF OwnSpan
<1>1. Len(calls) \in Nat /\ Len(calls') \in Nat
  BY Typed DEF Base, Kept, CallsKept
<1>2. c \in 1 .. Len(calls) /\ calls'[c].span = calls[c].span
  BY <1>1 DEF Kept, CallsKept
<1>3. CASE d \in 1 .. Len(calls)
  <2>1. calls'[d].span = calls[d].span
    BY <1>3 DEF Kept, CallsKept
  <2> QED
    BY <1>2, <1>3, <2>1 DEF ResultInv, OwnSpan
<1>4. CASE d \in Len(calls) + 1 .. Len(calls')
  <2>1. calls'[d].span \notin DOMAIN spans
    BY <1>4 DEF Kept, CallsKept
  <2>2. calls[c].span # NoId => calls[c].span \in DOMAIN spans
    BY <1>2 DEF Base, CallInv
  <2> QED
    BY <1>2, <2>1, <2>2
<1> QED
  BY <1>1, <1>3, <1>4

\* Nothing is sent that is a call's, and a new call's span is open.
LEMMA ResultStep ==
  ASSUME Base, ResultInv, Kept, Len(calls') <= Len(calls) + 1,
         \A c \in 1 .. Len(calls) :
           /\ calls'[c].result = calls[c].result
           /\ LET s == calls[c].span IN
              s # NoId => spans'[s] = spans[s] \/ spans'[s].sent # "self",
         \A c \in Len(calls) + 1 .. Len(calls') :
           LET s == calls'[c].span IN s # NoId => spans'[s].sent = "no"
  PROVE  ResultInv'
<1>1. \A c \in 1 .. Len(calls') :
        c \in 1 .. Len(calls) \/ c \in Len(calls) + 1 .. Len(calls')
  BY Typed DEF Base, Kept, CallsKept
<1>2. \A c \in 1 .. Len(calls) : CallResult(c)'
  BY SameResult
<1>3. \A c \in Len(calls) + 1 .. Len(calls') : CallResult(c)'
  BY DEF CallResult
<1> QED
  BY <1>1, <1>2, <1>3, OwnSpanStays DEF ResultInv

\* No call is made or ends.
LEMMA QuietResult ==
  ASSUME Base, ResultInv, Kept, UNCHANGED calls,
         \A x \in DOMAIN spans : IsCall(x) => spans'[x] = spans[x] \/ spans'[x].sent # "self"
  PROVE  ResultInv'
<1>1. Len(calls) \in Nat /\ Len(calls) + 1 .. Len(calls) = {} /\ Len(calls) <= Len(calls) + 1
  BY Typed DEF Base
<1>2. \A c \in 1 .. Len(calls) : calls[c].span # NoId =>
        calls[c].span \in DOMAIN spans /\ IsCall(calls[c].span)
  BY Typed DEF Base, CallInv, IsCall
<1> QED
  BY <1>1, <1>2, ResultStep

LEMMA EndsResult ==
  ASSUME Base, ResultInv, Kept, NEW c, Ends(c)
  PROVE  ResultInv'
<1> DEFINE s == calls[c].span
<1>1. /\ c \in 1 .. Len(calls) /\ Len(calls') = Len(calls) /\ Len(calls) \in Nat
      /\ calls[c].result = "out" /\ calls'[c].result # "out" /\ calls'[c].span = s
      /\ \A d \in 1 .. Len(calls) : d # c => calls'[d].result = calls[d].result
  BY Typed DEF Ends, Base
<1>2. \A d \in 1 .. Len(calls) : calls[d].span # NoId => calls[d].span \in DOMAIN spans
  BY DEF Base, CallInv
<1>3. ASSUME NEW d \in 1 .. Len(calls), d # c PROVE CallResult(d)'
  <2>1. calls[d].span # NoId => calls[d].span # s
    BY <1>1, <1>3 DEF ResultInv, OwnSpan
  <2>2. calls[d].span # NoId =>
          spans'[calls[d].span] = spans[calls[d].span] \/ spans'[calls[d].span].sent # "self"
    BY <1>2, <2>1, SentOthers DEF Ends
  <2> QED
    BY <1>1, <1>3, <2>2, SameResult
<1>4. CallResult(c)'
  <2>1. CASE s = NoId
    BY <1>1, <2>1 DEF CallResult
  <2>2. CASE s # NoId
    <3>1. PICK fields : Sent({s}, calls'[c].result, fields)
      BY <2>2 DEF Ends
    <3>2. s \in DOMAIN spans /\ spans[s].sent # "self"
      BY <1>1, <1>2, <2>2 DEF ResultInv, CallResult
    <3>3. spans'[s].sent = "self" => spans'[s].outcome = calls'[c].result
      BY <3>1, <3>2 DEF Sent
    <3> QED
      BY <1>1, <3>3 DEF CallResult
  <2> QED
    BY <2>1, <2>2
<1>5. \A d \in 1 .. Len(calls') : OwnSpan(d)'
  BY <1>1, OwnSpanStays
<1> QED
  BY <1>1, <1>3, <1>4, <1>5 DEF ResultInv

LEMMA EffectResult ==
  ASSUME Base, ResultInv, Kept, Effect
  PROVE  ResultInv'
<1>1. ASSUME NEW h, Responds(h) PROVE ResultInv'
  BY <1>1, QuietResult DEF Responds
<1>2. ASSUME NEW h, Forwards(h) PROVE ResultInv'
  BY <1>2, QuietResult DEF Forwards
<1>3. ASSUME NEW h, NEW s, Wraps(h, s) PROVE ResultInv'
  BY <1>3, QuietResult DEF Wraps, Started
<1>4. ASSUME NEW from, NEW s, StartsHandler(from, s) PROVE ResultInv'
  BY <1>4, QuietResult DEF StartsHandler, Started
<1>5. ASSUME NEW h, NEW outcome, NEW fields, Returns(h, outcome, fields) PROVE ResultInv'
  <2> DEFINE n == Len(handlers[h].frames)
             S == {handlers[h].frames[n].span}
  <2>1. h \in 1 .. Len(handlers) /\ UNCHANGED calls /\ n # 0 /\ Sent(S, outcome, fields)
    BY <1>5 DEF Returns
  <2>2. n \in 1 .. n
    BY <2>1, FramesTyped DEF Base
  <2>3. \A x \in S : ~IsCall(x)
    BY <2>1, <2>2, FrameSpan
  <2> HIDE DEF S, n
  <2> QED
    BY <2>1, <2>3, SentOthers, QuietResult
<1>6. ASSUME NEW h, Panics(h) PROVE ResultInv'
  <2> DEFINE S == {handlers[h].frames[i].span : i \in 1 .. Len(handlers[h].frames)}
  <2>1. h \in 1 .. Len(handlers) /\ UNCHANGED calls /\ Sent(S, "none", handlers[h].fields)
    BY <1>6 DEF Panics
  <2>2. ASSUME NEW x \in S PROVE ~IsCall(x)
    <3>1. PICK i \in 1 .. Len(handlers[h].frames) : x = handlers[h].frames[i].span
      OBVIOUS
    <3> HIDE DEF S
    <3> QED
      BY <2>1, <3>1, FrameSpan
  <2> HIDE DEF S
  <2>3. \A x \in DOMAIN spans :
          IsCall(x) => spans'[x] = spans[x] \/ spans'[x].sent # "self"
    BY <2>1, <2>2, SentOthers
  <2> QED
    BY <2>1, <2>3, QuietResult
<1>7. ASSUME NEW h, NEW s, NEW call, Calls(h, s, call) PROVE ResultInv'
  <2>1. /\ Made(call) /\ call.span = s /\ spans'[s].sent = "no"
        /\ \A x \in DOMAIN spans : spans'[x] = spans[x]
    BY <1>7 DEF Calls, Started, NewSpan
  <2>2. /\ Len(calls') = Len(calls) + 1 /\ Len(calls) \in Nat
        /\ \A c \in Len(calls) + 1 .. Len(calls') : calls'[c] = call
        /\ \A c \in 1 .. Len(calls) : calls'[c] = calls[c]
    BY <2>1, Typed DEF Base, Made
  <2>3. \A c \in 1 .. Len(calls) : calls[c].span # NoId => calls[c].span \in DOMAIN spans
    BY DEF Base, CallInv
  <2>4. Len(calls') <= Len(calls) + 1
    BY <2>2
  <2> QED
    BY <2>1, <2>2, <2>3, <2>4, ResultStep
<1>8. ASSUME NEW h, NEW call, CallsUntraced(h, call) PROVE ResultInv'
  <2>1. Made(call) /\ call.span = NoId /\ UNCHANGED spans
    BY <1>8 DEF CallsUntraced
  <2>2. /\ Len(calls') = Len(calls) + 1 /\ Len(calls) \in Nat
        /\ \A c \in Len(calls) + 1 .. Len(calls') : calls'[c] = call
        /\ \A c \in 1 .. Len(calls) : calls'[c] = calls[c]
    BY <2>1, Typed DEF Base, Made
  <2>3. Len(calls') <= Len(calls) + 1
    BY <2>2
  <2> QED
    BY <2>1, <2>2, <2>3, ResultStep
<1>9. CASE UNCHANGED <<spans, handlers, calls>>
  BY <1>9, QuietResult
<1> QED
  BY <1>1, <1>2, <1>3, <1>4, <1>5, <1>6, <1>7, <1>8, <1>9, EndsResult DEF Effect

-------------------------------------------------------------------------------
(* The status on a handler's event is the one the client got.              *)

LEMMA EndStays ==
  ASSUME Base, EndInv, Kept, NEW h \in 1 .. Len(handlers),
         handlers'[h].end = "returned" => handlers[h].end = "returned",
         Len(handlers'[h].frames) # 0 /\ ~handlers'[h].odd
           /\ handlers'[h].frames[1].wrapper = "recorder" =>
             handlers'[h].frames[1].status = handlers'[h].committed
  PROVE  HandlerEnds(h)'
<1> DEFINE k == handlers[h]
           k1 == handlers'[h]
<1>1. k1.span = k.span /\ k.span \in DOMAIN spans
  BY DEF Base, FrameInv, FramesOf, Kept, HandlersKept
<1>2. ASSUME k1.end = "returned"
      PROVE  /\ spans'[k1.span].sent = "self" /\ spans'[k1.span].fields = k1.fields
             /\ ~k1.odd => spans'[k1.span].outcome = k1.committed
  <2>1. k.end = "returned"
    BY <1>2
  <2>2. /\ spans[k.span].sent = "self" /\ spans[k.span].fields = k.fields
        /\ ~k.odd => spans[k.span].outcome = k.committed
    BY <2>1 DEF EndInv, HandlerEnds
  <2>3. spans'[k.span] = spans[k.span]
    BY <1>1, <2>2 DEF Kept, SpansKept
  <2>4. k1.fields = k.fields /\ k1.odd = k.odd /\ k1.committed = k.committed
    BY <2>1 DEF Kept, HandlersKept
  <2> QED
    BY <1>1, <2>2, <2>3, <2>4
<1> QED
  BY <1>2 DEF HandlerEnds

LEMMA SameEnd ==
  ASSUME Base, EndInv, Kept, NEW h \in 1 .. Len(handlers),
         handlers'[h].end = handlers[h].end, handlers'[h].frames = handlers[h].frames,
         handlers'[h].odd = handlers[h].odd, handlers'[h].committed = handlers[h].committed
  PROVE  HandlerEnds(h)'
<1>1. Len(handlers[h].frames) # 0 /\ ~handlers[h].odd
        /\ handlers[h].frames[1].wrapper = "recorder" =>
      handlers[h].frames[1].status = handlers[h].committed
  BY DEF EndInv, HandlerEnds
<1> QED
  BY <1>1, EndStays

\* All handlers but h are as they were.
LEMMA OneEnds ==
  ASSUME Base, EndInv, Kept, NEW h \in 1 .. Len(handlers), Changed(h), HandlerEnds(h)'
  PROVE  EndInv'
<1>1. ASSUME NEW j \in 1 .. Len(handlers), j # h PROVE HandlerEnds(j)'
  BY <1>1, SameEnd DEF Changed
<1> QED
  BY <1>1 DEF EndInv, Changed

LEMMA HandlersUnchangedEnd ==
  ASSUME Base, EndInv, Kept, UNCHANGED handlers
  PROVE  EndInv'
BY SameEnd DEF EndInv

LEMMA RespondsEnd ==
  ASSUME Base, EndInv, Kept, NEW h, Responds(h)
  PROVE  EndInv'
<1> DEFINE k == handlers[h]
           k1 == handlers'[h]
<1>1. /\ h \in 1 .. Len(handlers) /\ Changed(h) /\ k1.end = k.end
      /\ Len(k.frames) # 0 /\ Len(k1.frames) = Len(k.frames)
      /\ \A i \in 1 .. Len(k.frames) : k1.frames[i].wrapper = k.frames[i].wrapper
      /\ ~k1.odd => ~k.odd /\ (k.frames[1].status = k.committed =>
                                k1.frames[1].status = k1.committed)
  BY DEF Responds
<1>2. k1.frames[1].wrapper = k.frames[1].wrapper
  <2>1. 1 \in 1 .. Len(k.frames)
    BY <1>1, FramesTyped DEF Base
  <2> QED
    BY <1>1, <2>1
<1>3. ~k.odd /\ k.frames[1].wrapper = "recorder" => k.frames[1].status = k.committed
  BY <1>1 DEF EndInv, HandlerEnds
<1>4. HandlerEnds(h)'
  BY <1>1, <1>2, <1>3, EndStays
<1> QED
  BY <1>1, <1>4, OneEnds

LEMMA ReturnsEnd ==
  ASSUME Base, EndInv, Kept, NEW h, NEW outcome, NEW fields, Returns(h, outcome, fields)
  PROVE  EndInv'
<1> DEFINE k == handlers[h]
           k1 == handlers'[h]
           n == Len(k.frames)
<1>1. /\ h \in 1 .. Len(handlers) /\ Changed(h) /\ k1.odd = k.odd
      /\ n # 0 /\ Len(k1.frames) = n - 1 /\ k1.fields = fields
      /\ \A i \in 1 .. n - 1 : k1.frames[i] = k.frames[i]
      /\ Sent({k.frames[n].span}, outcome, fields)
      /\ n = 1 =>
           /\ k1.end = "returned"
           /\ (k.frames[1].wrapper = "recorder" => k.frames[1].status = k.committed) =>
                outcome = k1.committed
      /\ n # 1 => k1.end = k.end /\ k1.committed = k.committed
  BY DEF Returns
<1>2. n \in Nat
  BY <1>1, FramesTyped DEF Base
<1>3. ~k.odd /\ k.frames[1].wrapper = "recorder" => k.frames[1].status = k.committed
  BY <1>1 DEF EndInv, HandlerEnds
<1>4. CASE n = 1
  <2>1. 1 \in 1 .. n
    BY <1>4
  <2>2. /\ k.frames[1].span = k.span /\ k.span \in DOMAIN spans /\ spans[k.span].sent = "no"
    <3>1. h \in 1 .. Len(handlers)
      BY <1>1
    <3> QED
      BY <2>1, <3>1, FrameSpan
  <2>3. /\ spans'[k.span].sent = "self" /\ spans'[k.span].outcome = outcome
        /\ spans'[k.span].fields = fields
    BY <1>1, <1>4, <2>2 DEF Sent
  <2>4. k1.span = k.span
    BY <1>1 DEF Changed
  <2>5. ~k1.odd => outcome = k1.committed
    BY <1>1, <1>3, <1>4
  <2>6. Len(k1.frames) = 0
    BY <1>1, <1>4
  <2>7. HandlerEnds(h)'
    BY <1>1, <2>3, <2>4, <2>5, <2>6 DEF HandlerEnds
  <2> QED
    BY <1>1, <2>7, OneEnds
<1>5. CASE n # 1
  <2>1. 1 \in 1 .. n - 1
    <3> HIDE DEF n
    <3> QED BY <1>1, <1>2, <1>5
  <2>2. k1.frames[1] = k.frames[1] /\ k1.end = k.end /\ k1.committed = k.committed
    BY <1>1, <1>5, <2>1
  <2>3. HandlerEnds(h)'
    BY <1>1, <1>3, <2>2, EndStays
  <2> QED
    BY <1>1, <2>3, OneEnds
<1> QED
  BY <1>4, <1>5

LEMMA EffectEnd ==
  ASSUME Base, EndInv, Kept, Effect
  PROVE  EndInv'
<1>1. ASSUME NEW h, Forwards(h) PROVE EndInv'
  <2>1. h \in 1 .. Len(handlers) /\ Changed(h)
    BY <1>1 DEF Forwards
  <2>2. HandlerEnds(h)'
    BY <1>1, <2>1, SameEnd DEF Forwards
  <2> QED
    BY <2>1, <2>2, OneEnds
<1>2. ASSUME NEW h, NEW s, Wraps(h, s) PROVE EndInv'
  <2>1. /\ h \in 1 .. Len(handlers) /\ Changed(h) /\ Len(handlers[h].frames) # 0
        /\ handlers'[h].end = handlers[h].end
        /\ handlers'[h].frames[1] = handlers[h].frames[1]
        /\ handlers'[h].odd = handlers[h].odd
        /\ handlers'[h].committed = handlers[h].committed
    BY <1>2 DEF Wraps
  <2>2. ~handlers[h].odd /\ handlers[h].frames[1].wrapper = "recorder" =>
          handlers[h].frames[1].status = handlers[h].committed
    BY <2>1 DEF EndInv, HandlerEnds
  <2>3. HandlerEnds(h)'
    BY <2>1, <2>2, EndStays
  <2> QED
    BY <2>1, <2>3, OneEnds
<1>3. ASSUME NEW from, NEW s, StartsHandler(from, s) PROVE EndInv'
  <2> SUFFICES ASSUME NEW h, h = Len(handlers) + 1
               PROVE  EndInv'
    OBVIOUS
  <2>1. /\ Len(handlers') = h
        /\ \A j \in 1 .. Len(handlers) : handlers'[j] = handlers[j]
        /\ handlers'[h].end = "no" /\ handlers'[h].committed = Unset
        /\ handlers'[h].frames[1].status = Unset
    BY <1>3 DEF StartsHandler
  <2>2. HandlerEnds(h)'
    BY <2>1 DEF HandlerEnds
  <2>3. \A j \in 1 .. Len(handlers') : j = h \/ j \in 1 .. Len(handlers)
    BY <2>1, Typed DEF Base
  <2>4. \A j \in 1 .. Len(handlers) : HandlerEnds(j)'
    BY <2>1, SameEnd
  <2> QED
    BY <2>2, <2>3, <2>4 DEF EndInv
<1>4. ASSUME NEW h, Panics(h) PROVE EndInv'
  <2>1. /\ h \in 1 .. Len(handlers) /\ Changed(h) /\ Len(handlers'[h].frames) = 0
        /\ handlers'[h].end = "panicked"
    BY <1>4 DEF Panics
  <2>2. HandlerEnds(h)'
    BY <2>1 DEF HandlerEnds
  <2> QED
    BY <2>1, <2>2, OneEnds
<1>5. ASSUME NEW h, NEW s, NEW call, Calls(h, s, call) PROVE EndInv'
  <2>1. h \in 1 .. Len(handlers) /\ Changed(h)
    BY <1>5 DEF Calls
  <2>2. HandlerEnds(h)'
    BY <1>5, <2>1, SameEnd DEF Calls
  <2> QED
    BY <2>1, <2>2, OneEnds
<1>6. ASSUME NEW h, NEW call, CallsUntraced(h, call) PROVE UNCHANGED handlers
  BY <1>6 DEF CallsUntraced
<1>7. ASSUME NEW c, Ends(c) PROVE UNCHANGED handlers
  BY <1>7 DEF Ends
<1>8. UNCHANGED <<spans, handlers, calls>> => UNCHANGED handlers
  OBVIOUS
<1> QED
  BY <1>1, <1>2, <1>3, <1>4, <1>5, <1>6, <1>7, <1>8, RespondsEnd, ReturnsEnd,
     HandlersUnchangedEnd DEF Effect

-------------------------------------------------------------------------------
(* A handler's span is the child of its caller's.                          *)

NamesCallNext(headers, h, n) ==
  \E c \in 1 .. Len(calls') :
    /\ c < n /\ calls'[c].mode = "http" /\ calls'[c].handler = h
    /\ Names(headers, calls'[c].span)

LEMMA NamesCallStays ==
  ASSUME Base, Kept
  PROVE  \A headers, h, n : NamesCall(headers, h, n) => NamesCallNext(headers, h, n)
<1>1. \A c \in 1 .. Len(calls) :
        /\ c \in 1 .. Len(calls') /\ calls'[c].mode = calls[c].mode
        /\ calls'[c].handler = calls[c].handler /\ calls'[c].span = calls[c].span
  BY Typed DEF Base, Kept, CallsKept
<1> QED
  BY <1>1 DEF NamesCall, NamesCallNext

LEMMA HeaderNamedStays ==
  ASSUME Base, CallerInv, Kept, NEW h \in 1 .. Len(handlers),
         handlers'[h].header = handlers[h].header
  PROVE  HeaderNamed(h)'
<1> DEFINE headers == handlers[h].header
<1>1. HeaderNamed(h)
  BY DEF CallerInv
<1>2. HasForwarded(h) => handlers'[h].metadata # <<>>
  BY DEF Kept, HandlersKept, HasForwarded
<1>3. NamesCall(headers, h, Len(calls) + 1) => NamesCallNext(headers, h, Len(calls') + 1)
  <2>1. \A c \in 1 .. Len(calls') : c < Len(calls') + 1
    BY DEF Kept, CallsKept
  <2>2. NamesCall(headers, h, Len(calls) + 1) => NamesCallNext(headers, h, Len(calls) + 1)
    BY NamesCallStays
  <2> HIDE DEF headers
  <2> QED
    BY <2>1, <2>2 DEF NamesCallNext
<1>4. \/ handlers'[h].metadata # <<>> \/ handlers'[h].header = <<>>
      \/ NamesCallNext(handlers'[h].header, h, Len(calls') + 1)
  BY <1>1, <1>2, <1>3 DEF HeaderNamed
<1> QED
  BY <1>4 DEF HeaderNamed, HasForwarded, NamesCall, NamesCallNext, Names

LEMMA CallNamedStays ==
  ASSUME Base, CallerInv, Kept, NEW c \in 1 .. Len(calls)
  PROVE  CallNamed(c)'
<1> DEFINE call == calls[c]
           call1 == calls'[c]
<1>1. CallNamed(c)
  BY DEF CallerInv
<1>2. /\ call1.handler = call.handler /\ call1.mode = call.mode
      /\ call1.span = call.span /\ call1.honeycomb = call.honeycomb
  BY DEF Kept, CallsKept
<1>3. HasForwarded(call.handler) => handlers'[call.handler].metadata # <<>>
  <2>1. call.handler \in 1 .. Len(handlers)
    BY DEF Base, CallInv
  <2> QED
    BY <2>1 DEF Kept, HandlersKept, HasForwarded
<1>4. NamesCall(call.honeycomb, call.handler, c) =>
        NamesCallNext(call.honeycomb, call.handler, c)
  BY NamesCallStays
<1> HIDE DEF call, call1
<1>5. \/ call1.mode # "grpc" /\ handlers'[call1.handler].metadata # <<>>
      \/ Names(call1.honeycomb, call1.span)
      \/ call1.mode \in Untraced /\ call1.honeycomb = <<>>
      \/ /\ call1.mode \in {"http", "httpUntraced"}
         /\ NamesCallNext(call1.honeycomb, call1.handler, c)
  BY <1>1, <1>2, <1>3, <1>4 DEF CallNamed, call
<1> QED
  BY <1>5 DEF CallNamed, HasForwarded, NamesCall, NamesCallNext, Names, call1

LEMMA ChildStays ==
  ASSUME Base, CallerInv, Kept, NEW h \in 1 .. Len(handlers)
  PROVE  Child(h)' /\ handlers'[h].from \in 0 .. Len(calls')
<1> DEFINE n == handlers[h].from
           call == calls[n]
           call1 == calls'[n]
           parent == spans[handlers[h].span].parent
<1>1. Child(h) /\ n \in 0 .. Len(calls)
  BY DEF CallerInv
<1>2. /\ handlers'[h].from = n /\ handlers'[h].span = handlers[h].span
      /\ spans'[handlers[h].span].parent = parent
  <2>1. handlers[h].span \in DOMAIN spans
    BY DEF Base, FrameInv, FramesOf
  <2> QED
    BY <2>1 DEF Kept, HandlersKept, SpansKept, Fixed
<1>3. /\ Len(calls) \in Nat /\ Len(calls') \in Nat /\ Len(calls) <= Len(calls')
      /\ \A c \in 1 .. Len(calls) :
           /\ calls'[c].handler = calls[c].handler /\ calls'[c].mode = calls[c].mode
           /\ calls'[c].span = calls[c].span
  BY Typed DEF Base, Kept, CallsKept
<1>4. n \in 0 .. Len(calls')
  BY <1>1, <1>3
<1>5. ASSUME n # 0 PROVE Child(h)'
  <2>1. n \in 1 .. Len(calls) /\ \A c \in 1 .. n - 1 : c \in 1 .. Len(calls)
    BY <1>1, <1>3, <1>5
  <2>2. HasForwarded(call.handler) => handlers'[call.handler].metadata # <<>>
    <3>1. call.handler \in 1 .. Len(handlers)
      BY <2>1 DEF Base, CallInv
    <3> QED
      BY <3>1 DEF Kept, HandlersKept, HasForwarded
  <2>3. /\ call1.handler = call.handler /\ call1.mode = call.mode
        /\ call1.span = call.span
    BY <1>3, <2>1
  <2>4. \/ parent = call.span
        \/ call.mode # "grpc" /\ HasForwarded(call.handler)
        \/ /\ call.mode \in {"http", "httpUntraced"}
           /\ \E c \in 1 .. n - 1 :
                calls[c].mode = "http" /\ calls[c].handler = call.handler
                /\ calls[c].span = parent
    BY <1>1, <1>5 DEF Child
  <2> HIDE DEF call, call1, parent, n
  <2>5. \/ parent = call1.span
        \/ call1.mode # "grpc" /\ handlers'[call1.handler].metadata # <<>>
        \/ /\ call1.mode \in {"http", "httpUntraced"}
           /\ \E c \in 1 .. n - 1 :
                calls'[c].mode = "http" /\ calls'[c].handler = call1.handler
                /\ calls'[c].span = parent
    BY <1>3, <2>1, <2>2, <2>3, <2>4
  <2> QED
    BY <1>2, <2>5 DEF Child, HasForwarded, call1
<1>6. n = 0 => Child(h)'
  BY <1>2 DEF Child
<1> QED
  BY <1>2, <1>4, <1>5, <1>6

LEMMA CallerStep ==
  ASSUME Base, CallerInv, Kept,
         \A h \in 1 .. Len(handlers) :
           handlers'[h].header = handlers[h].header \/ HeaderNamed(h)',
         \A h \in Len(handlers) + 1 .. Len(handlers') :
           /\ HeaderNamed(h)' /\ handlers'[h].from \in 0 .. Len(calls') /\ Child(h)',
         \A c \in Len(calls) + 1 .. Len(calls') : CallNamed(c)'
  PROVE  CallerInv'
<1>1. /\ Len(calls) \in Nat /\ Len(calls') \in Nat
      /\ Len(handlers) \in Nat /\ Len(handlers') \in Nat
  BY Typed DEF Base, Kept, CallsKept, HandlersKept
<1>2. /\ \A c \in 1 .. Len(calls') :
           c \in 1 .. Len(calls) \/ c \in Len(calls) + 1 .. Len(calls')
      /\ \A h \in 1 .. Len(handlers') :
           h \in 1 .. Len(handlers) \/ h \in Len(handlers) + 1 .. Len(handlers')
  BY <1>1
<1>3. \A c \in 1 .. Len(calls') : CallNamed(c)'
  BY <1>2, CallNamedStays
<1>4. \A h \in 1 .. Len(handlers) :
        HeaderNamed(h)' /\ handlers'[h].from \in 0 .. Len(calls') /\ Child(h)'
  BY HeaderNamedStays, ChildStays
<1>5. \A h \in 1 .. Len(handlers') :
        HeaderNamed(h)' /\ handlers'[h].from \in 0 .. Len(calls') /\ Child(h)'
  BY <1>2, <1>4
<1> QED
  BY <1>3, <1>5 DEF CallerInv

\* Nobody calls or is called.
LEMMA QuietCaller ==
  ASSUME Base, CallerInv, Kept, Len(calls') = Len(calls), Len(handlers') = Len(handlers),
         \A h \in 1 .. Len(handlers) :
           handlers'[h].header = handlers[h].header \/ HeaderNamed(h)'
  PROVE  CallerInv'
<1>1. Len(calls) + 1 .. Len(calls') = {} /\ Len(handlers) + 1 .. Len(handlers') = {}
  BY Typed DEF Base
<1> QED
  BY <1>1, CallerStep

LEMMA StartsCaller ==
  ASSUME Base, CallerInv, Kept, NEW from, NEW s, StartsHandler(from, s)
  PROVE  CallerInv'
<1> SUFFICES ASSUME NEW h, h = Len(handlers) + 1
             PROVE  CallerInv'
  OBVIOUS
<1> DEFINE k1 == handlers'[h]
           call == calls[from]
           parent == spans'[s].parent
<1>1. /\ UNCHANGED calls /\ Len(handlers') = h
      /\ \A j \in 1 .. Len(handlers) : handlers'[j] = handlers[j]
      /\ k1.span = s /\ k1.from = from /\ k1.header = <<>>
      /\ from \in 0 .. Len(calls)
      /\ from # 0 =>
           /\ call.honeycomb = <<>> => parent = NoId
           /\ \A t : Names(call.honeycomb, t) => parent = t
  BY DEF StartsHandler
<1>2. Len(handlers) \in Nat /\ Len(calls) \in Nat
  BY Typed DEF Base
<1>3. ASSUME from # 0
      PROVE  \/ parent = call.span
             \/ call.mode # "grpc" /\ handlers'[call.handler].metadata # <<>>
             \/ /\ call.mode \in {"http", "httpUntraced"}
                /\ \E c \in 1 .. from - 1 :
                     calls[c].mode = "http" /\ calls[c].handler = call.handler
                     /\ calls[c].span = parent
  <2>1. from \in 1 .. Len(calls)
    BY <1>1, <1>2, <1>3
  <2>2. CallNamed(from)
    BY <2>1 DEF CallerInv
  <2>3. call.handler \in 1 .. Len(handlers) /\ (call.mode \in Untraced => call.span = NoId)
    BY <2>1 DEF Base, CallInv
  <2>4. CASE call.mode # "grpc" /\ HasForwarded(call.handler)
    BY <2>3, <2>4 DEF Kept, HandlersKept, HasForwarded
  <2>5. CASE Names(call.honeycomb, call.span)
    BY <1>1, <1>3, <2>5
  <2>6. CASE call.mode \in Untraced /\ call.honeycomb = <<>>
    BY <1>1, <1>3, <2>3, <2>6
  <2>7. CASE /\ call.mode \in {"http", "httpUntraced"}
             /\ NamesCall(call.honeycomb, call.handler, from)
    <3>1. PICK c \in 1 .. Len(calls) :
            /\ c < from /\ calls[c].mode = "http" /\ calls[c].handler = call.handler
            /\ Names(call.honeycomb, calls[c].span)
      BY <2>7 DEF NamesCall
    <3>2. c \in 1 .. from - 1 /\ calls[c].span = parent
      BY <1>1, <1>2, <1>3, <2>1, <3>1
    <3> QED
      BY <2>7, <3>1, <3>2
  <2> QED
    BY <2>2, <2>4, <2>5, <2>6, <2>7 DEF CallNamed
<1>4. Child(h)'
  BY <1>1, <1>3 DEF Child, HasForwarded
<1>5. HeaderNamed(h)'
  BY <1>1 DEF HeaderNamed
<1>6. \A j \in Len(handlers) + 1 .. Len(handlers') : j = h
  BY <1>1, <1>2
<1>7. Len(calls) + 1 .. Len(calls') = {}
  BY <1>1, <1>2
<1> QED
  BY <1>1, <1>4, <1>5, <1>6, <1>7, CallerStep

\* The header that is read names what it named, whatever is put after it.
LEMMA NamesFirst ==
  ASSUME Base, NEW x \in DOMAIN spans, NEW s, NEW w, NamesSpan(w, spans[x].trace, s),
         NEW carried \in Headers
  PROVE  /\ carried = <<>> => Names(Append(carried, w), s)
         /\ \A t : Names(carried, t) => Names(Append(carried, w), t)
<1> DEFINE q == Append(carried, w)
<1>1. /\ Len(carried) \in Nat /\ Len(q) = Len(carried) + 1 /\ q[Len(carried) + 1] = w
      /\ \A i \in 1 .. Len(carried) : q[i] = carried[i]
  BY Appended DEF Headers, NamesSpan
<1>2. spans[x].trace # NoId
  BY Typed DEF Base, Span
<1> HIDE DEF q
<1>3. carried = <<>> => Names(q, s)
  <2>1. carried = <<>> => Len(q) # 0 /\ q[1] = w
    BY <1>1
  <2> QED
    BY <1>2, <2>1 DEF Names, NamesSpan
<1>4. \A t : Names(carried, t) => Names(q, t)
  <2>1. Len(carried) # 0 => Len(q) # 0 /\ q[1] = carried[1]
    BY <1>1
  <2> QED
    BY <2>1 DEF Names
<1> QED
  BY <1>3, <1>4 DEF q

LEMMA CallsCaller ==
  ASSUME Base, CallerInv, Kept, NEW h, NEW s, NEW call, Calls(h, s, call)
  PROVE  CallerInv'
<1>0. Len(calls) \in Nat /\ Len(handlers) \in Nat
  BY Typed DEF Base
<1> SUFFICES ASSUME NEW c, c = Len(calls) + 1
             PROVE  CallerInv'
  OBVIOUS
<1> DEFINE k == handlers[h]
           k1 == handlers'[h]
<1>1. /\ h \in 1 .. Len(handlers) /\ Changed(h) /\ Len(k.frames) \in Nat \ {0}
      /\ k1.metadata = k.metadata /\ Made(call) /\ call.handler = h /\ call.span = s
      /\ call.mode \in {"http", "grpc", "grpcHook"}
      /\ k1.header = IF call.mode = "http" THEN call.honeycomb ELSE k.header
  BY DEF Calls
<1>2. PICK w, carried :
        /\ NamesSpan(w, spans[k.frames[1].span].trace, s)
        /\ carried \in Headers /\ call.honeycomb = Append(carried, w)
        /\ \/ carried = <<>>
           \/ call.mode = "http" /\ carried = k.header
           \/ call.mode = "grpcHook" /\ carried = k.metadata
  BY DEF Calls
<1>3. k.frames[1].span \in DOMAIN spans
  <2>1. 1 \in 1 .. Len(k.frames) /\ h \in 1 .. Len(handlers)
    BY <1>1
  <2> QED
    BY <2>1, FrameSpan
<1>4. /\ carried = <<>> => Names(call.honeycomb, s)
      /\ \A t : Names(carried, t) => Names(call.honeycomb, t)
  <2> DEFINE x == k.frames[1].span
  <2>1. x \in DOMAIN spans /\ NamesSpan(w, spans[x].trace, s)
    BY <1>2, <1>3
  <2>2. carried \in Headers /\ call.honeycomb = Append(carried, w)
    BY <1>2
  <2> HIDE DEF x
  <2>3. /\ carried = <<>> => Names(Append(carried, w), s)
        /\ \A t : Names(carried, t) => Names(Append(carried, w), t)
    BY <2>1, <2>2, NamesFirst
  <2> QED
    BY <2>2, <2>3
<1>5. /\ calls'[c] = call /\ Len(calls') = c
      /\ c \in Nat /\ \A i \in Len(calls) + 1 .. Len(calls') : i = c
  BY <1>0, <1>1 DEF Made
\* What the header names: the call's own span, or that of an earlier call.
<1>6. \/ call.mode # "grpc" /\ k1.metadata # <<>>
      \/ Names(call.honeycomb, s)
      \/ call.mode = "http" /\ NamesCallNext(call.honeycomb, h, c)
  <2>1. CASE carried = <<>>
    BY <1>4, <2>1
  <2>2. CASE call.mode = "http" /\ carried = k.header
    <3>1. \/ k.metadata # <<>> \/ k.header = <<>>
          \/ NamesCall(k.header, h, c)
      BY <1>1 DEF CallerInv, HeaderNamed, HasForwarded
    <3>2. CASE NamesCall(k.header, h, c)
      <4>1. NamesCallNext(k.header, h, c)
        BY <3>2, NamesCallStays
      <4>2. NamesCallNext(call.honeycomb, h, c)
        BY <1>4, <2>2, <4>1 DEF NamesCallNext
      <4> QED
        BY <2>2, <4>2
    <3> QED
      BY <1>1, <1>4, <2>2, <3>1, <3>2
  <2>3. CASE call.mode = "grpcHook" /\ carried = k.metadata
    BY <1>1, <1>4, <2>3
  <2> QED
    BY <1>2, <2>1, <2>2, <2>3
<1>7. CallNamed(c)'
  BY <1>1, <1>5, <1>6 DEF CallNamed, HasForwarded, NamesCall, NamesCallNext
<1>8. HeaderNamed(h)' \/ k1.header = k.header
  <2>1. CASE call.mode # "http"
    BY <1>1, <2>1
  <2>2. CASE call.mode = "http"
    <3>1. k1.header = call.honeycomb
      BY <1>1, <2>2
    <3>2. ASSUME Names(call.honeycomb, s) PROVE NamesCallNext(k1.header, h, c + 1)
      <4>1. c \in 1 .. Len(calls') /\ c < c + 1
        BY <1>0, <1>5
      <4> QED
        BY <1>1, <1>5, <2>2, <3>1, <3>2, <4>1 DEF NamesCallNext
    <3>3. ASSUME NamesCallNext(call.honeycomb, h, c) PROVE NamesCallNext(k1.header, h, c + 1)
      <4>1. \A i \in 1 .. Len(calls') : i < c => i < c + 1
        BY <1>5
      <4> QED
        BY <3>1, <3>3, <4>1 DEF NamesCallNext
    <3>4. k1.metadata # <<>> \/ NamesCallNext(k1.header, h, Len(calls') + 1)
      BY <1>5, <1>6, <2>2, <3>2, <3>3
    <3> QED
      BY <3>4 DEF HeaderNamed, HasForwarded, NamesCall, NamesCallNext
  <2> QED
    BY <2>1, <2>2
<1>9. \A j \in 1 .. Len(handlers) :
        handlers'[j].header = handlers[j].header \/ HeaderNamed(j)'
  BY <1>1, <1>8 DEF Changed
<1>10. Len(handlers) + 1 .. Len(handlers') = {}
  BY <1>0, <1>1 DEF Changed
<1> QED
  BY <1>5, <1>7, <1>9, <1>10, CallerStep

LEMMA CallsUntracedCaller ==
  ASSUME Base, CallerInv, Kept, NEW h, NEW call, CallsUntraced(h, call)
  PROVE  CallerInv'
<1>0. Len(calls) \in Nat /\ Len(handlers) \in Nat
  BY Typed DEF Base
<1> SUFFICES ASSUME NEW c, c = Len(calls) + 1
             PROVE  CallerInv'
  OBVIOUS
<1>1. /\ h \in 1 .. Len(handlers) /\ UNCHANGED <<spans, handlers>> /\ Made(call)
      /\ call.handler = h /\ call.mode \in Untraced
      /\ call.honeycomb = IF call.mode = "grpcUntraced" THEN handlers[h].metadata
                          ELSE handlers[h].header
  BY DEF CallsUntraced
<1>2. /\ calls'[c] = call /\ \A i \in Len(calls) + 1 .. Len(calls') : i = c
  BY <1>0, <1>1 DEF Made
<1>3. \/ handlers[h].metadata # <<>> \/ call.honeycomb = <<>>
      \/ call.mode = "httpUntraced" /\ NamesCallNext(call.honeycomb, h, c)
  BY <1>1, NamesCallStays DEF CallerInv, HeaderNamed, HasForwarded, Untraced
<1>4. CallNamed(c)'
  BY <1>1, <1>2, <1>3 DEF CallNamed, HasForwarded, NamesCall, NamesCallNext, Untraced
<1>5. Len(handlers) + 1 .. Len(handlers') = {}
  BY <1>0, <1>1
<1> QED
  BY <1>1, <1>2, <1>4, <1>5, CallerStep

LEMMA EffectCaller ==
  ASSUME Base, CallerInv, Kept, Effect
  PROVE  CallerInv'
<1>1. ASSUME NEW h, Responds(h) PROVE CallerInv'
  BY <1>1, QuietCaller DEF Responds, SameTrace, Changed
<1>2. ASSUME NEW h, Forwards(h) PROVE CallerInv'
  <2>1. /\ h \in 1 .. Len(handlers) /\ Changed(h) /\ UNCHANGED calls
        /\ handlers'[h].metadata # <<>>
    BY <1>2 DEF Forwards
  <2>2. HeaderNamed(h)'
    BY <2>1 DEF HeaderNamed, HasForwarded
  <2> QED
    BY <2>1, <2>2, QuietCaller DEF Changed
<1>3. ASSUME NEW h, NEW s, Wraps(h, s) PROVE CallerInv'
  BY <1>3, QuietCaller DEF Wraps, SameTrace, Changed
<1>4. ASSUME NEW h, NEW outcome, NEW fields, Returns(h, outcome, fields) PROVE CallerInv'
  BY <1>4, QuietCaller DEF Returns, Changed
<1>5. ASSUME NEW h, Panics(h) PROVE CallerInv'
  BY <1>5, QuietCaller DEF Panics, SameTrace, Changed
<1>6. ASSUME NEW c, Ends(c) PROVE CallerInv'
  BY <1>6, QuietCaller DEF Ends
<1>7. CASE UNCHANGED <<spans, handlers, calls>>
  BY <1>7, QuietCaller
<1> QED
  BY <1>1, <1>2, <1>3, <1>4, <1>5, <1>6, <1>7, StartsCaller, CallsCaller,
     CallsUntracedCaller DEF Effect

-------------------------------------------------------------------------------
(* The invariant holds, and what it says.                                  *)

LEMMA Initially == Init => IInv
<1> SUFFICES ASSUME Init
             PROVE  IInv
  OBVIOUS
<1>1. spans = <<>> /\ handlers = <<>> /\ calls = <<>>
  BY DEF Init
<1>2. DOMAIN spans = {} /\ Len(handlers) = 0 /\ Len(calls) = 0 /\ 1 .. 0 = {}
      /\ <<>> \in Seq(Handler) /\ <<>> \in Seq(CallType)
  BY <1>1
<1>3. Types
  BY <1>1, <1>2 DEF Types, SpansTyped, HandlersTyped, CallsTyped
<1> QED
  BY <1>2, <1>3 DEF IInv, Base, FrameInv, CallInv, TraceInv, CallerInv, OutcomeInv,
     ResultInv, EndInv

LEMMA Inductive == IInv /\ [Next]_vars => IInv'
<1> SUFFICES ASSUME IInv, [Next]_vars
             PROVE  IInv'
  OBVIOUS
<1>1. Base /\ TraceInv /\ CallerInv /\ OutcomeInv /\ ResultInv /\ EndInv
  BY DEF IInv
<1>2. Effect
  BY <1>1, StepEffect
<1>3. Kept
  BY <1>1, <1>2, EffectKeeps
<1>4. Base'
  BY <1>1, <1>2, <1>3, EffectFrames, EffectCalls DEF Base, Kept
<1> QED
  BY <1>1, <1>2, <1>3, <1>4, EffectTrace, EffectCaller, EffectOutcome, EffectResult,
     EffectEnd DEF IInv

LEMMA Invariance == Spec => []IInv
BY Initially, Inductive, PTL DEF Spec

\* Whatever is lost, repeated, forwarded or late, a span is in the trace of the
\* span it names as its parent.
THEOREM TraceWhole == Spec => []ParentInTrace
<1>1. IInv => ParentInTrace
  <2> SUFFICES ASSUME IInv, NEW s \in DOMAIN spans, spans[s].parent \in DOMAIN spans
               PROVE  spans[spans[s].parent].trace = spans[s].trace
    BY DEF ParentInTrace
  <2>1. spans[s].parent \in SpanId
    BY Typed DEF IInv, Base
  <2> QED
    BY <2>1 DEF IInv, TraceInv, Known
<1> QED
  BY <1>1, Invariance, PTL

\* A handler's span is the child of the span of the call it serves, but for the
\* two exceptions that ChildOfCaller names.
THEOREM ServedBelowCaller == Spec => []ChildOfCaller
<1>1. IInv => ChildOfCaller
  <2> SUFFICES ASSUME IInv, NEW h \in DOMAIN handlers, handlers[h].from # 0
               PROVE  LET call == calls[handlers[h].from]
                          parent == spans[handlers[h].span].parent IN
                      \/ parent = call.span
                      \/ call.mode # "grpc" /\ HasForwarded(call.handler)
                      \/ /\ call.mode \in {"http", "httpUntraced"}
                         /\ \E c \in 1 .. handlers[h].from - 1 :
                              calls[c].mode = "http" /\ calls[c].handler = call.handler
                              /\ calls[c].span = parent
    BY DEF ChildOfCaller
  <2>1. Child(h)
    BY Typed DEF IInv, Base, CallerInv
  <2> QED
    BY <2>1 DEF Child
<1> QED
  BY <1>1, Invariance, PTL

\* An event says how its request ended, with the fields of the trace, and a
\* wrapper's span is open as long as what it wraps.
THEOREM EventsWhole == Spec => []EventsComplete
<1>1. IInv => EventsComplete
  <2> SUFFICES ASSUME IInv
               PROVE  EventsComplete
    OBVIOUS
  <2>1. DOMAIN handlers = 1 .. Len(handlers)
    BY Typed DEF IInv, Base
  <2>2. ASSUME NEW s \in DOMAIN spans, spans[s].sent = "self", spans[s].outcome = "none"
        PROVE  IsCall(s) \/ handlers[spans[s].handler].end = "panicked"
    BY <2>2 DEF IInv, OutcomeInv, Excused
  <2>3. ASSUME NEW h \in 1 .. Len(handlers), handlers[h].end = "returned"
        PROVE  spans[handlers[h].span].fields = handlers[h].fields
    BY <2>3 DEF IInv, EndInv, HandlerEnds
  <2>4. ASSUME NEW h \in 1 .. Len(handlers), NEW i \in DOMAIN handlers[h].frames
        PROVE  spans[handlers[h].frames[i].span].sent = "no"
    <3>1. Base /\ i \in 1 .. Len(handlers[h].frames)
      BY FramesTyped DEF IInv, Base
    <3> QED
      BY <3>1, FrameSpan
  <2>5. \A c \in DOMAIN calls : CallResult(c)
    BY Typed DEF IInv, Base, ResultInv
  <2> QED
    BY <2>1, <2>2, <2>3, <2>4, <2>5 DEF EventsComplete, CallResult
<1> QED
  BY <1>1, Invariance, PTL

\* The status on a handler's event is the one the client got, unless the body or
\* a 1xx response was written first.
THEOREM StatusOfClient == Spec => []StatusAgrees
<1>1. IInv => StatusAgrees
  <2> SUFFICES ASSUME IInv, NEW h \in DOMAIN handlers,
                      handlers[h].end = "returned", ~handlers[h].odd
               PROVE  /\ spans[handlers[h].span].sent = "self"
                      /\ spans[handlers[h].span].outcome = handlers[h].committed
    BY DEF StatusAgrees
  <2>1. HandlerEnds(h)
    BY Typed DEF IInv, Base, EndInv
  <2> QED
    BY <2>1 DEF HandlerEnds
<1> QED
  BY <1>1, Invariance, PTL

===============================================================================
