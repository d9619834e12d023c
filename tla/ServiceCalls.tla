----------------------------- MODULE ServiceCalls -----------------------------
(***************************************************************************)
(* Services that call one another through the HTTP, gRPC and router        *)
(* wrappers.  A request starts a handler with a span of its own, below the *)
(* span that the request's header names; a handler makes calls, each with  *)
(* a span whose ID goes into the header of the call; a call is lost,       *)
(* delivered, or delivered twice, may be given up before it is answered,   *)
(* made again with the same request, and outlive the handler that made it. *)
(*                                                                         *)
(* The headers are those of Propagation, in the Honeycomb format where no  *)
(* hook says otherwise.  Spans are sent as SpanTree has it, in one step:   *)
(* the open spans below a span go with it, marked meta.sent_by_parent.     *)
(***************************************************************************)
EXTENDS Propagation, Functions

CONSTANTS
  ForeignRequest,  \* the headers of requests from elsewhere
  ForeignSpan,     \* the span IDs in them
  NewTraceID,      \* the trace ID made for the trace of a root span
  Code,            \* the final status codes handlers write
  MaxHandlers, MaxOps \* bounds: handlers started, and what they do in all

ASSUME NewTraceAssumption == NewTraceID \in [Hex16 -> Hex32]
ASSUME CodeAssumption == {"200", "500"} \subseteq Code /\ {"none", "out"} \cap Code = {}
ASSUME BoundsAssumption == MaxHandlers \in Nat /\ MaxOps \in Nat

VARIABLES
  spans,    \* by ID
  handlers, \* in the order of their start
  calls,    \* in the order they were made
  ops       \* what handlers have done before they return, for MaxOps

vars == <<spans, handlers, calls, ops>>

\* How a server wrapper learns the status of a response: from a writer of its
\* own or from the framework's.  In what a span sees of it, a wrapper is no more
\* than that; the names and parameters of routes are left out.
NetHttp == "recorder"
Goji == "recorder"
Gorilla == "recorder"
HttpRouter == "recorder"
Gin == "framework"
Echo == "framework"  \* whose handlers alone may return an error
Grpc == "grpc"
Wrapper == {NetHttp, Goji, Gorilla, HttpRouter, Gin, Echo, Grpc}

\* An untraced call is one without a span in its context.
Untraced == {"httpUntraced", "grpcUntraced"}
Mode == {"http", "grpc", "grpcHook"} \cup Untraced
Protocol(m) == IF m \in {"grpc", "grpcHook", "grpcUntraced"} THEN "grpc" ELSE "http"

Informational == "103"
Unset == ""

SpanId == Hex16 \ ForeignSpan

\* An ID made here is not one that came from elsewhere.
ASSUME ForeignAssumption ==
  \A r \in ForeignRequest :
    /\ r.honeycomb \in Seq(HoneycombHeader) /\ r.traceparent \in TraceparentHeader
    /\ \A i \in DOMAIN r.honeycomb : r.honeycomb[i].parent \notin SpanId
    /\ r.traceparent.parent \notin SpanId

Init ==
  /\ spans = <<>>
  /\ handlers = <<>>
  /\ calls = <<>>
  /\ ops = 0

-------------------------------------------------------------------------------
(* Spans.                                                                  *)

getNewID == CHOOSE s \in SpanId : s \notin DOMAIN spans
MoreIDs == SpanId \ DOMAIN spans # {}

NewSpan(trace, parent, above, h) ==
  [trace |-> trace, parent |-> parent, above |-> above, handler |-> h,
   outcome |-> "none", sent |-> "no", fields |-> NoFields]

\* The spans and one more.
WithSpan(s, new) ==
  [x \in DOMAIN spans \cup {s} |-> IF x = s THEN new ELSE spans[x]]

\* The open spans whose chain of open parents within the process leads into S.
Below(S) ==
  LET Children(T) == {c \in DOMAIN spans : spans[c].sent = "no" /\ spans[c].above \in T} IN
  Children(S) \cup Children(Children(S))

\* AddField of the outcome and then Send, of the spans of S: neither changes a
\* span that has been sent, and Send takes the fields of the trace.
Send(S, outcome, fields) ==
  LET open == {s \in S : spans[s].sent = "no"}
      below == Below(open) IN
  [s \in DOMAIN spans |->
     IF s \in open
     THEN [spans[s] EXCEPT !.outcome = outcome, !.sent = "self", !.fields = fields]
     ELSE IF s \in below THEN [spans[s] EXCEPT !.sent = "parent", !.fields = fields]
     ELSE spans[s]]

-------------------------------------------------------------------------------
(* Seeded faults: the definitions below with a plausible bug in them.      *)

\* The trace is made before the header has been looked at.
TraceOfFresh(prop, s) == NewTraceID[s]

\* The caller's own span is put into the header.
CallHeaderOfCaller(h, s) ==
  MarshalHoneycomb([Empty EXCEPT !.trace = spans[handlers[h].frames[1].span].trace,
                                 !.parent = handlers[h].frames[1].span,
                                 !.fields = handlers[h].fields], FALSE)

\* Each code is recorded, not the first.
RecordedLast(status, code) == code

\* Without defer: a panic passes by the Send of the span.
SentByPanicNone(h) == spans

\* The gRPC wrapper does not look at the error.
CallEndedUnseen(call, o) ==
  IF call.span = NoId THEN spans
  ELSE Send({call.span}, IF Protocol(call.mode) = "grpc" THEN "none" ELSE o,
            handlers[call.handler].fields)

-------------------------------------------------------------------------------
(* The start of a handler.                                                 *)

\* The Honeycomb header is preferred, the first of its values is read, and the
\* error is dropped.  A gRPC service does not know the W3C headers.
ReadContext(request, wrapper) ==
  IF request.honeycomb # <<>> THEN UnmarshalHoneycomb(Head(request.honeycomb), FALSE).prop
  ELSE IF wrapper # "grpc" /\ request.traceparent.wellFormed
       THEN UnmarshalW3C(request.traceparent, <<>>).prop
  ELSE Empty

\* NewTrace.
TraceOf(prop, s) == IF prop.trace = NoId THEN NewTraceID[s] ELSE prop.trace

Frame(s, wrapper) == [span |-> s, wrapper |-> wrapper, status |-> Unset]

\* from is the call that is served, 0 for a request from elsewhere.  A header that
\* panics is the end of its request, before it has a span.
StartSpanOrTrace(request, wrapper, from) ==
  LET prop == ReadContext(request, wrapper)
      s == getNewID
      h == Len(handlers) + 1 IN
  /\ MoreIDs /\ h <= MaxHandlers
  /\ request.honeycomb # <<>> => ~HoneycombPanics(Head(request.honeycomb), FALSE)
  /\ spans' = WithSpan(s, NewSpan(TraceOf(prop, s), prop.parent, NoId, h))
  /\ handlers' = Append(handlers,
       [span |-> s, from |-> from, incoming |-> request.honeycomb,
        frames |-> <<Frame(s, wrapper)>>, committed |-> Unset,
        odd |-> FALSE, fields |-> prop.fields, end |-> "no",
        header |-> <<>>, metadata |-> <<>>])
  /\ UNCHANGED <<calls, ops>>

Arrive(request, wrapper) ==
  /\ handlers = <<>>
  /\ StartSpanOrTrace(request, wrapper, 0)

\* Never, once or several times.
Deliver(c, wrapper) ==
  /\ wrapper = "grpc" <=> Protocol(calls[c].mode) = "grpc"
  /\ StartSpanOrTrace([honeycomb |-> calls[c].honeycomb, traceparent |-> NoTraceparent],
                      wrapper, c)

\* A wrapped handler inside a wrapped handler finds a span in the context.
Wrap(h) ==
  LET s == getNewID
      outer == handlers[h].frames[1] IN
  /\ MoreIDs
  /\ Len(handlers[h].frames) = 1 /\ outer.wrapper # "grpc"
  /\ spans' = WithSpan(s, NewSpan(spans[outer.span].trace, outer.span, outer.span, h))
  /\ handlers' = [handlers EXCEPT ![h].frames =
       Append(@, Frame(s, "recorder"))]
  /\ UNCHANGED calls

-------------------------------------------------------------------------------
(* The response.                                                           *)

Top(h) == handlers[h].frames[Len(handlers[h].frames)]
Running(h) == handlers[h].frames # <<>>
IsHttp(h) == Running(h) /\ handlers[h].frames[1].wrapper # "grpc"

\* "Only record the first code written."
Recorded(status, code) == IF status = Unset THEN code ELSE status

\* Each writer around the server's records what passes.
AllRecorded(h, code) ==
  LET frames == handlers[h].frames IN
  [i \in DOMAIN frames |-> [frames[i] EXCEPT !.status = Recorded(@, code)]]

WriteHeader(h, code) ==
  /\ IsHttp(h)
  /\ handlers' = [handlers EXCEPT
       ![h].frames = AllRecorded(h, code),
       ![h].committed = IF @ = Unset THEN code ELSE @]
  /\ UNCHANGED <<spans, calls>>

\* The server commits to 200 without a WriteHeader that a wrapper would see.
Write(h) ==
  /\ IsHttp(h) /\ handlers[h].committed = Unset
  /\ handlers' = [handlers EXCEPT ![h].committed = "200", ![h].odd = TRUE]
  /\ UNCHANGED <<spans, calls>>

\* A response that is only announced passes the wrappers as a code like others.
WriteInformational(h) ==
  /\ IsHttp(h) /\ handlers[h].committed = Unset
  /\ \A i \in DOMAIN handlers[h].frames : handlers[h].frames[i].wrapper = "recorder"
  /\ handlers' = [handlers EXCEPT
       ![h].frames = AllRecorded(h, Informational),
       ![h].odd = TRUE]
  /\ UNCHANGED <<spans, calls>>

\* What the wrapper reports; a framework has a status before one is written.
FrameStatus(f, committed) ==
  LET written == IF f.wrapper = "recorder" THEN f.status ELSE committed IN
  IF written = Unset THEN "200" ELSE written

\* The handler inside the innermost wrapper returns.  The echo wrapper has an
\* error made a response; the gRPC one adds it to the trace.
Return(h, err) ==
  LET f == Top(h)
      last == Len(handlers[h].frames) = 1
      committed == IF f.wrapper = "framework" /\ err /\ handlers[h].committed = Unset
                   THEN "500" ELSE handlers[h].committed
      outcome == IF f.wrapper = "grpc" THEN IF err THEN "500" ELSE "200"
                 ELSE FrameStatus(f, committed)
      fields == IF f.wrapper = "grpc" /\ err
                THEN [handlers[h].fields EXCEPT !["handler_error"] = "text"]
                ELSE handlers[h].fields IN
  /\ Running(h)
  /\ err => f.wrapper \in {"framework", "grpc"}
  /\ handlers' = [handlers EXCEPT
       ![h].frames = Front(@),
       ![h].fields = fields,
       ![h].committed = IF f.wrapper = "grpc" THEN outcome
                        ELSE IF last /\ committed = Unset THEN "200" ELSE committed,
       ![h].end = IF last THEN "returned" ELSE @]
  /\ spans' = Send({f.span}, outcome, fields)
  /\ UNCHANGED <<calls, ops>>

\* The deferred Sends of all the handler's wrappers, the innermost first.
SentByPanic(h) ==
  Send({f.span : f \in Range(handlers[h].frames)}, "none", handlers[h].fields)

\* The handler panics, and the server, or an interceptor around, recovers.
Panic(h) ==
  /\ Running(h)
  /\ handlers' = [handlers EXCEPT ![h].frames = <<>>, ![h].end = "panicked"]
  /\ spans' = SentByPanic(h)
  /\ UNCHANGED <<calls, ops>>

-------------------------------------------------------------------------------
(* Calls.                                                                  *)

\* The handler copies the headers it got to the calls it will make.
Forward(h) ==
  /\ Running(h)
  /\ \A c \in DOMAIN calls : calls[c].handler # h
  /\ handlers[h].incoming # <<>>
  /\ handlers' = [handlers EXCEPT ![h].header = handlers[h].incoming,
                                  ![h].metadata = handlers[h].incoming]
  /\ UNCHANGED <<spans, calls>>

\* SerializeHeaders of the call's span s.
CallHeader(h, s) ==
  MarshalHoneycomb([Empty EXCEPT !.trace = spans[handlers[h].frames[1].span].trace,
                                 !.parent = s,
                                 !.fields = handlers[h].fields], FALSE)

\* The HTTP wrapper adds to the header of the request, which may be that of the
\* last call, made again; the gRPC one sets, or with a hook joins, in a copy of
\* the metadata.
Call(h, mode, again) ==
  LET s == getNewID
      new == CallHeader(h, s)
      carried == CASE mode = "http" -> Append(IF again THEN handlers[h].header ELSE <<>>, new)
                   [] mode = "grpc" -> <<new>>
                   [] mode = "grpcHook" -> Append(handlers[h].metadata, new)
      up == Top(h).span IN
  /\ again => mode = "http" /\ handlers[h].header # <<>>
  /\ Running(h) /\ MoreIDs
  /\ spans' = WithSpan(s, NewSpan(spans[up].trace, up, up, h))
  /\ handlers' = IF mode = "http" THEN [handlers EXCEPT ![h].header = carried] ELSE handlers
  /\ calls' = Append(calls, [handler |-> h, mode |-> mode, span |-> s,
                             honeycomb |-> carried, result |-> "out"])

\* eventRoundTrip, and the same for gRPC: what the request has goes out as it is.
CallUntraced(h, mode) ==
  /\ Running(h)
  /\ LET carried == IF mode = "grpcUntraced" THEN handlers[h].metadata
                    ELSE handlers[h].header IN
     calls' = Append(calls, [handler |-> h, mode |-> mode, span |-> NoId,
                             honeycomb |-> carried, result |-> "out"])
  /\ UNCHANGED <<spans, handlers>>

CallEnded(call, o) ==
  IF call.span = NoId THEN spans
  ELSE Send({call.span}, o, handlers[call.handler].fields)

\* The response of a handler that served the call, or an error; the gRPC wrapper
\* has nothing to add to the span of a call that went well.
Responses(c) ==
  LET codes == {handlers[h].committed :
                  h \in {k \in DOMAIN handlers : handlers[k].from = c}} \ {Unset} IN
  IF Protocol(calls[c].mode) = "http" THEN {"error"} \cup codes
  ELSE {"error"} \cup (IF "200" \in codes THEN {"none"} ELSE {})

EndCall(c, o) ==
  /\ calls[c].result = "out"
  /\ calls' = [calls EXCEPT ![c].result = o]
  /\ spans' = CallEnded(calls[c], o)
  /\ UNCHANGED <<handlers, ops>>

\* What a handler does before it returns, in any order.
Operation(h) ==
  /\ ops < MaxOps
  /\ ops' = ops + 1
  /\ \/ Wrap(h) \/ Write(h) \/ WriteInformational(h) \/ Forward(h)
     \/ \E code \in Code : WriteHeader(h, code)
     \/ \E mode \in Mode \ Untraced, again \in BOOLEAN : Call(h, mode, again)
     \/ \E mode \in Untraced : CallUntraced(h, mode)

Next ==
  \/ \E r \in ForeignRequest, w \in Wrapper : Arrive(r, w)
  \/ \E c \in DOMAIN calls, w \in Wrapper : Deliver(c, w)
  \/ \E h \in DOMAIN handlers : Panic(h) \/ \E err \in BOOLEAN : Return(h, err)
  \/ \E h \in DOMAIN handlers : Operation(h)
  \/ \E c \in DOMAIN calls : \E o \in Responses(c) : EndCall(c, o)

\* Handlers return or panic, and calls are answered or given up.
Fairness ==
  /\ \A h \in 1..MaxHandlers :
       WF_vars(h \in DOMAIN handlers /\ (Panic(h) \/ \E err \in BOOLEAN : Return(h, err)))
  /\ \A c \in 1..MaxOps :
       WF_vars(c \in DOMAIN calls /\ \E o \in Responses(c) : EndCall(c, o))

Spec == Init /\ [][Next]_vars /\ Fairness

-------------------------------------------------------------------------------
(* Properties.                                                             *)

\* Whatever is lost, repeated, forwarded or late, a span is in the trace of the
\* span it names as its parent, in this process or in the caller's (NewTrace,
\* createChildSpan, serializeHeaders).
ParentInTrace ==
  \A s \in DOMAIN spans :
    spans[s].parent \in DOMAIN spans => spans[spans[s].parent].trace = spans[s].trace

HasForwarded(h) == handlers[h].metadata # <<>>

\* A handler's span is the child of the span of the call it serves.  There are
\* two exceptions, and the default gRPC wrapper has neither: a request made
\* again gives it the span of an earlier attempt, and a header the caller
\* passed on, any (spanRoundTrip, UnaryClientInterceptorWithConfig).
ChildOfCaller ==
  \A h \in DOMAIN handlers : handlers[h].from # 0 =>
    LET call == calls[handlers[h].from]
        parent == spans[handlers[h].span].parent IN
    \/ parent = call.span
    \/ call.mode # "grpc" /\ HasForwarded(call.handler)
    \/ /\ call.mode \in {"http", "httpUntraced"}
       /\ \E c \in 1..handlers[h].from - 1 :
            calls[c].mode = "http" /\ calls[c].handler = call.handler /\ calls[c].span = parent

IsCall(s) == \E c \in DOMAIN calls : calls[c].span = s

\* The event of a call says how the call ended, and that of a request how the
\* request did, unless the span was sent with its parent (and says so) or the
\* handler panicked; and the fields the trace has when a handler returns, its
\* error among them, are on its event, and no wrapper's span is sent before what
\* it wraps has ended (the AddField calls and the deferred Sends after them).
EventsComplete ==
  /\ \A c \in DOMAIN calls :
       LET s == calls[c].span IN
       s # NoId /\ spans[s].sent = "self" => spans[s].outcome = calls[c].result
  /\ \A s \in DOMAIN spans :
       ~IsCall(s) /\ spans[s].sent = "self" /\ spans[s].outcome = "none" =>
         handlers[spans[s].handler].end = "panicked"
  /\ \A h \in DOMAIN handlers :
       /\ handlers[h].end = "returned" => spans[handlers[h].span].fields = handlers[h].fields
       /\ \A i \in DOMAIN handlers[h].frames :
            spans[handlers[h].frames[i].span].sent = "no"

\* The status on a handler's event is the one the client got, whatever wrappers
\* are nested and however often a code is written, unless the body or a 1xx
\* response was written first (NewResponseWriter).
StatusAgrees ==
  \A h \in DOMAIN handlers :
    handlers[h].end = "returned" /\ ~handlers[h].odd =>
      /\ spans[handlers[h].span].sent = "self"
      /\ spans[handlers[h].span].outcome = handlers[h].committed

\* Every span that is started is sent, also when its handler panics, its call is
\* never answered, or its parent has gone first: when no more handlers start,
\* nothing stays open ("defer span.Send()").
SpansEnd == []<>(\A s \in DOMAIN spans : spans[s].sent # "no")

-------------------------------------------------------------------------------
(* What comments say and the code does not do: TLC finds each violated.    *)

\* trace/doc.go, "you will see any spans created by the downstream service
\* appear as children of the span that serialized its state", of a request that
\* had no header when its call was made.
ServedAsChild ==
  \A h \in DOMAIN handlers : handlers[h].from # 0 =>
    LET call == calls[handlers[h].from] IN
    call.mode \in Untraced \/ HasForwarded(call.handler)
      \/ spans[handlers[h].span].parent = call.span

\* "The first call to WriteHeader sends the response header", so the first code
\* written is the one the client has (NewResponseWriter).
StatusSent ==
  \A h \in DOMAIN handlers :
    handlers[h].end = "returned" => spans[handlers[h].span].outcome = handlers[h].committed
===============================================================================
