------------------------------- MODULE Beeline --------------------------------
(***************************************************************************)
(* What the packages of a process share: the client, the hooks and the     *)
(* sampler that Init sets one after the other, while goroutines start      *)
(* traces, send spans, flush and close; and the profiler labels that the   *)
(* start of a trace puts on a goroutine and its end takes off again.       *)
(*                                                                         *)
(* A trace has a root span and at most one child, synchronous or not, that *)
(* is begun at any time, also when the root is being sent or has been;     *)
(* larger trees are the subject of SpanTree.  The libhoney client is       *)
(* modelled by its queue: an event stands in the queue of the client its   *)
(* builder was made by until that client is flushed.  That the client also *)
(* sends batches by itself only empties the queue sooner.                  *)
(***************************************************************************)
EXTENDS Sampler, Sequences, SequencesExt

CONSTANTS
  Goroutine,
  Client, ZeroClient,  \* ZeroClient is the one there is before Init
  Config,              \* the configurations Init may be called with
  Plan,                \* bound: the sequences of them that it is called with
  Hash,                \* the first words of the hashes of the trace IDs
  NoHook,
  None,                \* nil
  MaxTraces, MaxCalls  \* bounds: traces, and calls of the interface besides Init

ASSUME HashAssumption == Hash \subseteq Word

ASSUME ConfigAssumption ==
  \A c \in Config : c.Client \in Client /\ c.SampleRate \in Nat /\ c.PprofTagging \in BOOLEAN

ASSUME NoneAssumption ==
  None \notin Goroutine /\ None \notin Config /\ None \notin [sampleRate : Nat, upperBound : Nat]

ASSUME PlanAssumption == Plan \subseteq Seq(Config)

ASSUME CallsAssumption == MaxCalls \in Nat

VARIABLES
  client,        \* client.client
  serviceName,   \* the service_name field of each client
  closed,        \* the clients that were closed
  SamplerHook, PprofTagging, \* of trace.GlobalConfig; the presend hook decides nothing
  GlobalSampler, \* sample.GlobalSampler
  init,          \* the Init under way: its next step and its configuration
  todoInits,     \* the configurations of the Inits to come
  calls,         \* calls of the interface so far
  traces,        \* in the order of their start
  spans,         \* of each trace its two spans
  todo,          \* the spans each goroutine is sending, the next one first
  flush,         \* the trace each goroutine is flushing
  labels,        \* the span a profile of each goroutine names
  \* History: never read by a guard or by another variable.
  active,        \* the spans of the trace that were active when each goroutine called Flush
  flushed,       \* the last Flush that returned: its trace, those spans, the client it flushed
  late,          \* the traces whose child was begun when the root had queued its own
  started,       \* the traces begun on each goroutine whose root has not been sent
  tidy,          \* the goroutines that have used contexts as they should
  overwritten    \* those whose trace was put in a second context before it was sent

globals == <<client, serviceName, SamplerHook, PprofTagging, GlobalSampler>>
flushes == <<active, flushed, late>>
labelled == <<started, tidy, overwritten>>
history == <<flushes, labelled>>
vars == <<globals, closed, init, todoInits, calls, traces, spans, todo, flush, labels, history>>

SpanKind == {"root", "child"}
\* The steps of Init that other goroutines can come between.
InitStep == {"idle", "client", "fields", "sampler", "pprof", "crashed"}

AbsentSpan ==
  [state |-> "absent", isAsync |-> FALSE, client |-> None, service |-> None, holder |-> None,
   by |-> "nobody", decidedRate |-> 1, kept |-> TRUE, SampleRate |-> 1, event |-> "none"]

Init ==
  /\ client = ZeroClient
  /\ serviceName = [c \in Client \cup {ZeroClient} |-> None]
  /\ closed = {}
  /\ SamplerHook = NoHook /\ PprofTagging = FALSE
  /\ GlobalSampler = None
  /\ init = [step |-> "idle", config |-> None]
  /\ todoInits \in Plan /\ calls = 0
  /\ traces = <<>>
  /\ spans = <<>>
  /\ todo = [g \in Goroutine |-> <<>>]
  /\ flush = [g \in Goroutine |-> 0]
  /\ labels = [g \in Goroutine |-> None]
  /\ active = [g \in Goroutine |-> {}]
  /\ flushed = None
  /\ late = {}
  /\ started = [g \in Goroutine |-> {}]
  /\ tidy = Goroutine
  /\ overwritten = {}

Alive == init.step # "crashed"
Idle(g) == Alive /\ todo[g] = <<>> /\ flush[g] = 0

\* A call of the interface.
Call == calls < MaxCalls /\ calls' = calls + 1

-------------------------------------------------------------------------------
(* Init of beeline.go.                                                     *)

defaultSampleRate == 1

BeginInit ==
  /\ init.step = "idle" /\ todoInits # <<>>
  /\ init' = [step |-> "client", config |-> Head(todoInits)]
  /\ todoInits' = Tail(todoInits)
  /\ UNCHANGED <<globals, closed, calls, traces, spans, todo, flush, labels, history>>

InitTo(from, to) ==
  /\ init.step = from
  /\ init' = [init EXCEPT !.step = to]
  /\ UNCHANGED <<closed, todoInits, calls, traces, spans, todo, flush, labels, history>>

\* client.Set
InitClient ==
  /\ InitTo("client", "fields")
  /\ client' = init.config.Client
  /\ UNCHANGED <<serviceName, SamplerHook, PprofTagging, GlobalSampler>>

\* client.AddField, of whatever client is set.
InitFields ==
  /\ InitTo("fields", "sampler")
  /\ serviceName' = [serviceName EXCEPT ![client] = init.config.ServiceName]
  /\ UNCHANGED <<client, SamplerHook, PprofTagging, GlobalSampler>>

\* "Use the sampler hook if it's defined, otherwise a deterministic sampler";
\* the hook of an earlier Init is not taken away.
InitSampler ==
  LET config == init.config
      rate == IF config.SampleRate = 0 THEN defaultSampleRate ELSE config.SampleRate IN
  /\ init.step = "sampler"
  /\ IF config.SamplerHook # NoHook
     THEN /\ InitTo("sampler", "pprof")
          /\ SamplerHook' = config.SamplerHook
          /\ UNCHANGED GlobalSampler
     ELSE IF DividesByZero(rate)
     THEN InitTo("sampler", "crashed") /\ UNCHANGED <<SamplerHook, GlobalSampler>>
     ELSE /\ InitTo("sampler", "pprof")
          /\ GlobalSampler' = NewDeterministicSampler(rate)
          /\ UNCHANGED SamplerHook
  /\ UNCHANGED <<client, serviceName, PprofTagging>>

InitPprof ==
  /\ InitTo("pprof", "idle")
  /\ PprofTagging' = init.config.PprofTagging
  /\ UNCHANGED <<client, serviceName, SamplerHook, GlobalSampler>>

\* The configuration that is in force when no Init is under way.
Settled == IF init.step = "idle" THEN init.config ELSE None

-------------------------------------------------------------------------------
(* Seeded faults: definitions below with a plausible bug in them.          *)

\* An event is made by the client of the moment.
NewEventOfClient(t, isAsync) ==
  [AbsentSpan EXCEPT !.state = "open", !.isAsync = isAsync, !.client = client,
                     !.service = serviceName[client]]

\* The context is saved when it has the trace's own labels.
NewTraceLabelled(v, ctx) ==
  [hash |-> v, client |-> client, service |-> serviceName[client],
   oldCtx |-> IF PprofTagging THEN <<Len(traces) + 1>> ELSE <<>>,
   config |-> Settled]

\* Sample is asked about the span.
DeterminantOfSpan(t, s) == IF s = "root" THEN traces[t].hash ELSE (traces[t].hash + 1) % W

\* The holder is not given up.
UnlockedNever(span) == span

\* Flush does not wait for the spans to be sent.
FlushReadyAtOnce(g) == flush[g] # 0

-------------------------------------------------------------------------------
(* Traces and their labels.                                                *)

\* NewEvent of the trace's builder, which was made by the client of its start.
NewEvent(t, isAsync) ==
  [AbsentSpan EXCEPT !.state = "open", !.isAsync = isAsync, !.client = traces[t].client,
                     !.service = traces[t].service]

NewTrace(v, ctx) ==
  [hash |-> v, client |-> client, service |-> serviceName[client],
   oldCtx |-> IF PprofTagging THEN <<ctx>> ELSE <<>>,
   config |-> Settled]

\* NewTrace, by StartSpan or a wrapper, in a context that has labels of its own
\* or none.  v is the hash of its ID.
StartTrace(g, v, ctx) ==
  LET t == Len(traces) + 1
      trace == NewTrace(v, ctx) IN
  /\ Idle(g) /\ Call /\ t <= MaxTraces
  /\ traces' = Append(traces, trace)
  /\ spans' = Append(spans, [k \in SpanKind |->
       IF k = "root" THEN [AbsentSpan EXCEPT !.state = "open", !.client = trace.client,
                                             !.service = trace.service]
       ELSE AbsentSpan])
  /\ labels' = IF PprofTagging THEN [labels EXCEPT ![g] = t] ELSE labels
  /\ started' = [started EXCEPT ![g] = @ \cup {t}]
  /\ tidy' = IF ctx = labels[g] THEN tidy ELSE tidy \ {g}
  /\ UNCHANGED <<globals, closed, init, todoInits, todo, flush, flushes, overwritten>>

\* CopyContext puts the trace once more in a context, which has the labels of the
\* goroutine or none.  Its root has one oldCtx, which becomes this one.
CopyContext(g, t, ctx) ==
  /\ Idle(g) /\ Call /\ PprofTagging
  /\ traces' = [traces EXCEPT ![t].oldCtx = <<ctx>>]
  /\ labels' = [labels EXCEPT ![g] = t]
  /\ tidy' = tidy \ {g}
  /\ overwritten' = overwritten \cup {h \in Goroutine : t \in started[h]}
  /\ UNCHANGED <<globals, closed, init, todoInits, spans, todo, flush, flushes, started>>

\* CreateChild and CreateAsyncChild, whatever has become of the root.
StartChild(g, t, isAsync) ==
  /\ Idle(g) /\ Call /\ spans[t]["child"].state = "absent"
  /\ spans' = [spans EXCEPT ![t]["child"] = NewEvent(t, isAsync)]
  /\ late' = IF spans[t]["root"].state = "open" THEN late ELSE late \cup {t}
  /\ UNCHANGED <<globals, closed, init, todoInits, traces, todo, flush, labels>>
  /\ UNCHANGED <<active, flushed, labelled>>

-------------------------------------------------------------------------------
(* Sending a span.                                                         *)

Send(g, t, s) ==
  /\ Idle(g) /\ Call /\ spans[t][s].state # "absent"
  /\ todo' = [todo EXCEPT ![g] = <<<<t, s>>>>]
  /\ UNCHANGED <<globals, closed, init, todoInits, traces, spans, flush, labels, history>>

\* Goroutine g comes to the span s of the trace t, in the state given.
Sending(g, t, s, state) ==
  /\ Alive
  /\ todo[g] # <<>> /\ Head(todo[g]) = <<t, s>>
  /\ spans[t][s].state = state

\* The root has its synchronous child sent before itself.
Lock(g, t, s) ==
  /\ Sending(g, t, s, "open")
  /\ spans' = [spans EXCEPT ![t][s] = [@ EXCEPT !.state = "locked", !.holder = g]]
  /\ todo' = IF s = "root" /\ spans[t]["child"].state \notin {"absent", "sent"}
                /\ ~spans[t]["child"].isAsync
             THEN [todo EXCEPT ![g] = <<<<t, "child">>>> \o @] ELSE todo
  /\ UNCHANGED <<globals, closed, init, todoInits, calls, traces, flush, labels, history>>

\* Somebody else has sent it.
Skip(g, t, s) ==
  /\ Sending(g, t, s, "sent")
  /\ todo' = [todo EXCEPT ![g] = Tail(@)]
  /\ UNCHANGED <<globals, closed, init, todoInits, calls, traces, spans, flush, labels, history>>

\* Sample is asked about the trace, not about the span.
Determinant(t, s) == traces[t].hash

\* The hook decides; the rate it gives is told apart by no property.
DecideByHook(g, t, s, kept) ==
  /\ Sending(g, t, s, "locked") /\ spans[t][s].holder = g
  /\ SamplerHook # NoHook
  /\ spans' = [spans EXCEPT ![t][s] = [@ EXCEPT !.state = "decided", !.by = "hook",
                 !.kept = kept]]
  /\ UNCHANGED <<globals, closed, init, todoInits, calls, traces, todo, flush, labels, history>>

\* Without a hook and a sampler the event is kept.
Decide(g, t, s) ==
  /\ Sending(g, t, s, "locked") /\ spans[t][s].holder = g
  /\ SamplerHook = NoHook
  /\ spans' = [spans EXCEPT ![t][s] =
       IF GlobalSampler = None THEN [@ EXCEPT !.state = "decided"]
       ELSE [@ EXCEPT !.state = "unrated", !.by = "sampler",
               !.decidedRate = GlobalSampler.sampleRate,
               !.kept = Sample(GlobalSampler, Determinant(t, s))]]
  /\ UNCHANGED <<globals, closed, init, todoInits, calls, traces, todo, flush, labels, history>>

\* The global is read a second time for the rate.
SetRate(g, t, s) ==
  /\ Sending(g, t, s, "unrated") /\ spans[t][s].holder = g
  /\ spans' = [spans EXCEPT ![t][s] = [@ EXCEPT !.state = "decided",
                 !.SampleRate = GlobalSampler.sampleRate]]
  /\ UNCHANGED <<globals, closed, init, todoInits, calls, traces, todo, flush, labels, history>>

\* Where SendPresampled puts the event: the client before Init discards all.
Dispatched(span) ==
  IF ~span.kept THEN "dropped"
  ELSE IF span.client = ZeroClient THEN "discarded"
  ELSE IF span.client \in closed THEN "lost"
  ELSE "queued"

Unlocked(span) == [span EXCEPT !.holder = None]

\* t is the trace of S that was begun last.
Latest(t, S) == t \in S /\ \A u \in S : u <= t

\* The event is handed over, the span is marked, and with a root the labels of
\* the goroutine that sends it become those saved.
Dispatch(g, t, s) ==
  LET restores == s = "root" /\ traces[t].oldCtx # <<>> IN
  /\ Sending(g, t, s, "decided") /\ spans[t][s].holder = g
  /\ spans' = [spans EXCEPT ![t][s] =
                 Unlocked([@ EXCEPT !.state = "sent", !.event = Dispatched(spans[t][s])])]
  /\ todo' = [todo EXCEPT ![g] = Tail(@)]
  /\ labels' = IF restores THEN [labels EXCEPT ![g] = Head(traces[t].oldCtx)] ELSE labels
  /\ started' = IF s = "root" THEN [h \in Goroutine |-> started[h] \ {t}] ELSE started
  /\ tidy' = IF s # "root" \/ Latest(t, started[g]) THEN tidy
             ELSE {h \in tidy : h # g /\ t \notin started[h]}
  /\ UNCHANGED <<globals, closed, init, todoInits, calls, traces, flush, flushes, overwritten>>

-------------------------------------------------------------------------------
(* Flush and Close.                                                        *)

\* The events of client c reach the server.
Delivered(c) ==
  [t \in DOMAIN spans |-> [k \in SpanKind |->
     IF spans[t][k].event = "queued" /\ spans[t][k].client = c
     THEN [spans[t][k] EXCEPT !.event = "delivered"] ELSE spans[t][k]]]

\* Trace.Send, unless the root has been sent.
FlushStart(g, t) ==
  /\ Idle(g) /\ Call
  /\ flush' = [flush EXCEPT ![g] = t]
  /\ todo' = IF spans[t]["root"].state = "sent" THEN todo
             ELSE [todo EXCEPT ![g] = <<<<t, "root">>>>]
  /\ active' = [active EXCEPT ![g] =
                  {s \in SpanKind : spans[t][s].state \notin {"absent", "sent"}}]
  /\ UNCHANGED <<globals, closed, init, todoInits, traces, spans, labels>>
  /\ UNCHANGED <<flushed, late, labelled>>

FlushReady(g) == flush[g] # 0 /\ todo[g] = <<>>

\* client.Flush, of the client that is set by then.
FlushEnd(g) ==
  /\ Alive /\ FlushReady(g)
  /\ spans' = Delivered(client)
  /\ flush' = [flush EXCEPT ![g] = 0]
  /\ active' = [active EXCEPT ![g] = {}]
  /\ flushed' = [trace |-> flush[g], active |-> active[g], client |-> client]
  /\ UNCHANGED <<globals, closed, init, todoInits, calls, traces, todo, labels, late, labelled>>

\* Close "does flush any pending libhoney events".
Close ==
  /\ Alive /\ Call /\ client \notin closed
  /\ spans' = Delivered(client)
  /\ closed' = closed \cup {client}
  /\ UNCHANGED <<globals, init, todoInits, traces, todo, flush, labels, history>>

Next ==
  \/ BeginInit \/ InitClient \/ InitFields \/ InitSampler \/ InitPprof
  \/ \E g \in Goroutine :
       \/ \E v \in Hash, ctx \in {labels[g], None} : StartTrace(g, v, ctx)
       \/ \E t \in DOMAIN traces :
            \/ \E ctx \in {labels[g], None} : CopyContext(g, t, ctx)
            \/ FlushStart(g, t)
            \/ \E isAsync \in BOOLEAN : StartChild(g, t, isAsync)
            \/ \E s \in SpanKind :
                 \/ Send(g, t, s) \/ Lock(g, t, s) \/ Skip(g, t, s)
                 \/ \E kept \in BOOLEAN : DecideByHook(g, t, s, kept)
                 \/ Decide(g, t, s) \/ SetRate(g, t, s) \/ Dispatch(g, t, s)
       \/ FlushEnd(g)
  \/ Close

Spec == Init /\ [][Next]_vars
-------------------------------------------------------------------------------
(* Properties.                                                             *)

\* A span being sent is held by the goroutine that sends it and by no other, an
\* event is somewhere only if its span has been sent, and no goroutine but one
\* that flushes has a trace to flush (sendLock, Flush).
TypeOK ==
  /\ client \in Client \cup {ZeroClient} /\ closed \subseteq Client \cup {ZeroClient}
  /\ init.step \in InitStep /\ calls \in 0..MaxCalls
  /\ \A t \in DOMAIN traces, s \in SpanKind :
       LET span == spans[t][s] IN
       /\ span.state \in {"absent", "open", "locked", "unrated", "decided", "sent"}
       /\ span.holder # None <=> span.state \in {"locked", "unrated", "decided"}
       /\ span.holder # None => <<t, s>> \in Range(todo[span.holder])
       /\ span.event # "none" <=> span.state = "sent"
  /\ \A g \in Goroutine : flush[g] \in 0..Len(traces)

\* The events of a trace that is begun between two Inits go to the client of the
\* first and carry its service name, however many Inits come before they are
\* sent; one begun during an Init may go to either, and without a name (Init,
\* NewBuilder, "the state of the libhoney client that sends all beeline events").
EventsNamed ==
  \A t \in DOMAIN traces :
    traces[t].config # None => \A s \in SpanKind : spans[t][s].state # "absent" =>
      /\ spans[t][s].client = traces[t].config.Client
      /\ spans[t][s].service = traces[t].config.ServiceName

\* A child that the Send of the root does not see to: it is asynchronous, or was
\* begun when the root had queued its children already.
LeftAlone(t, s) == s = "child" /\ (spans[t][s].isAsync \/ t \in late)

\* When Flush has returned, the root of its trace has been sent, whoever else was
\* at it, and so has its child unless it is one left alone; and none of their
\* events waits, unless another client was set since the trace began (Trace.Send,
\* "Flush sends any pending events").
FlushDelivers ==
  flushed # None => \A s \in SpanKind :
    LET span == spans[flushed.trace][s] IN ~LeftAlone(flushed.trace, s) =>
    /\ span.state \in {"absent", "sent"}
    /\ span.client = flushed.client => span.event # "queued"

DecidedBySampler == {p \in (DOMAIN traces) \X SpanKind : spans[p[1]][p[2]].by = "sampler"}

\* The default sampler takes related events together: what is kept of a trace at
\* one rate is kept at each smaller one, by other spans, in other services, or
\* after another Init, for the rates that fit in a word (DeterministicSampler,
\* "without communication").
RelatedDecisions ==
  \A p, q \in DecidedBySampler :
    LET a == spans[p[1]][p[2]]
        b == spans[q[1]][q[2]] IN
    /\ traces[p[1]].hash = traces[q[1]].hash
    /\ a.decidedRate <= b.decidedRate /\ b.decidedRate < W
    => (b.kept => a.kept)

\* A goroutine that begins its traces in the context it runs in, and sends the
\* last one first, has the labels of the innermost it has not sent, and in the
\* end those it had before, unless one of them was put in a second context in the
\* meantime, here or elsewhere (the end of Span.Send, PutTraceInContext).
LabelsRestored ==
  \A g \in tidy \ overwritten :
    LET tagged == {t \in started[g] : traces[t].oldCtx # <<>>} IN
    IF tagged = {} THEN labels[g] = None ELSE Latest(labels[g], tagged)

-------------------------------------------------------------------------------
(* What comments say and the code does not do: TLC finds each violated.    *)

\* "Flush implicitly ends all currently active spans", those that were active in
\* its trace when it was called.
FlushEndsSpans ==
  flushed # None => \A s \in flushed.active : spans[flushed.trace][s].state = "sent"

\* "All spans in that trace will be sent (or none at all)": the default sampler
\* decides alike on the spans of one trace.
WholeTraces ==
  \A t \in DOMAIN traces : \A r, s \in SpanKind :
    {<<t, r>>, <<t, s>>} \subseteq DecidedBySampler => spans[t][r].kept = spans[t][s].kept

\* "Restore pprof labels from before this span was created": a tidy goroutine has
\* its first labels when all its traces are sent, whatever others did with them.
LabelsAsBefore == \A g \in tidy : started[g] = {} => labels[g] = None
===============================================================================
