---------------------------- MODULE BeelineProofs ------------------------------
(***************************************************************************)
(* Proofs about Beeline, for every set of goroutines, clients, plans and   *)
(* hashes, every width of a word, and every value of the bounds: what a    *)
(* trace's spans are decided by and reported with; that goroutines, in     *)
(* whatever order they send the spans of a trace, hold one of them each at *)
(* a time, so that a Flush that returns has the spans sent and delivered   *)
(* that the Send of a root sees to; and whose labels a goroutine has.      *)
(***************************************************************************)
EXTENDS Beeline, SamplerProofs

-------------------------------------------------------------------------------
(* Types.                                                                  *)

AnyClient == Client \cup {ZeroClient}
Name == {c.ServiceName : c \in Config} \cup {None}
Label == Nat \cup {None}

InitState == [step : InitStep, config : Config \cup {None}]
Trace == [hash : Word, client : AnyClient, service : Name, oldCtx : Seq(Label),
          config : Config \cup {None}]
SpanState == {"absent", "open", "locked", "unrated", "decided", "sent"}
Span == [state : SpanState, isAsync : BOOLEAN, client : AnyClient \cup {None},
         service : Name, holder : Goroutine \cup {None},
         by : {"nobody", "hook", "sampler"}, decidedRate : Nat, kept : BOOLEAN,
         SampleRate : Nat,
         event : {"none", "dropped", "discarded", "lost", "queued", "delivered"}]
Pair == [SpanKind -> Span]

IsSampler(ds) ==
  /\ ds.sampleRate \in Nat /\ ~DividesByZero(ds.sampleRate)
  /\ ds = NewDeterministicSampler(ds.sampleRate)

Types ==
  /\ client \in AnyClient
  /\ serviceName \in [AnyClient -> Name]
  /\ init \in InitState /\ (init.step # "idle" => init.config \in Config)
  /\ todoInits \in Seq(Config)
  /\ GlobalSampler = None \/ IsSampler(GlobalSampler)
  /\ traces \in Seq(Trace) /\ spans \in Seq(Pair) /\ Len(spans) = Len(traces)
  /\ labels \in [Goroutine -> Label]

(***************************************************************************)
(* The invariant: while no Init is under way the client and its field are  *)
(* those of the last; a trace has those of its start, and its spans those  *)
(* of the trace; what the sampler decided is what a sampler of the rate it *)
(* had would decide; and a sampler that was asked for its decision can be  *)
(* asked for its rate.                                                     *)
(***************************************************************************)
InitDone(steps) == init.step \notin steps /\ init.config # None

InitAgrees ==
  /\ InitDone({"client"}) => client = init.config.Client
  /\ InitDone({"client", "fields"}) => serviceName[client] = init.config.ServiceName
  /\ init.config = None => init.step = "idle"

TraceNamed(trace) ==
  trace.config # None => /\ trace.client = trace.config.Client
                         /\ trace.service = trace.config.ServiceName

SpanNamed(span, trace) ==
  span.state # "absent" => span.client = trace.client /\ span.service = trace.service

SpanDecided(span, trace) ==
  span.by = "sampler" =>
    /\ ~DividesByZero(span.decidedRate)
    /\ span.kept = Sample(NewDeterministicSampler(span.decidedRate), trace.hash)

SpanRated(span) == span.state = "unrated" => GlobalSampler # None

SpanInv(span, trace) == SpanNamed(span, trace) /\ SpanDecided(span, trace) /\ SpanRated(span)

IInv ==
  /\ Types /\ InitAgrees
  /\ \A t \in 1..Len(traces) : TraceNamed(traces[t])
  /\ \A t \in 1..Len(traces), s \in SpanKind : SpanInv(spans[t][s], traces[t])

LEMMA PairPut ==
  ASSUME NEW S \in Seq(Pair), NEW t \in 1..Len(S), NEW p \in Pair,
         NEW R, R = [S EXCEPT ![t] = p]
  PROVE  /\ R \in Seq(Pair) /\ Len(R) = Len(S)
         /\ R[t] = p /\ \A u \in 1..Len(S) : u # t => R[u] = S[u]
<1>1. S \in [1..Len(S) -> Pair]
  OBVIOUS
<1>2. R \in [1..Len(S) -> Pair]
  BY <1>1
<1>3. R \in Seq(Pair) /\ Len(R) = Len(S)
  BY <1>2
<1> QED
  BY <1>3

LEMMA PairUpdated ==
  ASSUME NEW S \in Seq(Pair), NEW t \in 1..Len(S), NEW s \in SpanKind, NEW x \in Span
  PROVE  LET R == [S EXCEPT ![t][s] = x] IN
         /\ R \in Seq(Pair) /\ Len(R) = Len(S)
         /\ \A u \in 1..Len(S), k \in SpanKind :
              R[u][k] = IF u = t /\ k = s THEN x ELSE S[u][k]
<1> DEFINE p == [S[t] EXCEPT ![s] = x]
           R == [S EXCEPT ![t] = p]
<1>1. S[t] \in Pair
  OBVIOUS
<1>2. p \in Pair /\ p[s] = x /\ \A k \in SpanKind \ {s} : p[k] = S[t][k]
  BY <1>1 DEF Pair
<1>3. [S EXCEPT ![t][s] = x] = R
  OBVIOUS
<1> HIDE DEF p
<1>4. /\ R \in Seq(Pair) /\ Len(R) = Len(S)
      /\ R[t] = p /\ \A u \in 1..Len(S) : u # t => R[u] = S[u]
  BY <1>2, PairPut
<1> HIDE DEF R
<1>5. ASSUME NEW u \in 1..Len(S), NEW k \in SpanKind
      PROVE  R[u][k] = IF u = t /\ k = s THEN x ELSE S[u][k]
  BY <1>2, <1>4
<1>6. /\ R \in Seq(Pair) /\ Len(R) = Len(S)
      /\ \A u \in 1..Len(S), k \in SpanKind :
           R[u][k] = IF u = t /\ k = s THEN x ELSE S[u][k]
  BY <1>4, <1>5
<1> QED
  BY <1>3, <1>6

\* What NewTrace and CreateChild make.
LEMMA OpenedTypes ==
  ASSUME Types, NEW c \in AnyClient, NEW n \in Name, NEW async \in BOOLEAN
  PROVE  /\ AbsentSpan \in Span
         /\ [AbsentSpan EXCEPT !.state = "open", !.client = c, !.service = n] \in Span
         /\ [AbsentSpan EXCEPT !.state = "open", !.isAsync = async, !.client = c,
                               !.service = n] \in Span
  BY DEF AbsentSpan, Span, SpanState, Name

LEMMA DeliveredTypes ==
  ASSUME spans \in Seq(Pair), NEW c
  PROVE  /\ Delivered(c) \in Seq(Pair) /\ Len(Delivered(c)) = Len(spans)
         /\ \A t \in 1..Len(spans), s \in SpanKind :
              Delivered(c)[t][s] =
                IF spans[t][s].event = "queued" /\ spans[t][s].client = c
                THEN [spans[t][s] EXCEPT !.event = "delivered"] ELSE spans[t][s]
<1> DEFINE x(t, s) == IF spans[t][s].event = "queued" /\ spans[t][s].client = c
                      THEN [spans[t][s] EXCEPT !.event = "delivered"] ELSE spans[t][s]
<1>1. \A t \in 1..Len(spans), s \in SpanKind : x(t, s) \in Span
  <2> TAKE t \in 1..Len(spans), s \in SpanKind
  <2>1. spans[t][s] \in Span
    BY DEF Pair
  <2>2. [spans[t][s] EXCEPT !.event = "delivered"] \in Span
    BY <2>1 DEF Span
  <2> QED
    BY <2>1, <2>2
<1>2. Delivered(c) = [t \in 1..Len(spans) |-> [s \in SpanKind |-> x(t, s)]]
  BY DEF Delivered
<1> HIDE DEF x
<1>3. \A t \in 1..Len(spans) : [s \in SpanKind |-> x(t, s)] \in Pair
  BY <1>1 DEF Pair
<1>4. Delivered(c) \in Seq(Pair) /\ Len(Delivered(c)) = Len(spans)
  BY <1>2, <1>3
<1> QED
  BY <1>2, <1>4 DEF x

\* How a goroutine leaves a span it sends, at each step of Send.
LEMMA SendingTypes ==
  ASSUME Types, NEW x \in Span, NEW g \in Goroutine, NEW kept \in BOOLEAN
  PROVE  /\ [x EXCEPT !.state = "locked", !.holder = g] \in Span
         /\ [x EXCEPT !.state = "decided", !.by = "hook", !.kept = kept] \in Span
         /\ [x EXCEPT !.state = "decided"] \in Span
         /\ \A n \in Nat : [x EXCEPT !.state = "decided", !.SampleRate = n] \in Span
         /\ \A n \in Nat : [x EXCEPT !.state = "unrated", !.by = "sampler",
                                     !.decidedRate = n, !.kept = kept] \in Span
         /\ Unlocked([x EXCEPT !.state = "sent", !.event = Dispatched(x)]) \in Span
<1>1. Dispatched(x) \in {"dropped", "discarded", "lost", "queued"}
  BY DEF Dispatched
<1>2. /\ [x EXCEPT !.state = "locked", !.holder = g] \in Span
      /\ [x EXCEPT !.state = "decided", !.by = "hook", !.kept = kept] \in Span
      /\ [x EXCEPT !.state = "decided"] \in Span
  BY DEF Span, SpanState
<1>3. ASSUME NEW n \in Nat
      PROVE  /\ [x EXCEPT !.state = "decided", !.SampleRate = n] \in Span
             /\ [x EXCEPT !.state = "unrated", !.by = "sampler",
                          !.decidedRate = n, !.kept = kept] \in Span
  BY DEF Span, SpanState
<1>4. Unlocked([x EXCEPT !.state = "sent", !.event = Dispatched(x)]) \in Span
  <2> HIDE DEF Dispatched
  <2> QED
    BY <1>1 DEF Span, SpanState, Unlocked
<1> QED
  BY <1>2, <1>3, <1>4

-------------------------------------------------------------------------------
(* Steps.                                                                  *)

LEMMA SamplerMade ==
  ASSUME NEW rate \in Nat, ~DividesByZero(rate)
  PROVE  /\ IsSampler(NewDeterministicSampler(rate))
         /\ NewDeterministicSampler(rate).sampleRate = rate
         /\ NewDeterministicSampler(rate) # None
<1>1. W - 1 \in Nat /\ rate % W \in Nat /\ rate % W > 0
  BY WAssumption DEF DividesByZero
<1>2. (W - 1) \div (rate % W) \in Nat
  BY <1>1, Quotient
<1> QED
  BY <1>2, NoneAssumption DEF NewDeterministicSampler, IsSampler

\* A step that replaces one span by another that satisfies the invariant.
LEMMA SpanStep ==
  ASSUME IInv, NEW t \in 1..Len(traces), NEW s \in SpanKind, NEW x \in Span,
         SpanInv(x, traces[t]), spans' = [spans EXCEPT ![t][s] = x],
         UNCHANGED <<globals, init, todoInits, traces>>, labels' \in [Goroutine -> Label]
  PROVE  IInv'
<1>1. /\ spans' \in Seq(Pair) /\ Len(spans') = Len(spans)
      /\ \A u \in 1..Len(spans), k \in SpanKind :
           spans'[u][k] = IF u = t /\ k = s THEN x ELSE spans[u][k]
  BY PairUpdated DEF IInv, Types
<1>2. Types'
  BY <1>1 DEF IInv, Types, globals
<1>3. ASSUME NEW u \in 1..Len(traces), NEW k \in SpanKind
      PROVE  SpanInv(spans[u][k], traces[u])' 
  <2>1. spans'[u][k] = IF u = t /\ k = s THEN x ELSE spans[u][k]
    BY <1>1 DEF IInv, Types
  <2>2. SpanInv(spans'[u][k], traces[u])
    BY <2>1 DEF IInv
  <2> QED
    BY <2>2 DEF SpanInv, SpanNamed, SpanDecided, SpanRated, globals
<1>4. InitAgrees'
  BY DEF IInv, InitAgrees, InitDone, globals
<1>5. (\A u \in 1..Len(traces) : TraceNamed(traces[u]))'
  BY DEF IInv, TraceNamed
<1> QED
  BY <1>2, <1>3, <1>4, <1>5 DEF IInv

\* A step that changes no more than the labels.
LEMMA StillStep ==
  ASSUME IInv, UNCHANGED <<globals, init, todoInits, traces, spans>>,
         labels' \in [Goroutine -> Label]
  PROVE  IInv'
  BY DEF IInv, Types, InitAgrees, InitDone, TraceNamed, SpanInv, SpanNamed, SpanDecided,
         SpanRated, globals

LEMMA InitIInv == Init => IInv
<1> SUFFICES ASSUME Init PROVE IInv
  OBVIOUS
<1>1. Types
  BY PlanAssumption DEF Init, Types, AnyClient, Name, InitState, InitStep, Label
<1>2. InitAgrees
  BY DEF Init, InitAgrees, InitDone
<1> QED
  BY <1>1, <1>2 DEF Init, IInv

LEMMA InitStepIInv ==
  ASSUME IInv, BeginInit \/ InitClient \/ InitFields \/ InitSampler \/ InitPprof
  PROVE  IInv'
<1> USE DEF IInv, InitAgrees, InitDone
<1>1. CASE BeginInit
  <2>1. init' \in InitState /\ init'.config \in Config /\ todoInits' \in Seq(Config)
    BY <1>1 DEF BeginInit, Types, InitState, InitStep
  <2>2. Types'
    BY <1>1, <2>1 DEF BeginInit, Types, globals
  <2>3. InitAgrees'
    BY <1>1, <2>1, NoneAssumption DEF BeginInit, Types, InitState, globals
  <2>5. ASSUME NEW u \in 1..Len(traces), NEW k \in SpanKind
        PROVE  SpanInv(spans[u][k], traces[u])'
    BY <1>1 DEF BeginInit, SpanInv, SpanNamed, SpanDecided, SpanRated, globals
  <2> QED
    BY <1>1, <2>2, <2>3, <2>5 DEF BeginInit, TraceNamed
<1>2. CASE InitClient
  <2>1. init' = [init EXCEPT !.step = "fields"] /\ init.config \in Config
    BY <1>2 DEF InitClient, InitTo, Types
  <2>2. init' \in InitState /\ init'.config = init.config
        /\ init'.step = "fields"
    BY <2>1 DEF Types, InitState, InitStep
  <2>3. Types'
    BY <1>2, <2>1, <2>2, ConfigAssumption DEF InitClient, InitTo, Types, AnyClient
  <2>4. InitAgrees'
    BY <1>2, <2>1, <2>2 DEF InitClient, InitTo
  <2>5. ASSUME NEW u \in 1..Len(traces), NEW k \in SpanKind
        PROVE  SpanInv(spans[u][k], traces[u])'
    BY <1>2, <2>2 DEF InitClient, InitTo, SpanInv, SpanNamed, SpanDecided, SpanRated
  <2> QED
    BY <1>2, <2>3, <2>4, <2>5 DEF InitClient, InitTo, TraceNamed
<1>3. CASE InitFields
  <2>1. init' = [init EXCEPT !.step = "sampler"] /\ init.config \in Config
    BY <1>3 DEF InitFields, InitTo, Types
  <2>2. init' \in InitState /\ init'.config = init.config
        /\ init'.step = "sampler" /\ init.step = "fields"
    BY <1>3, <2>1 DEF InitFields, InitTo, Types, InitState, InitStep
  <2>3. Types'
    BY <1>3, <2>1, <2>2 DEF InitFields, InitTo, Types, Name
  <2>4. serviceName'[client] = init.config.ServiceName
    BY <1>3 DEF InitFields, Types
  <2>5. InitAgrees'
    BY <1>3, <2>1, <2>2, <2>4 DEF InitFields, InitTo
  <2>6. ASSUME NEW u \in 1..Len(traces), NEW k \in SpanKind
        PROVE  SpanInv(spans[u][k], traces[u])'
    BY <1>3, <2>2 DEF InitFields, InitTo, SpanInv, SpanNamed, SpanDecided, SpanRated
  <2> QED
    BY <1>3, <2>3, <2>5, <2>6 DEF InitFields, InitTo, TraceNamed
<1>4. CASE InitSampler
  <2> DEFINE rate == IF init.config.SampleRate = 0 THEN defaultSampleRate
                     ELSE init.config.SampleRate
  <2>1. PICK to \in {"pprof", "crashed"} : InitTo("sampler", to)
    BY <1>4 DEF InitSampler
  <2>2. init.step = "sampler" /\ init.config \in Config /\ rate \in Nat
    BY <2>1, ConfigAssumption DEF InitTo, Types, defaultSampleRate
  <2>3. init' \in InitState /\ init'.config = init.config
        /\ init'.step = to
    BY <2>1 DEF InitTo, Types, InitState, InitStep
  <2>4. \/ UNCHANGED GlobalSampler
        \/ ~DividesByZero(rate) /\ GlobalSampler' = NewDeterministicSampler(rate)
    BY <1>4 DEF InitSampler
  <2> HIDE DEF rate
  <2>5. \/ UNCHANGED GlobalSampler
        \/ IsSampler(GlobalSampler') /\ GlobalSampler' # None
    BY <2>2, <2>4, SamplerMade
  <2>6. Types'
    BY <1>4, <2>1, <2>2, <2>3, <2>5 DEF InitSampler, InitTo, Types
  <2>7. InitAgrees'
    BY <1>4, <2>1, <2>2, <2>3, NoneAssumption DEF InitSampler, InitTo
  <2>8. ASSUME NEW u \in 1..Len(traces), NEW k \in SpanKind
        PROVE  SpanInv(spans[u][k], traces[u])'
    BY <2>1, <2>5 DEF InitTo, SpanInv, SpanNamed, SpanDecided, SpanRated
  <2> QED
    BY <2>1, <2>6, <2>7, <2>8 DEF InitTo, TraceNamed
<1>5. CASE InitPprof
  <2>1. init' = [init EXCEPT !.step = "idle"] /\ init.config \in Config
    BY <1>5 DEF InitPprof, InitTo, Types
  <2>2. init' \in InitState /\ init'.config = init.config
        /\ init'.step = "idle" /\ init.step = "pprof"
    BY <1>5, <2>1 DEF InitPprof, InitTo, Types, InitState, InitStep
  <2>3. Types'
    BY <1>5, <2>1, <2>2 DEF InitPprof, InitTo, Types
  <2>4. InitAgrees'
    BY <1>5, <2>1, <2>2, NoneAssumption DEF InitPprof, InitTo
  <2>5. ASSUME NEW u \in 1..Len(traces), NEW k \in SpanKind
        PROVE  SpanInv(spans[u][k], traces[u])'
    BY <1>5, <2>2 DEF InitPprof, InitTo, SpanInv, SpanNamed, SpanDecided, SpanRated
  <2> QED
    BY <1>5, <2>3, <2>4, <2>5 DEF InitPprof, InitTo, TraceNamed
<1> QED
  BY <1>1, <1>2, <1>3, <1>4, <1>5

LEMMA StartTraceIInv ==
  ASSUME IInv, NEW g \in Goroutine, NEW v \in Hash, NEW ctx \in {labels[g], None},
         StartTrace(g, v, ctx)
  PROVE  IInv'
<1> DEFINE trace == NewTrace(v, ctx)
           root == [AbsentSpan EXCEPT !.state = "open", !.client = trace.client,
                                      !.service = trace.service]
           pair == [k \in SpanKind |-> IF k = "root" THEN root ELSE AbsentSpan]
           n == Len(traces) + 1
<1>1. /\ trace \in Trace /\ TraceNamed(trace)
      /\ trace.client \in AnyClient /\ trace.service \in Name
  <2>1. v \in Word /\ ctx \in Label
    BY HashAssumption DEF IInv, Types, Label
  <2>2. Settled \in Config \cup {None}
    BY DEF IInv, Types, Settled, InitState
  <2>3. (IF PprofTagging THEN <<ctx>> ELSE <<>>) \in Seq(Label)
    BY <2>1
  <2>4. trace \in Trace
    BY <2>1, <2>2, <2>3 DEF IInv, Types, NewTrace, Trace
  <2>5. TraceNamed(trace)
    BY DEF IInv, InitAgrees, InitDone, NewTrace, TraceNamed, Settled
  <2> QED
    BY <2>4, <2>5 DEF Trace
<1>2. /\ spans' = Append(spans, pair) /\ traces' = Append(traces, trace)
      /\ UNCHANGED <<globals, init, todoInits>> /\ labels' \in [Goroutine -> Label]
  BY DEF StartTrace, IInv, Types, Label
<1>3. AbsentSpan \in Span /\ root \in Span
  BY <1>1, OpenedTypes DEF IInv
<1>4. pair \in Pair /\ pair["root"] = root /\ pair["child"] = AbsentSpan
  BY <1>3 DEF Pair, SpanKind
<1>5. SpanInv(root, trace) /\ SpanInv(AbsentSpan, trace)
  BY DEF SpanInv, SpanNamed, SpanDecided, SpanRated, AbsentSpan
<1> HIDE DEF trace, root, pair
<1>6. traces' \in Seq(Trace) /\ spans' \in Seq(Pair) /\ Len(traces') = n /\ Len(spans') = n
  BY <1>1, <1>2, <1>4 DEF IInv, Types
<1>7. Types'
  BY <1>2, <1>6 DEF IInv, Types, globals
<1>8. InitAgrees'
  BY <1>2 DEF IInv, InitAgrees, InitDone, globals
<1>9. ASSUME NEW u \in 1..Len(traces')
      PROVE  /\ TraceNamed(traces'[u])
             /\ \A k \in SpanKind : SpanInv(spans'[u][k], traces'[u])
  <2>1. CASE u = n
    <3>1. traces'[u] = trace /\ spans'[u] = pair
      BY <1>2, <2>1 DEF IInv, Types
    <3> QED
      BY <1>1, <1>4, <1>5, <3>1 DEF SpanKind
  <2>2. CASE u # n
    <3>1. u \in 1..Len(traces) /\ traces'[u] = traces[u] /\ spans'[u] = spans[u]
      BY <1>2, <1>6, <2>2 DEF IInv, Types
    <3> QED
      BY <3>1 DEF IInv
  <2> QED
    BY <2>1, <2>2
<1>10. (\A u \in 1..Len(traces) : TraceNamed(traces[u]))'
  BY <1>9 DEF TraceNamed
<1>11. ASSUME NEW u \in 1..Len(traces'), NEW k \in SpanKind
       PROVE  SpanInv(spans[u][k], traces[u])'
  <2>1. SpanInv(spans'[u][k], traces'[u])
    BY <1>9
  <2> QED
    BY <1>2, <2>1 DEF SpanInv, SpanNamed, SpanDecided, SpanRated, globals
<1> QED
  BY <1>7, <1>8, <1>10, <1>11 DEF IInv

LEMMA CopyContextIInv ==
  ASSUME IInv, NEW g \in Goroutine, NEW t \in 1..Len(traces),
         NEW ctx \in {labels[g], None}, CopyContext(g, t, ctx)
  PROVE  IInv'
<1> DEFINE x == [traces[t] EXCEPT !.oldCtx = <<ctx>>]
<1>1. /\ traces' = [traces EXCEPT ![t] = x] /\ labels' \in [Goroutine -> Label]
      /\ UNCHANGED <<globals, init, todoInits, spans>>
  BY DEF CopyContext, IInv, Types, Label
<1>2. /\ x \in Trace /\ x.hash = traces[t].hash /\ x.client = traces[t].client
      /\ x.service = traces[t].service /\ x.config = traces[t].config
  <2>1. <<ctx>> \in Seq(Label)
    BY DEF IInv, Types, Label
  <2>2. traces[t] \in Trace
    BY DEF IInv, Types
  <2> QED
    BY <2>1, <2>2 DEF Trace
<1> HIDE DEF x
<1>3. traces \in [1..Len(traces) -> Trace]
  BY DEF IInv, Types
<1>4. traces' \in [1..Len(traces) -> Trace]
  BY <1>1, <1>2, <1>3
<1>5. traces' \in Seq(Trace) /\ Len(traces') = Len(traces)
  BY <1>4 DEF IInv, Types
<1>6. Types'
  BY <1>1, <1>5 DEF IInv, Types, globals
<1>7. InitAgrees'
  BY <1>1 DEF IInv, InitAgrees, InitDone, globals
<1>8. ASSUME NEW u \in 1..Len(traces)
      PROVE  /\ TraceNamed(traces'[u])
             /\ \A k \in SpanKind : SpanInv(spans[u][k], traces'[u])
  <2>1. traces'[u] = IF u = t THEN x ELSE traces[u]
    BY <1>1, <1>3
  <2>2. TraceNamed(traces[u]) /\ \A k \in SpanKind : SpanInv(spans[u][k], traces[u])
    BY DEF IInv
  <2> QED
    BY <1>2, <2>1, <2>2 DEF TraceNamed, SpanInv, SpanNamed, SpanDecided
<1> QED
  BY <1>1, <1>5, <1>6, <1>7, <1>8
  DEF IInv, TraceNamed, SpanInv, SpanNamed, SpanDecided, SpanRated, globals

\* The events of a client delivered.
LEMMA DeliverIInv ==
  ASSUME IInv, NEW c, spans' = Delivered(c),
         UNCHANGED <<globals, init, todoInits, traces, labels>>
  PROVE  IInv'
<1>1. /\ spans' \in Seq(Pair) /\ Len(spans') = Len(spans)
      /\ \A t \in 1..Len(spans), s \in SpanKind :
           spans'[t][s] = IF spans[t][s].event = "queued" /\ spans[t][s].client = c
                          THEN [spans[t][s] EXCEPT !.event = "delivered"] ELSE spans[t][s]
  BY DeliveredTypes DEF IInv, Types
<1>2. Types'
  BY <1>1 DEF IInv, Types, globals
<1>3. InitAgrees'
  BY DEF IInv, InitAgrees, InitDone, globals
<1>4. ASSUME NEW u \in 1..Len(traces), NEW k \in SpanKind
      PROVE  SpanInv(spans'[u][k], traces[u])
  <2>1. SpanInv(spans[u][k], traces[u]) /\ spans[u][k] \in Span
    BY DEF IInv, Types, Pair
  <2>2. SpanInv([spans[u][k] EXCEPT !.event = "delivered"], traces[u])
    BY <2>1 DEF Span, SpanInv, SpanNamed, SpanDecided, SpanRated
  <2> QED
    BY <1>1, <2>1, <2>2 DEF IInv, Types
<1> QED
  BY <1>1, <1>2, <1>3, <1>4
  DEF IInv, TraceNamed, SpanInv, SpanNamed, SpanDecided, SpanRated, globals

LEMMA SpanActionIInv ==
  ASSUME IInv, NEW g \in Goroutine, NEW t \in 1..Len(traces), NEW s \in SpanKind,
         \/ \E isAsync \in BOOLEAN : s = "child" /\ StartChild(g, t, isAsync)
         \/ Lock(g, t, s)
         \/ \E kept \in BOOLEAN : DecideByHook(g, t, s, kept)
         \/ Decide(g, t, s) \/ SetRate(g, t, s) \/ Dispatch(g, t, s)
  PROVE  IInv'
<1> DEFINE y == spans[t][s]
<1>1. y \in Span /\ SpanInv(y, traces[t]) /\ traces[t] \in Trace
  BY DEF IInv, Types, Pair
<1>2. Types /\ labels \in [Goroutine -> Label]
  BY DEF IInv, Types
<1> HIDE DEF y
<1> USE DEF SpanInv, SpanNamed, SpanDecided, SpanRated
<1>3. ASSUME NEW isAsync \in BOOLEAN, s = "child", StartChild(g, t, isAsync)
      PROVE  IInv'
  <2> DEFINE x == NewEvent(t, isAsync)
  <2>1. spans' = [spans EXCEPT ![t][s] = x]
        /\ UNCHANGED <<globals, init, todoInits, traces, labels>>
    BY <1>3 DEF StartChild
  <2>2. x \in Span
    BY <1>1, <1>2, OpenedTypes DEF NewEvent, Trace
  <2>3. SpanInv(x, traces[t])
    BY DEF NewEvent, AbsentSpan
  <2> HIDE DEF x
  <2> QED
    BY <1>2, <2>1, <2>2, <2>3, SpanStep
<1>4. CASE Lock(g, t, s)
  <2> DEFINE x == [y EXCEPT !.state = "locked", !.holder = g]
  <2>1. spans' = [spans EXCEPT ![t][s] = x] /\ y.state = "open"
        /\ UNCHANGED <<globals, init, todoInits, traces, labels>>
    BY <1>4 DEF Lock, Sending, y
  <2>2. x \in Span
    BY <1>1, <1>2, SendingTypes
  <2>3. SpanInv(x, traces[t])
    BY <1>1, <2>1 DEF Span
  <2> HIDE DEF x
  <2> QED
    BY <1>2, <2>1, <2>2, <2>3, SpanStep
<1>5. ASSUME NEW kept \in BOOLEAN, DecideByHook(g, t, s, kept)
      PROVE  IInv'
  <2> DEFINE x == [y EXCEPT !.state = "decided", !.by = "hook", !.kept = kept]
  <2>1. spans' = [spans EXCEPT ![t][s] = x] /\ y.state = "locked"
        /\ UNCHANGED <<globals, init, todoInits, traces, labels>>
    BY <1>5 DEF DecideByHook, Sending, y
  <2>2. x \in Span
    BY <1>1, <1>2, SendingTypes
  <2>3. SpanInv(x, traces[t])
    BY <1>1, <2>1 DEF Span
  <2> HIDE DEF x
  <2> QED
    BY <1>2, <2>1, <2>2, <2>3, SpanStep
<1>6. CASE Decide(g, t, s)
  <2>0. y.state = "locked" /\ UNCHANGED <<globals, init, todoInits, traces, labels>>
    BY <1>6 DEF Decide, Sending, y
  <2>1. CASE GlobalSampler = None
    <3> DEFINE x == [y EXCEPT !.state = "decided"]
    <3>1. spans' = [spans EXCEPT ![t][s] = x]
      BY <1>6, <2>1 DEF Decide, y
    <3>2. x \in Span
      BY <1>1, <1>2, SendingTypes
    <3>3. SpanInv(x, traces[t])
      BY <1>1, <2>0 DEF Span
    <3> HIDE DEF x
    <3> QED
      BY <1>2, <2>0, <3>1, <3>2, <3>3, SpanStep
  <2>2. CASE GlobalSampler # None
    <3> DEFINE keeps == Sample(GlobalSampler, traces[t].hash)
               x == [y EXCEPT !.state = "unrated", !.by = "sampler",
                              !.decidedRate = GlobalSampler.sampleRate, !.kept = keeps]
    <3>1. spans' = [spans EXCEPT ![t][s] = x]
      BY <1>6, <2>2 DEF Decide, Determinant, y
    <3>2. IsSampler(GlobalSampler) /\ keeps \in BOOLEAN
      BY <1>2, <2>2 DEF Types, Sample
    <3>3. x \in Span
      BY <1>1, <1>2, <3>2, SendingTypes DEF IsSampler
    <3>4. /\ x.state = "unrated" /\ x.client = y.client /\ x.service = y.service
          /\ x.decidedRate = GlobalSampler.sampleRate /\ x.kept = keeps
      BY <1>1 DEF Span
    <3>5. SpanInv(x, traces[t])
      BY <1>1, <2>0, <2>2, <3>2, <3>4 DEF IsSampler
    <3> HIDE DEF x
    <3> QED
      BY <1>2, <2>0, <3>1, <3>3, <3>5, SpanStep
  <2> QED
    BY <2>1, <2>2
<1>7. CASE SetRate(g, t, s)
  <2> DEFINE x == [y EXCEPT !.state = "decided", !.SampleRate = GlobalSampler.sampleRate]
  <2>1. spans' = [spans EXCEPT ![t][s] = x] /\ y.state = "unrated"
        /\ UNCHANGED <<globals, init, todoInits, traces, labels>>
    BY <1>7 DEF SetRate, Sending, y
  <2>2. GlobalSampler.sampleRate \in Nat
    BY <1>1, <1>2, <2>1 DEF Types, IsSampler
  <2>3. x \in Span
    BY <1>1, <1>2, <2>2, SendingTypes
  <2>4. SpanInv(x, traces[t])
    BY <1>1, <2>1 DEF Span
  <2> HIDE DEF x
  <2> QED
    BY <1>2, <2>1, <2>3, <2>4, SpanStep
<1>8. CASE Dispatch(g, t, s)
  <2> DEFINE x == Unlocked([y EXCEPT !.state = "sent", !.event = Dispatched(y)])
  <2>1. spans' = [spans EXCEPT ![t][s] = x] /\ y.state = "decided"
        /\ UNCHANGED <<globals, init, todoInits, traces>>
    BY <1>8 DEF Dispatch, Sending, y
  <2>2. x \in Span
    BY <1>1, <1>2, SendingTypes
  <2>3. SpanInv(x, traces[t])
    BY <1>1, <2>1 DEF Span, Unlocked
  <2>4. labels' \in [Goroutine -> Label]
    BY <1>1, <1>2, <1>8 DEF Dispatch, Trace
  <2> HIDE DEF x
  <2> QED
    BY <2>1, <2>2, <2>3, <2>4, SpanStep
<1> QED
  BY <1>3, <1>4, <1>5, <1>6, <1>7, <1>8

LEMMA NextIInv == IInv /\ [Next]_vars => IInv'
<1> SUFFICES ASSUME IInv, [Next]_vars PROVE IInv'
  OBVIOUS
<1>1. DOMAIN traces = 1..Len(traces) /\ labels \in [Goroutine -> Label]
  BY DEF IInv, Types
<1>2. CASE BeginInit \/ InitClient \/ InitFields \/ InitSampler \/ InitPprof
  BY <1>2, InitStepIInv
<1>3. ASSUME NEW g \in Goroutine, NEW v \in Hash, NEW ctx \in {labels[g], None},
             StartTrace(g, v, ctx)
      PROVE  IInv'
  BY <1>3, StartTraceIInv
<1>4. ASSUME NEW g \in Goroutine, NEW t \in 1..Len(traces),
             \/ \E ctx \in {labels[g], None} : CopyContext(g, t, ctx)
             \/ FlushStart(g, t)
             \/ \E isAsync \in BOOLEAN : StartChild(g, t, isAsync)
      PROVE  IInv'
  <2>1. CASE \E ctx \in {labels[g], None} : CopyContext(g, t, ctx)
    BY <2>1, CopyContextIInv
  <2>2. CASE FlushStart(g, t)
    BY <1>1, <2>2, StillStep DEF FlushStart
  <2>3. CASE \E isAsync \in BOOLEAN : StartChild(g, t, isAsync)
    BY <2>3, SpanActionIInv DEF SpanKind
  <2> QED
    BY <1>4, <2>1, <2>2, <2>3
<1>5. ASSUME NEW g \in Goroutine, NEW t \in 1..Len(traces), NEW s \in SpanKind,
             \/ Send(g, t, s) \/ Lock(g, t, s) \/ Skip(g, t, s)
             \/ \E kept \in BOOLEAN : DecideByHook(g, t, s, kept)
             \/ Decide(g, t, s) \/ SetRate(g, t, s) \/ Dispatch(g, t, s)
      PROVE  IInv'
  <2>1. CASE Send(g, t, s)
    BY <1>1, <2>1, StillStep DEF Send
  <2>2. CASE Skip(g, t, s)
    BY <1>1, <2>2, StillStep DEF Skip
  <2>3. CASE \/ Lock(g, t, s)
             \/ \E kept \in BOOLEAN : DecideByHook(g, t, s, kept)
             \/ Decide(g, t, s) \/ SetRate(g, t, s) \/ Dispatch(g, t, s)
    BY <2>3, SpanActionIInv
  <2> QED
    BY <1>5, <2>1, <2>2, <2>3
<1>6. ASSUME NEW g \in Goroutine, FlushEnd(g)
      PROVE  IInv'
  BY <1>6, DeliverIInv DEF FlushEnd
<1>7. CASE Close
  BY <1>7, DeliverIInv DEF Close
<1>8. CASE UNCHANGED vars
  BY <1>1, <1>8, StillStep DEF vars
<1> QED
  BY <1>1, <1>2, <1>3, <1>4, <1>5, <1>6, <1>7, <1>8 DEF Next

-------------------------------------------------------------------------------
(* Theorems.                                                               *)

LEMMA Invariant == Spec => []IInv
  BY InitIInv, NextIInv, PTL DEF Spec

\* However many Inits come, and at whatever step of one a trace is begun or sent,
\* the spans of a trace begun between two of them go to the client of the first
\* and carry its service name (Init, NewBuilder).
THEOREM Named == Spec => []EventsNamed
<1>1. IInv => EventsNamed
  BY DEF IInv, Types, TraceNamed, SpanInv, SpanNamed, EventsNamed
<1> QED
  BY <1>1, Invariant, PTL

\* What the sampler keeps of a trace at one rate it keeps at each smaller one,
\* whichever spans, services and Inits the decisions are of, at every width of a
\* word; not that they are taken at one rate, which WholeTraces asks for.
THEOREM Related == Spec => []RelatedDecisions
<1>1. ASSUME IInv, NEW p \in DecidedBySampler
      PROVE  /\ p[1] \in 1..Len(traces) /\ p[2] \in SpanKind
             /\ spans[p[1]][p[2]] \in Span /\ traces[p[1]] \in Trace
             /\ spans[p[1]][p[2]].by = "sampler"
             /\ SpanInv(spans[p[1]][p[2]], traces[p[1]])
  BY <1>1 DEF IInv, Types, Pair, DecidedBySampler
<1>2. ASSUME IInv, NEW p \in DecidedBySampler, NEW q \in DecidedBySampler,
             traces[p[1]].hash = traces[q[1]].hash,
             spans[p[1]][p[2]].decidedRate <= spans[q[1]][q[2]].decidedRate,
             spans[q[1]][q[2]].decidedRate < W, spans[q[1]][q[2]].kept
      PROVE  spans[p[1]][p[2]].kept
  <2> DEFINE r == spans[p[1]][p[2]].decidedRate
             s == spans[q[1]][q[2]].decidedRate
             v == traces[p[1]].hash
  <2>1. r \in Nat /\ s \in Nat /\ v \in Word
    BY <1>1, <1>2 DEF Span, Trace
  <2>2. /\ ~DividesByZero(r) /\ spans[p[1]][p[2]].kept = Sample(NewDeterministicSampler(r), v)
        /\ spans[q[1]][q[2]].kept = Sample(NewDeterministicSampler(s), v)
    BY <1>1, <1>2 DEF SpanInv, SpanDecided
  <2>3. r <= s /\ s < W
    BY <1>2
  <2> HIDE DEF r, s, v
  <2>4. r > 0
    BY <2>1, <2>2, WAssumption DEF DividesByZero
  <2>5. Sample(NewDeterministicSampler(r), v)
    BY <1>2, <2>1, <2>2, <2>3, <2>4, NestedRates
  <2> QED
    BY <2>2, <2>5
<1>3. IInv => RelatedDecisions
  BY <1>2 DEF RelatedDecisions
<1> QED
  BY <1>3, Invariant, PTL

-------------------------------------------------------------------------------
(* What a goroutine has yet to send: nothing, a span, or a root that waits *)
(* for its child.                                                          *)

One(t, s) == <<<<t, s>>>>
Two(t) == <<<<t, "child">>, <<t, "root">>>>

Queue(n) == {<<>>} \cup {One(t, s) : t \in 1..n, s \in SpanKind} \cup {Two(t) : t \in 1..n}

LEMMA PairOfOnes ==
  ASSUME NEW a, NEW b
  PROVE  <<a>> \o <<b>> = <<a, b>>
<1> DEFINE A == {a, b}
           c == <<a>> \o <<b>>
<1>1. <<a>> \in Seq(A) /\ <<b>> \in Seq(A) /\ <<a, b>> \in Seq(A)
  OBVIOUS
<1>2. c \in Seq(A) /\ Len(c) = 2 /\ c[1] = a /\ c[2] = b
  BY <1>1
<1> HIDE DEF c
<1>3. Len(<<a, b>>) = 2 /\ <<a, b>>[1] = a /\ <<a, b>>[2] = b
  OBVIOUS
<1>4. \A i \in 1..2 : c[i] = <<a, b>>[i]
  BY <1>2, <1>3
<1>5. c = <<a, b>>
  BY <1>1, <1>2, <1>3, <1>4
<1> QED
  BY <1>5 DEF c

LEMMA Queues ==
  /\ \A t, s : /\ One(t, s) # <<>> /\ Head(One(t, s)) = <<t, s>> /\ Tail(One(t, s)) = <<>>
               /\ <<t, s>> \in Range(One(t, s))
  /\ \A t : /\ Two(t) # <<>> /\ Head(Two(t)) = <<t, "child">> /\ Tail(Two(t)) = One(t, "root")
            /\ \A s \in SpanKind : <<t, s>> \in Range(Two(t))
            /\ <<<<t, "child">>>> \o One(t, "root") = Two(t)
  /\ \A t, u, s, k : One(t, s) = One(u, k) => t = u /\ s = k
  /\ \A t, u : Two(t) = Two(u) => t = u
  /\ \A t, u, s : One(t, s) # Two(u)
<1>1. ASSUME NEW t, NEW s
      PROVE  /\ One(t, s) # <<>> /\ Head(One(t, s)) = <<t, s>> /\ Tail(One(t, s)) = <<>>
             /\ <<t, s>> \in Range(One(t, s))
  <2>1. One(t, s)[1] = <<t, s>> /\ 1 \in DOMAIN One(t, s)
    BY DEF One
  <2>2. <<t, s>> \in Range(One(t, s))
    BY <2>1 DEF Range
  <2> QED
    BY <2>2 DEF One
<1>2. ASSUME NEW t
      PROVE  /\ Two(t) # <<>> /\ Head(Two(t)) = <<t, "child">>
             /\ Tail(Two(t)) = One(t, "root")
             /\ \A s \in SpanKind : <<t, s>> \in Range(Two(t))
             /\ <<<<t, "child">>>> \o One(t, "root") = Two(t)
  <2>1. /\ Two(t)[1] = <<t, "child">> /\ Two(t)[2] = <<t, "root">>
        /\ 1 \in DOMAIN Two(t) /\ 2 \in DOMAIN Two(t)
    BY DEF Two
  <2>2. \A s \in SpanKind : <<t, s>> \in Range(Two(t))
    BY <2>1 DEF Range, SpanKind
  <2>3. Two(t) # <<>> /\ Head(Two(t)) = <<t, "child">> /\ Tail(Two(t)) = One(t, "root")
    BY DEF One, Two
  <2>4. <<<<t, "child">>>> \o One(t, "root") = Two(t)
    BY PairOfOnes DEF One, Two
  <2> QED
    BY <2>2, <2>3, <2>4
<1>3. ASSUME NEW t, NEW u, NEW s, NEW k, One(t, s) = One(u, k)
      PROVE  t = u /\ s = k
  BY <1>3 DEF One
<1>4. ASSUME NEW t, NEW u, Two(t) = Two(u) PROVE t = u
  BY <1>4 DEF Two
<1>5. ASSUME NEW t, NEW u, NEW s, One(t, s) = Two(u) PROVE FALSE
  <2>1. Tail(One(t, s)) = Tail(Two(u))
    BY <1>5
  <2>2. Tail(One(t, s)) = <<>> /\ Tail(Two(u)) = One(u, "root") /\ One(u, "root") # <<>>
    BY <1>1, <1>2
  <2> QED
    BY <2>1, <2>2
<1> QED
  BY <1>1, <1>2, <1>3, <1>4, <1>5

LEMMA InQueue ==
  ASSUME NEW n, NEW t, NEW s
  PROVE  /\ One(t, s) \in Queue(n) => t \in 1..n /\ s \in SpanKind
         /\ Two(t) \in Queue(n) => t \in 1..n
<1>1. ASSUME One(t, s) \in Queue(n) PROVE t \in 1..n /\ s \in SpanKind
  <2>1. One(t, s) # <<>> /\ \A u : One(t, s) # Two(u)
    BY Queues
  <2>2. PICK u \in 1..n, k \in SpanKind : One(t, s) = One(u, k)
    BY <1>1, <2>1 DEF Queue
  <2>3. t = u /\ s = k
    BY <2>2, Queues
  <2> QED
    BY <2>3
<1>2. ASSUME Two(t) \in Queue(n) PROVE t \in 1..n
  <2>1. Two(t) # <<>> /\ \A u, k : One(u, k) # Two(t)
    BY Queues
  <2>2. PICK u \in 1..n : Two(t) = Two(u)
    BY <1>2, <2>1 DEF Queue
  <2>3. t = u
    BY <2>2, Queues
  <2> QED
    BY <2>3
<1> QED
  BY <1>1, <1>2

-------------------------------------------------------------------------------
(* The invariant.                                                          *)

Busy == {"locked", "unrated", "decided"}

Root(t) == spans[t]["root"]

\* The root of t has its child behind it.
ChildDone(t) == spans[t]["child"].state \in {"absent", "sent"} \/ LeftAlone(t, "child")

\* Who sends a span has it in its queue.
SpanHeld(t, s) ==
  LET span == spans[t][s] IN
  /\ span.holder # None <=> span.state \in Busy
  /\ span.holder # None =>
       todo[span.holder] = One(t, s) \/ todo[span.holder] = Two(t)
  /\ span.event # "none" <=> span.state = "sent"

\* A goroutine with a child to send before the root holds the root; one without
\* has sent it before; and one that flushes has the root in its queue until then.
QueueInv(g, t) ==
  /\ todo[g] = Two(t) => Root(t).holder = g /\ Root(t).state = "locked"
  /\ todo[g] = One(t, "root") /\ Root(t).holder = g => ChildDone(t)
  /\ flush[g] = t => \/ todo[g] = One(t, "root") \/ todo[g] = Two(t)
                     \/ todo[g] = <<>> /\ Root(t).state = "sent"

FlushedInv ==
  flushed # None =>
    /\ flushed.trace \in 1..Len(traces) /\ Root(flushed.trace).state = "sent"
    /\ \A s \in SpanKind :
         LET span == spans[flushed.trace][s] IN
         ~LeftAlone(flushed.trace, s) /\ span.client = flushed.client =>
           span.event # "queued"

QueueTypes ==
  /\ calls \in 0..MaxCalls /\ closed \subseteq AnyClient
  /\ todo \in [Goroutine -> Queue(Len(traces))]
  /\ flush \in [Goroutine -> 0..Len(traces)]

FInv ==
  /\ IInv /\ QueueTypes
  /\ \A t \in 1..Len(traces), s \in SpanKind : SpanHeld(t, s)
  /\ \A t \in 1..Len(traces) : Root(t).state = "sent" => ChildDone(t)
  /\ \A g \in Goroutine, t \in 1..Len(traces) : QueueInv(g, t)
  /\ FlushedInv

LEMMA FInvTypes ==
  ASSUME FInv
  PROVE  /\ Len(traces) \in Nat /\ Len(spans) = Len(traces) /\ spans \in Seq(Pair)
         /\ \A t \in 1..Len(traces), s \in SpanKind :
              spans[t][s] \in Span /\ spans[t][s].holder \in Goroutine \cup {None}
         /\ None \notin Goroutine
  BY NoneAssumption DEF FInv, IInv, Types, Pair, Span

-------------------------------------------------------------------------------
(* Steps.                                                                  *)

LEMMA InitFInv == Init => FInv
<1> SUFFICES ASSUME Init PROVE FInv
  OBVIOUS
<1>1. Len(traces) = 0
  BY DEF Init
<1>2. QueueTypes
  BY <1>1, CallsAssumption DEF Init, QueueTypes, Queue, AnyClient
<1> QED
  BY <1>1, <1>2, InitIInv DEF Init, FInv, FlushedInv

\* A step that sends nothing and waits for nothing.
LEMMA StillFlush ==
  ASSUME FInv, IInv', UNCHANGED <<closed, spans, todo, flush, flushed, late>>,
         Len(traces') = Len(traces), calls' \in 0..MaxCalls
  PROVE  FInv'
<1>1. QueueTypes'
  BY DEF FInv, QueueTypes
<1>2. ASSUME NEW t \in 1..Len(traces), NEW s \in SpanKind PROVE SpanHeld(t, s)'
  BY DEF FInv, SpanHeld
<1>3. ASSUME NEW t \in 1..Len(traces) PROVE (Root(t).state = "sent" => ChildDone(t))'
  BY DEF FInv, Root, ChildDone, LeftAlone
<1>4. ASSUME NEW g \in Goroutine, NEW t \in 1..Len(traces) PROVE QueueInv(g, t)'
  BY DEF FInv, QueueInv, Root, ChildDone, LeftAlone
<1>5. FlushedInv'
  BY DEF FInv, FlushedInv, Root, LeftAlone
<1> QED
  BY <1>1, <1>2, <1>3, <1>4, <1>5 DEF FInv

LEMMA Appended ==
  ASSUME NEW S, NEW q \in Seq(S), NEW e
  PROVE  /\ Len(Append(q, e)) = Len(q) + 1 /\ Append(q, e)[Len(q) + 1] = e
         /\ \A u \in 1..Len(q) : Append(q, e)[u] = q[u]
<1>1. q \in Seq(S \cup {e}) /\ e \in S \cup {e}
  OBVIOUS
<1> QED
  BY <1>1

LEMMA StartTraceFInv ==
  ASSUME FInv, IInv', NEW g \in Goroutine, NEW v, NEW ctx, StartTrace(g, v, ctx)
  PROVE  FInv'
<1> DEFINE trace == NewTrace(v, ctx)
           root == [AbsentSpan EXCEPT !.state = "open", !.client = trace.client,
                                      !.service = trace.service]
           pair == [k \in SpanKind |-> IF k = "root" THEN root ELSE AbsentSpan]
           n == Len(traces) + 1
<1>1. /\ spans' = Append(spans, pair) /\ traces' = Append(traces, trace)
      /\ calls < MaxCalls /\ calls' = calls + 1
      /\ UNCHANGED <<closed, todo, flush, flushed, late>>
  BY DEF StartTrace, Call, flushes
<1>2. /\ root.state = "open" /\ root.event = "none" /\ root.holder = None
      /\ AbsentSpan.state = "absent" /\ AbsentSpan.event = "none" /\ AbsentSpan.holder = None
  BY DEF AbsentSpan
<1>3. pair["root"] = root /\ pair["child"] = AbsentSpan
  BY DEF SpanKind
<1> HIDE DEF trace, root, pair
<1>4. /\ Len(traces') = n /\ spans'[n] = pair
      /\ \A u \in 1..Len(traces) : u \in 1..n /\ spans'[u] = spans[u]
      /\ \A u \in 1..n : u # n => u \in 1..Len(traces)
  <2>1. traces \in Seq(Trace) /\ spans \in Seq(Pair) /\ Len(spans) = Len(traces)
    BY DEF FInv, IInv, Types
  <2>2. Len(traces') = n
    BY <1>1, <2>1, Appended
  <2>3. spans'[n] = pair /\ \A u \in 1..Len(traces) : spans'[u] = spans[u]
    BY <1>1, <2>1, Appended
  <2>4. Len(traces) \in Nat
    BY <2>1
  <2> QED
    BY <2>2, <2>3, <2>4
<1>5. QueueTypes'
  <2>1. Queue(Len(traces)) \subseteq Queue(n)
    BY <1>4 DEF Queue
  <2>2. todo \in [Goroutine -> Queue(n)]
    BY <2>1 DEF FInv, QueueTypes
  <2>3. flush \in [Goroutine -> 0..n]
    BY FInvTypes DEF FInv, QueueTypes
  <2> QED
    BY <1>1, <1>4, <2>2, <2>3, CallsAssumption DEF FInv, QueueTypes
<1>6. \A h \in Goroutine, s \in SpanKind : todo[h] # One(n, s) /\ todo[h] # Two(n) /\ flush[h] # n
  <2>1. \A h \in Goroutine : todo[h] \in Queue(Len(traces)) /\ flush[h] \in 0..Len(traces)
    BY DEF FInv, QueueTypes
  <2>2. n \notin 0..Len(traces) /\ n \notin 1..Len(traces)
    BY FInvTypes
  <2>3. ASSUME NEW s \in SpanKind PROVE One(n, s) \notin Queue(Len(traces))
    BY <2>2, InQueue
  <2>4. Two(n) \notin Queue(Len(traces))
    BY <2>2, InQueue
  <2> QED
    BY <2>1, <2>2, <2>3, <2>4
<1>7. ASSUME NEW u \in 1..n, NEW s \in SpanKind PROVE SpanHeld(u, s)'
  <2>1. CASE u = n
    BY <1>2, <1>3, <1>4, <2>1 DEF SpanHeld, Busy, SpanKind
  <2>2. CASE u # n
    <3>1. spans'[u] = spans[u] /\ SpanHeld(u, s)
      BY <1>4, <2>2 DEF FInv
    <3> QED
      BY <1>1, <3>1 DEF SpanHeld
  <2> QED
    BY <2>1, <2>2
<1>8. ASSUME NEW u \in 1..n PROVE (Root(u).state = "sent" => ChildDone(u))'
  <2>1. CASE u = n
    BY <1>2, <1>3, <1>4, <2>1 DEF Root
  <2>2. CASE u # n
    BY <1>1, <1>4, <2>2 DEF FInv, Root, ChildDone, LeftAlone
  <2> QED
    BY <2>1, <2>2
<1>9. ASSUME NEW h \in Goroutine, NEW u \in 1..n PROVE QueueInv(h, u)'
  <2>1. CASE u = n
    BY <1>1, <1>6, <2>1 DEF QueueInv, SpanKind
  <2>2. CASE u # n
    <3>1. spans'[u] = spans[u] /\ QueueInv(h, u)
      BY <1>4, <2>2 DEF FInv
    <3> QED
      BY <1>1, <3>1 DEF QueueInv, Root, ChildDone, LeftAlone
  <2> QED
    BY <2>1, <2>2
<1>10. FlushedInv'
  BY <1>1, <1>4 DEF FInv, FlushedInv, Root, LeftAlone
<1> QED
  BY <1>4, <1>5, <1>7, <1>8, <1>9, <1>10 DEF FInv

LEMMA StartChildFInv ==
  ASSUME FInv, IInv', NEW g \in Goroutine, NEW t \in 1..Len(traces), NEW isAsync \in BOOLEAN,
         StartChild(g, t, isAsync)
  PROVE  FInv'
<1> DEFINE x == NewEvent(t, isAsync)
<1>1. /\ spans' = [spans EXCEPT ![t]["child"] = x]
      /\ spans[t]["child"].state = "absent"
      /\ late' = IF Root(t).state = "open" THEN late ELSE late \cup {t}
      /\ calls < MaxCalls /\ calls' = calls + 1
      /\ UNCHANGED <<closed, traces, todo, flush, flushed>>
  BY DEF StartChild, Call, Root
<1>2. x.state = "open" /\ x.event = "none" /\ x.holder = None /\ x \in Span
  <2>1. traces[t].client \in AnyClient /\ traces[t].service \in Name
    <3>1. traces[t] \in Trace
      BY DEF FInv, IInv, Types
    <3> QED
      BY <3>1 DEF Trace
  <2>2. x \in Span
    BY <2>1, OpenedTypes DEF FInv, IInv, NewEvent
  <2> QED
    BY <2>2 DEF NewEvent, AbsentSpan
<1> HIDE DEF x
<1>3. \A u \in 1..Len(traces), k \in SpanKind :
        spans'[u][k] = IF u = t /\ k = "child" THEN x ELSE spans[u][k]
  BY <1>1, <1>2, FInvTypes, PairUpdated DEF SpanKind
<1>4. QueueTypes'
  BY <1>1, CallsAssumption DEF FInv, QueueTypes
<1>5. ASSUME NEW u \in 1..Len(traces), NEW s \in SpanKind PROVE SpanHeld(u, s)'
  BY <1>1, <1>2, <1>3 DEF FInv, SpanHeld, Busy
<1>6. ASSUME NEW u \in 1..Len(traces)
      PROVE  /\ Root(u)' = Root(u)
             /\ u # t => (ChildDone(u)' <=> ChildDone(u))
             /\ u = t /\ Root(u).state # "open" => ChildDone(u)'
  BY <1>1, <1>3 DEF Root, ChildDone, LeftAlone, SpanKind
<1>7. ASSUME NEW u \in 1..Len(traces) PROVE (Root(u).state = "sent" => ChildDone(u))'
  BY <1>1, <1>6 DEF FInv
<1>8. ASSUME NEW h \in Goroutine, NEW u \in 1..Len(traces) PROVE QueueInv(h, u)'
  <2>1. Root(t).state = "open" => Root(t).holder = None
    BY FInvTypes DEF FInv, SpanHeld, Root, Busy, SpanKind
  <2> QED
    BY <1>1, <1>6, <2>1, FInvTypes DEF FInv, QueueInv
<1>9. FlushedInv'
  <2> SUFFICES ASSUME flushed # None PROVE FlushedInv'
    BY <1>1 DEF FlushedInv
  <2>1. flushed.trace \in 1..Len(traces) /\ Root(flushed.trace).state = "sent"
    BY DEF FInv, FlushedInv
  <2>2. Root(flushed.trace)' = Root(flushed.trace)
    BY <1>1, <1>6, <2>1
  <2>3. ASSUME NEW s \in SpanKind, ~LeftAlone(flushed.trace, s)'
        PROVE  /\ spans'[flushed.trace][s] = spans[flushed.trace][s]
               /\ ~LeftAlone(flushed.trace, s)
    <3>1. flushed.trace = t => s = "root"
      BY <1>1, <2>1, <2>3 DEF LeftAlone, SpanKind
    <3> QED
      BY <1>1, <1>3, <2>1, <2>3, <3>1 DEF LeftAlone, SpanKind
  <2> QED
    BY <1>1, <2>1, <2>2, <2>3 DEF FInv, FlushedInv
<1> QED
  BY <1>1, <1>4, <1>5, <1>7, <1>8, <1>9 DEF FInv

\* A goroutine with nothing to send holds nothing.
LEMMA NothingHeld ==
  ASSUME FInv, NEW g \in Goroutine, todo[g] = <<>>
  PROVE  \A t \in 1..Len(traces), s \in SpanKind : spans[t][s].holder # g
<1> SUFFICES ASSUME NEW t \in 1..Len(traces), NEW s \in SpanKind, spans[t][s].holder = g
             PROVE  FALSE
  OBVIOUS
<1>1. SpanHeld(t, s) /\ g # None
  BY FInvTypes DEF FInv
<1>2. todo[g] = One(t, s) \/ todo[g] = Two(t)
  BY <1>1 DEF SpanHeld
<1> QED
  BY <1>2, Queues

\* An idle goroutine takes a span to send, or a trace to flush, or both.
LEMMA TakeFInv ==
  ASSUME FInv, IInv', NEW g \in Goroutine, NEW t \in 1..Len(traces), NEW s \in SpanKind,
         Idle(g), Call, UNCHANGED <<closed, traces, spans, flushed, late>>,
         \/ todo' = [todo EXCEPT ![g] = One(t, s)] /\ UNCHANGED flush
         \/ /\ s = "root" /\ flush' = [flush EXCEPT ![g] = t]
            /\ todo' = IF Root(t).state = "sent" THEN todo
                       ELSE [todo EXCEPT ![g] = One(t, "root")]
  PROVE  FInv'
<1>1. todo[g] = <<>> /\ flush[g] = 0 /\ calls < MaxCalls /\ calls' = calls + 1
  BY DEF Idle, Call
<1>2. /\ todo \in [Goroutine -> Queue(Len(traces))] /\ One(t, s) \in Queue(Len(traces))
      /\ flush \in [Goroutine -> 0..Len(traces)]
  BY DEF FInv, QueueTypes, Queue
<1>3. /\ todo' \in [Goroutine -> Queue(Len(traces))]
      /\ flush' \in [Goroutine -> 0..Len(traces)]
      /\ \A h \in Goroutine : h # g => todo'[h] = todo[h] /\ flush'[h] = flush[h]
      /\ \/ todo'[g] = One(t, s) /\ flush'[g] = 0
         \/ /\ s = "root" /\ flush'[g] = t
            /\ \/ todo'[g] = One(t, "root") 
               \/ todo'[g] = <<>> /\ Root(t).state = "sent"
  BY <1>1, <1>2, FInvTypes
<1>4. QueueTypes'
  BY <1>1, <1>3, CallsAssumption DEF FInv, QueueTypes
<1>5. ASSUME NEW u \in 1..Len(traces), NEW k \in SpanKind PROVE SpanHeld(u, k)'
  <2>1. SpanHeld(u, k) /\ spans[u][k].holder # g
        /\ spans[u][k].holder \in Goroutine \cup {None}
    BY <1>1, NothingHeld, FInvTypes DEF FInv
  <2> QED
    BY <1>3, <2>1 DEF SpanHeld
<1>6. ASSUME NEW h \in Goroutine, NEW u \in 1..Len(traces) PROVE QueueInv(h, u)'
  <2>1. CASE h = g
    <3>1. Root(u).holder # g
      BY <1>1, NothingHeld DEF Root, SpanKind
    <3>2. todo'[g] # Two(u) /\ (flush'[g] = u => flush'[g] = t)
      BY <1>3, Queues
    <3> QED
      BY <1>3, <2>1, <3>1, <3>2 DEF QueueInv, Root
  <2>2. CASE h # g
    <3>1. QueueInv(h, u)
      BY DEF FInv
    <3> QED
      BY <1>3, <2>2, <3>1 DEF QueueInv, Root, ChildDone, LeftAlone
  <2> QED
    BY <2>1, <2>2
<1>7. ASSUME NEW u \in 1..Len(traces) PROVE (Root(u).state = "sent" => ChildDone(u))'
  BY DEF FInv, Root, ChildDone, LeftAlone
<1>8. FlushedInv'
  BY DEF FInv, FlushedInv, Root, LeftAlone
<1> QED
  BY <1>4, <1>5, <1>6, <1>7, <1>8 DEF FInv

\* What a goroutine comes to is alone in its queue, or has its root behind it.
LEMMA FirstOf ==
  ASSUME FInv, NEW g \in Goroutine, NEW t, NEW s, todo[g] # <<>>, Head(todo[g]) = <<t, s>>
  PROVE  todo[g] = One(t, s) \/ (todo[g] = Two(t) /\ s = "child")
<1>1. todo[g] \in Queue(Len(traces))
  BY DEF FInv, QueueTypes
<1>2. CASE \E u \in 1..Len(traces), k \in SpanKind : todo[g] = One(u, k)
  BY <1>2, Queues
<1>3. CASE \E u \in 1..Len(traces) : todo[g] = Two(u)
  BY <1>3, Queues
<1> QED
  BY <1>1, <1>2, <1>3 DEF Queue

Pops(g, t, s) ==
  /\ todo[g] # <<>> /\ Head(todo[g]) = <<t, s>>
  /\ todo' = [todo EXCEPT ![g] = Tail(todo[g])]

LEMMA Popped ==
  ASSUME FInv, NEW g \in Goroutine, NEW t \in 1..Len(traces), NEW s \in SpanKind,
         Pops(g, t, s)
  PROVE  /\ todo' \in [Goroutine -> Queue(Len(traces))]
         /\ \A h \in Goroutine : h # g => todo'[h] = todo[h]
         /\ \/ todo[g] = One(t, s) /\ todo'[g] = <<>>
            \/ todo[g] = Two(t) /\ s = "child" /\ todo'[g] = One(t, "root")
<1>1. todo \in [Goroutine -> Queue(Len(traces))]
  BY DEF FInv, QueueTypes
<1>2. <<>> \in Queue(Len(traces)) /\ One(t, "root") \in Queue(Len(traces))
  BY DEF Queue, SpanKind
<1>3. \/ todo[g] = One(t, s) /\ Tail(todo[g]) = <<>>
      \/ todo[g] = Two(t) /\ s = "child" /\ Tail(todo[g]) = One(t, "root")
  BY FirstOf, Queues DEF Pops
<1>4. todo' = [todo EXCEPT ![g] = Tail(todo[g])] /\ Tail(todo[g]) \in Queue(Len(traces))
  BY <1>2, <1>3 DEF Pops
<1> QED
  BY <1>1, <1>3, <1>4

\* A goroutine leaves a span that is sent, by itself or by another.
LEMMA PopFInv ==
  ASSUME FInv, IInv', NEW g \in Goroutine, NEW t \in 1..Len(traces), NEW s \in SpanKind,
         Pops(g, t, s),
         \A u \in 1..Len(traces), k \in SpanKind :
           ~(u = t /\ k = s) => spans'[u][k] = spans[u][k],
         spans'[t][s].state = "sent", spans'[t][s].holder = None,
         spans'[t][s].event # "none", spans'[t][s].isAsync = spans[t][s].isAsync,
         spans[t][s].holder = g \/ spans'[t][s] = spans[t][s],
         UNCHANGED <<closed, calls, traces, flush, flushed, late>>
  PROVE  FInv'
<1> DEFINE x == spans'[t][s]
<1>0. /\ x.state = "sent" /\ x.holder = None /\ x.event # "none"
      /\ x.isAsync = spans[t][s].isAsync /\ (spans[t][s].holder = g \/ x = spans[t][s])
      /\ \A u \in 1..Len(traces), k \in SpanKind :
           spans'[u][k] = IF u = t /\ k = s THEN x ELSE spans[u][k]
  OBVIOUS
<1> HIDE DEF x
<1>1. /\ todo' \in [Goroutine -> Queue(Len(traces))]
      /\ \A h \in Goroutine : h # g => todo'[h] = todo[h]
      /\ \/ todo[g] = One(t, s) /\ todo'[g] = <<>>
         \/ todo[g] = Two(t) /\ s = "child" /\ todo'[g] = One(t, "root")
  BY Popped
<1> USE <1>0
<1>2. spans[t][s].holder = g => spans[t][s].state \in Busy
  BY FInvTypes DEF FInv, SpanHeld
<1>3. QueueTypes'
  BY <1>1 DEF FInv, QueueTypes
<1>4. ASSUME NEW u \in 1..Len(traces), NEW k \in SpanKind PROVE SpanHeld(u, k)'
  <2>1. /\ SpanHeld(u, k) /\ spans[u][k].holder \in Goroutine \cup {None} /\ g # None
        /\ spans'[u][k] = IF u = t /\ k = s THEN x ELSE spans[u][k]
    BY FInvTypes DEF FInv
  <2>2. CASE u = t /\ k = s
    BY <2>1, <2>2 DEF SpanHeld, Busy
  <2>3. CASE ~(u = t /\ k = s) /\ spans[u][k].holder = g
    <3>1. todo[g] = One(u, k) \/ todo[g] = Two(u)
      BY <2>1, <2>3 DEF SpanHeld
    <3>2. CASE todo[g] = One(u, k)
      BY <1>1, <2>3, <3>2, Queues
    <3>3. CASE todo[g] = Two(u)
      <4>1. todo[g] # One(t, s)
        BY <3>3, Queues
      <4>2. Two(t) = Two(u) /\ s = "child" /\ todo'[g] = One(t, "root")
        BY <1>1, <3>3, <4>1
      <4>3. u = t /\ k = "root"
        BY <2>3, <4>2, Queues DEF SpanKind
      <4> QED
        BY <2>1, <2>3, <4>2, <4>3 DEF SpanHeld
    <3> QED
      BY <3>1, <3>2, <3>3
  <2>4. CASE ~(u = t /\ k = s) /\ spans[u][k].holder # g
    BY <1>1, <2>1, <2>4 DEF SpanHeld
  <2> QED
    BY <2>2, <2>3, <2>4
<1>5. ASSUME NEW u \in 1..Len(traces)
      PROVE  /\ Root(u)' = IF u = t /\ s = "root" THEN x ELSE Root(u)
             /\ ChildDone(u) => ChildDone(u)'
             /\ u = t /\ s = "child" => ChildDone(u)'
  BY DEF Root, ChildDone, LeftAlone, SpanKind
<1>6. ASSUME NEW u \in 1..Len(traces) PROVE (Root(u).state = "sent" => ChildDone(u))'
  <2>1. (Root(u).state = "sent" => ChildDone(u))
    BY DEF FInv
  <2>2. CASE u = t /\ s = "root" /\ Root(u).holder = g
    <3>1. todo[g] = One(u, "root") /\ QueueInv(g, u)
      BY <1>1, <2>2 DEF FInv
    <3> QED
      BY <1>5, <2>2, <3>1 DEF QueueInv
  <2>3. CASE u = t /\ s = "root" /\ Root(u).holder # g
    BY <1>5, <2>1, <2>3 DEF Root
  <2>4. CASE ~(u = t /\ s = "root")
    BY <1>5, <2>1, <2>4
  <2> QED
    BY <2>2, <2>3, <2>4
<1>7. ASSUME NEW h \in Goroutine, NEW u \in 1..Len(traces) PROVE QueueInv(h, u)'
  <2>1. QueueInv(h, u) /\ h # None
    BY FInvTypes DEF FInv
  <2>2. CASE h = g
    <3>1. todo'[g] # Two(u)
      <4>1. Two(u) # <<>> /\ One(t, "root") # Two(u)
        BY Queues
      <4> QED
        BY <1>1, <4>1
    <3>2. ASSUME todo'[g] = One(u, "root") PROVE ChildDone(u)'
      <4>1. One(u, "root") # <<>>
        BY Queues
      <4>2. One(t, "root") = One(u, "root") /\ s = "child"
        BY <1>1, <3>2, <4>1
      <4>3. u = t
        BY <4>2, Queues
      <4> QED
        BY <1>5, <4>2, <4>3
    <3>3. ASSUME flush[g] = u
          PROVE  todo'[g] = One(u, "root") \/ (todo'[g] = <<>> /\ Root(u)'.state = "sent")
      <4>1. todo[g] = One(u, "root") \/ todo[g] = Two(u)
        BY <2>1, <2>2, <3>3 DEF QueueInv, Pops
      <4>2. CASE todo[g] = One(u, "root")
        <5>1. todo[g] # Two(t)
          BY <4>2, Queues
        <5>2. One(t, s) = One(u, "root") /\ todo'[g] = <<>>
          BY <1>1, <4>2, <5>1
        <5>3. u = t /\ s = "root"
          BY <5>2, Queues
        <5> QED
          BY <1>5, <5>2, <5>3
      <4>3. CASE todo[g] = Two(u)
        <5>1. todo[g] # One(t, s)
          BY <4>3, Queues
        <5>2. Two(t) = Two(u) /\ todo'[g] = One(t, "root")
          BY <1>1, <4>3, <5>1
        <5>3. u = t
          BY <5>2, Queues
        <5> QED
          BY <5>2, <5>3
      <4> QED
        BY <4>1, <4>2, <4>3
    <3> QED
      BY <2>2, <3>1, <3>2, <3>3 DEF QueueInv
  <2>3. CASE h # g
    <3>1. todo'[h] = todo[h]
      BY <1>1, <2>3
    <3>2. todo[h] = Two(u) => Root(u)' = Root(u)
      BY <1>5, <2>1, <2>3 DEF QueueInv, Root
    <3>3. Root(u)'.holder = h => Root(u).holder = h
      BY <1>5, <2>1
    <3>4. Root(u).state = "sent" => Root(u)'.state = "sent"
      BY <1>5
    <3> QED
      BY <1>5, <2>1, <3>1, <3>2, <3>3, <3>4 DEF QueueInv
  <2> QED
    BY <2>2, <2>3
<1>8. FlushedInv'
  <2> SUFFICES ASSUME flushed # None PROVE FlushedInv'
    BY DEF FlushedInv
  <2> DEFINE u == flushed.trace
  <2>1. u \in 1..Len(traces) /\ Root(u).state = "sent" /\ ChildDone(u) /\ FlushedInv
    BY DEF FInv, FlushedInv
  <2>2. Root(u)'.state = "sent"
    BY <1>5, <2>1
  <2>3. ASSUME NEW k \in SpanKind, ~LeftAlone(u, k)
        PROVE  spans'[u][k] = spans[u][k]
    <3>1. spans[u][k].state \in {"absent", "sent"}
      BY <2>1, <2>3 DEF Root, ChildDone, LeftAlone, SpanKind
    <3> QED
      BY <1>2, <2>1, <3>1 DEF Busy
  <2>4. ASSUME NEW k \in SpanKind, ~LeftAlone(u, k)'
        PROVE  ~LeftAlone(u, k)
    BY <2>1, <2>4 DEF LeftAlone
  <2> QED
    BY <2>1, <2>2, <2>3, <2>4 DEF FlushedInv
<1> QED
  BY <1>3, <1>4, <1>6, <1>7, <1>8 DEF FInv

LEMMA SkipFInv ==
  ASSUME FInv, IInv', NEW g \in Goroutine, NEW t \in 1..Len(traces), NEW s \in SpanKind,
         Skip(g, t, s)
  PROVE  FInv'
<1> DEFINE x == spans[t][s]
<1>1. /\ todo[g] # <<>> /\ Head(todo[g]) = <<t, s>> /\ x.state = "sent"
      /\ todo' = [todo EXCEPT ![g] = Tail(todo[g])]
      /\ UNCHANGED <<closed, calls, traces, spans, flush, flushed, late>>
  BY DEF Skip, Sending, history, flushes, labelled
<1>2. x.holder = None /\ x.event # "none"
  BY <1>1 DEF FInv, SpanHeld, Busy
<1> QED
  BY <1>1, <1>2, PopFInv DEF Pops

LEMMA DispatchFInv ==
  ASSUME FInv, IInv', NEW g \in Goroutine, NEW t \in 1..Len(traces), NEW s \in SpanKind,
         Dispatch(g, t, s)
  PROVE  FInv'
<1> DEFINE y == spans[t][s]
           x == Unlocked([y EXCEPT !.state = "sent", !.event = Dispatched(y)])
<1>1. /\ todo[g] # <<>> /\ Head(todo[g]) = <<t, s>> /\ y.holder = g
      /\ todo' = [todo EXCEPT ![g] = Tail(todo[g])]
      /\ spans' = [spans EXCEPT ![t][s] = x]
      /\ UNCHANGED <<closed, calls, traces, flush, flushed, late>>
  BY DEF Dispatch, Sending, flushes
<1>2. y \in Span /\ spans \in Seq(Pair) /\ Len(spans) = Len(traces) /\ Types
  BY FInvTypes DEF FInv, IInv
<1>3. x \in Span
  BY <1>2, SendingTypes
<1>4. /\ x.state = "sent" /\ x.holder = None /\ x.event = Dispatched(y)
      /\ x.isAsync = y.isAsync
  BY <1>2 DEF Span, Unlocked
<1>5. x.event # "none"
  BY <1>4 DEF Dispatched
<1> HIDE DEF x
<1>6. \A u \in 1..Len(traces), k \in SpanKind :
        spans'[u][k] = IF u = t /\ k = s THEN x ELSE spans[u][k]
  BY <1>1, <1>2, <1>3, PairUpdated
<1>7. /\ \A u \in 1..Len(traces), k \in SpanKind :
           ~(u = t /\ k = s) => spans'[u][k] = spans[u][k]
      /\ spans'[t][s].state = "sent" /\ spans'[t][s].holder = None
      /\ spans'[t][s].event # "none" /\ spans'[t][s].isAsync = spans[t][s].isAsync
  <2>1. spans'[t][s] = x
    BY <1>6
  <2> QED
    BY <1>4, <1>5, <1>6, <2>1
<1> QED
  BY <1>1, <1>7, PopFInv DEF Pops

\* A span held by the goroutine that has it first in its queue is decided upon.
LEMMA DecideFInv ==
  ASSUME FInv, IInv', NEW g \in Goroutine, NEW t \in 1..Len(traces), NEW s \in SpanKind,
         todo[g] # <<>>, Head(todo[g]) = <<t, s>>, spans[t][s].holder = g,
         NEW x \in Span, spans' = [spans EXCEPT ![t][s] = x],
         x.state \in Busy, x.holder = g, x.event = spans[t][s].event,
         x.isAsync = spans[t][s].isAsync,
         UNCHANGED <<closed, calls, traces, todo, flush, flushed, late>>
  PROVE  FInv'
<1>1. \A u \in 1..Len(traces), k \in SpanKind :
        spans'[u][k] = IF u = t /\ k = s THEN x ELSE spans[u][k]
  BY FInvTypes, PairUpdated
<1>2. SpanHeld(t, s) /\ g # None
  BY FInvTypes DEF FInv
<1>3. spans[t][s].state \in Busy
  BY <1>2 DEF SpanHeld
<1>4. todo[g] = One(t, s) \/ (todo[g] = Two(t) /\ s = "child")
  BY FirstOf
<1>5. ASSUME NEW u \in 1..Len(traces), NEW k \in SpanKind PROVE SpanHeld(u, k)'
  <2>1. CASE u = t /\ k = s
    BY <1>1, <1>2, <1>3, <2>1 DEF SpanHeld, Busy
  <2>2. CASE ~(u = t /\ k = s)
    BY <1>1, <2>2 DEF FInv, SpanHeld
  <2> QED
    BY <2>1, <2>2
<1>6. ASSUME NEW u \in 1..Len(traces)
      PROVE  /\ Root(u)' = IF u = t /\ s = "root" THEN x ELSE Root(u)
             /\ ChildDone(u)' <=> ChildDone(u)
  <2>1. ~(u = t /\ s = "child") => spans'[u]["child"] = spans[u]["child"]
    BY <1>1 DEF SpanKind
  <2>2. u = t /\ s = "child" => spans'[u]["child"] = x
    BY <1>1
  <2>3. ChildDone(u)' <=> ChildDone(u)
    BY <1>3, <2>1, <2>2 DEF ChildDone, LeftAlone, Busy
  <2> QED
    BY <1>1, <2>3 DEF Root, SpanKind
<1>7. QueueTypes'
  BY DEF FInv, QueueTypes
<1>8. ASSUME NEW u \in 1..Len(traces) PROVE (Root(u).state = "sent" => ChildDone(u))'
  BY <1>6 DEF FInv, Busy
<1>9. ASSUME NEW h \in Goroutine, NEW u \in 1..Len(traces) PROVE QueueInv(h, u)'
  <2>1. QueueInv(h, u) /\ h # None
    BY FInvTypes DEF FInv
  <2>2. todo[h] = Two(u) => Root(u)' = Root(u)
    <3>1. ASSUME todo[h] = Two(u), u = t, s = "root" PROVE FALSE
      <4>1. h = g
        BY <2>1, <3>1 DEF QueueInv, Root
      <4>2. One(t, s) = Two(u)
        BY <1>4, <3>1, <4>1
      <4> QED
        BY <4>2, Queues
    <3> QED
      BY <1>6, <3>1
  <2>3. Root(u)'.holder = h => Root(u).holder = h
    BY <1>6 DEF Root
  <2>4. Root(u).state = "sent" => Root(u)'.state = "sent"
    BY <1>3, <1>6 DEF Root, Busy
  <2> QED
    BY <1>6, <2>1, <2>2, <2>3, <2>4 DEF QueueInv
<1>10. FlushedInv'
  <2>1. ASSUME flushed # None
        PROVE  flushed.trace \in 1..Len(traces) /\ Root(flushed.trace)'.state = "sent"
    BY <1>3, <1>6, <2>1 DEF FInv, FlushedInv, Root, Busy
  <2>2. ASSUME flushed # None, NEW k \in SpanKind, ~LeftAlone(flushed.trace, k)
        PROVE  spans'[flushed.trace][k] = spans[flushed.trace][k]
    <3>1. spans[flushed.trace][k].state \in {"absent", "sent"}
      BY <2>1, <2>2 DEF FInv, FlushedInv, Root, ChildDone, LeftAlone, SpanKind
    <3> QED
      BY <1>1, <1>3, <2>1, <3>1 DEF Busy
  <2>3. ASSUME flushed # None, NEW k \in SpanKind
        PROVE  LeftAlone(flushed.trace, k)' <=> LeftAlone(flushed.trace, k)
    BY <1>1, <2>1, <2>3 DEF LeftAlone
  <2> QED
    BY <2>1, <2>2, <2>3 DEF FInv, FlushedInv
<1> QED
  BY <1>5, <1>7, <1>8, <1>9, <1>10 DEF FInv

LEMMA LockFInv ==
  ASSUME FInv, IInv', NEW g \in Goroutine, NEW t \in 1..Len(traces), NEW s \in SpanKind,
         Lock(g, t, s)
  PROVE  FInv'
<1> DEFINE y == spans[t][s]
           x == [y EXCEPT !.state = "locked", !.holder = g]
           waits == /\ s = "root" /\ spans[t]["child"].state \notin {"absent", "sent"}
                    /\ ~spans[t]["child"].isAsync
<1>1. /\ todo[g] # <<>> /\ Head(todo[g]) = <<t, s>> /\ y.state = "open"
      /\ spans' = [spans EXCEPT ![t][s] = x]
      /\ todo' = IF waits THEN [todo EXCEPT ![g] = <<<<t, "child">>>> \o todo[g]] ELSE todo
      /\ UNCHANGED <<closed, calls, traces, flush, flushed, late>>
  BY DEF Lock, Sending, history, flushes, labelled
<1>2. y \in Span /\ spans \in Seq(Pair) /\ Len(spans) = Len(traces) /\ Types
      /\ y.holder = None /\ y.event = "none" /\ g # None
  <2>1. y \in Span /\ spans \in Seq(Pair) /\ Len(spans) = Len(traces) /\ g # None
    BY FInvTypes
  <2>2. SpanHeld(t, s) /\ Types
    BY DEF FInv, IInv
  <2> QED
    BY <1>1, <2>1, <2>2 DEF SpanHeld, Busy
<1>3. x \in Span /\ x.state = "locked" /\ x.holder = g /\ x.event = "none"
      /\ x.isAsync = y.isAsync
  <2>1. x \in Span
    BY <1>2, SendingTypes
  <2> QED
    BY <1>2, <2>1 DEF Span
<1> HIDE DEF x
<1>4. \A u \in 1..Len(traces), k \in SpanKind :
        spans'[u][k] = IF u = t /\ k = s THEN x ELSE spans[u][k]
  BY <1>1, <1>2, <1>3, PairUpdated
<1>5. todo[g] = One(t, s) \/ (todo[g] = Two(t) /\ s = "child")
  BY <1>1, FirstOf
<1>6. /\ todo' \in [Goroutine -> Queue(Len(traces))]
      /\ \A h \in Goroutine : h # g => todo'[h] = todo[h]
      /\ todo'[g] = IF waits THEN Two(t) ELSE todo[g]
  <2>1. todo \in [Goroutine -> Queue(Len(traces))] /\ Two(t) \in Queue(Len(traces))
    BY DEF FInv, QueueTypes, Queue
  <2>2. waits => <<<<t, "child">>>> \o todo[g] = Two(t)
    <3>1. ASSUME waits PROVE todo[g] = One(t, "root")
      BY <1>5, <3>1
    <3> QED
      BY <3>1, Queues
  <2> QED
    BY <1>1, <2>1, <2>2
<1>7. QueueTypes'
  BY <1>1, <1>6 DEF FInv, QueueTypes
<1>8. ASSUME NEW u \in 1..Len(traces)
      PROVE  /\ Root(u)' = IF u = t /\ s = "root" THEN x ELSE Root(u)
             /\ ChildDone(u)' <=> ChildDone(u)
  <2>1. ~(u = t /\ s = "child") => spans'[u]["child"] = spans[u]["child"]
    BY <1>4 DEF SpanKind
  <2>2. u = t /\ s = "child" => spans'[u]["child"] = x
    BY <1>4
  <2>3. ChildDone(u)' <=> ChildDone(u)
    BY <1>1, <1>3, <2>1, <2>2 DEF ChildDone, LeftAlone
  <2> QED
    BY <1>4, <2>3 DEF Root, SpanKind
<1>9. ASSUME NEW u \in 1..Len(traces), NEW k \in SpanKind PROVE SpanHeld(u, k)'
  <2>1. SpanHeld(u, k) /\ spans[u][k].holder \in Goroutine \cup {None}
    BY FInvTypes DEF FInv
  <2>2. CASE u = t /\ k = s
    BY <1>2, <1>3, <1>4, <1>5, <1>6, <2>2 DEF SpanHeld, Busy
  <2>3. CASE ~(u = t /\ k = s) /\ spans[u][k].holder = g
    <3>1. todo[g] = One(u, k) \/ todo[g] = Two(u)
      BY <1>2, <2>1, <2>3 DEF SpanHeld
    <3>2. u = t
      BY <1>5, <3>1, Queues
    <3>3. todo'[g] = Two(u) \/ todo'[g] = todo[g]
      BY <1>6, <3>2
    <3> QED
      BY <1>4, <2>1, <2>3, <3>1, <3>3 DEF SpanHeld
  <2>4. CASE ~(u = t /\ k = s) /\ spans[u][k].holder # g
    BY <1>4, <1>6, <2>1, <2>4 DEF SpanHeld
  <2> QED
    BY <2>2, <2>3, <2>4
<1>10. ASSUME NEW u \in 1..Len(traces) PROVE (Root(u).state = "sent" => ChildDone(u))'
  BY <1>3, <1>8 DEF FInv
<1>11. ASSUME NEW h \in Goroutine, NEW u \in 1..Len(traces) PROVE QueueInv(h, u)'
  <2>1. QueueInv(h, u) /\ h # None
    BY FInvTypes DEF FInv
  <2>2. CASE h = g /\ waits
    <3>1. todo[g] = One(t, "root") /\ Root(t)'.holder = g /\ Root(t)'.state = "locked"
      BY <1>3, <1>5, <1>8, <2>2
    <3>2. todo'[g] = Two(t) /\ (Two(u) = Two(t) => u = t) /\ One(u, "root") # Two(t)
      BY <1>6, <2>2, Queues
    <3>3. flush[g] = u => u = t
      <4>1. ASSUME flush[g] = u
            PROVE  One(t, "root") = One(u, "root") \/ One(t, "root") = Two(u)
        BY <1>1, <2>1, <2>2, <3>1, <4>1 DEF QueueInv
      <4> QED
        BY <4>1, Queues
    <3> QED
      BY <1>1, <2>2, <3>1, <3>2, <3>3 DEF QueueInv
  <2>3. CASE h = g /\ ~waits
    <3>1. todo'[g] = todo[g]
      BY <1>6, <2>3
    <3>2. todo[g] = Two(u) => Root(u)' = Root(u)
      <4>1. ASSUME todo[g] = Two(u), s = "root" PROVE FALSE
        <5>1. One(t, s) = Two(u)
          BY <1>5, <4>1
        <5> QED
          BY <5>1, Queues
      <4> QED
        BY <1>8, <4>1
    <3>3. todo[g] = One(u, "root") => (u = t /\ s = "root")
      BY <1>5, Queues
    <3>4. Root(u).state = "sent" => Root(u)'.state = "sent"
      BY <1>1, <1>8 DEF Root
    <3>5. u = t /\ s = "root" => ChildDone(u)
      BY <2>3 DEF ChildDone, LeftAlone
    <3> QED
      BY <1>1, <1>8, <2>1, <2>3, <3>1, <3>2, <3>3, <3>4, <3>5 DEF QueueInv
  <2>4. CASE h # g
    <3>1. todo'[h] = todo[h] /\ flush'[h] = flush[h]
      BY <1>1, <1>6, <2>4
    <3>2. todo[h] = Two(u) => Root(u)' = Root(u)
      <4>1. ASSUME todo[h] = Two(u), u = t, s = "root" PROVE FALSE
        BY <1>1, <2>1, <4>1 DEF QueueInv, Root
      <4> QED
        BY <1>8, <4>1
    <3>3. Root(u)'.holder = h => Root(u).holder = h
      BY <1>3, <1>8, <2>4
    <3>4. Root(u).state = "sent" => Root(u)'.state = "sent"
      BY <1>1, <1>8 DEF Root
    <3> QED
      BY <1>8, <2>1, <3>1, <3>2, <3>3, <3>4 DEF QueueInv
  <2> QED
    BY <2>2, <2>3, <2>4
<1>12. FlushedInv'
  <2>1. ASSUME flushed # None
        PROVE  flushed.trace \in 1..Len(traces) /\ Root(flushed.trace)'.state = "sent"
    BY <1>1, <1>8, <2>1 DEF FInv, FlushedInv, Root, LeftAlone
  <2>2. ASSUME flushed # None, NEW k \in SpanKind
        PROVE  /\ LeftAlone(flushed.trace, k)' <=> LeftAlone(flushed.trace, k)
               /\ \/ spans'[flushed.trace][k] = spans[flushed.trace][k]
                  \/ spans'[flushed.trace][k].event = "none"
    BY <1>1, <1>3, <1>4, <2>1, <2>2 DEF LeftAlone
  <2> QED
    BY <1>1, <2>1, <2>2 DEF FInv, FlushedInv
<1> QED
  BY <1>1, <1>7, <1>9, <1>10, <1>11, <1>12 DEF FInv

LEMMA DecisionFInv ==
  ASSUME FInv, IInv', NEW g \in Goroutine, NEW t \in 1..Len(traces), NEW s \in SpanKind,
         \/ \E kept \in BOOLEAN : DecideByHook(g, t, s, kept)
         \/ Decide(g, t, s)
         \/ SetRate(g, t, s)
  PROVE  FInv'
<1> DEFINE y == spans[t][s]
<1>1. /\ todo[g] # <<>> /\ Head(todo[g]) = <<t, s>> /\ y.holder = g
      /\ y \in Span /\ Types /\ (GlobalSampler # None => GlobalSampler.sampleRate \in Nat)
      /\ UNCHANGED <<closed, calls, traces, todo, flush, flushed, late>>
  BY FInvTypes
  DEF DecideByHook, Decide, SetRate, Sending, history, flushes, FInv, IInv, Types, IsSampler
<1>2. \E x \in Span : /\ spans' = [spans EXCEPT ![t][s] = x]
                      /\ x.state \in Busy /\ x.holder = g /\ x.event = y.event
                      /\ x.isAsync = y.isAsync
  <2>1. ASSUME NEW kept \in BOOLEAN, DecideByHook(g, t, s, kept)
        PROVE  <1>2!:
    <3> DEFINE x == [y EXCEPT !.state = "decided", !.by = "hook", !.kept = kept]
    <3>1. spans' = [spans EXCEPT ![t][s] = x]
      BY <2>1 DEF DecideByHook
    <3>2. x \in Span
      BY <1>1, SendingTypes
    <3>3. x.state \in Busy /\ x.holder = g /\ x.event = y.event /\ x.isAsync = y.isAsync
      BY <1>1 DEF Span, Busy
    <3> HIDE DEF x
    <3> QED
      BY <3>1, <3>2, <3>3
  <2>2. CASE Decide(g, t, s) /\ GlobalSampler = None
    <3> DEFINE x == [y EXCEPT !.state = "decided"]
    <3>1. spans' = [spans EXCEPT ![t][s] = x]
      BY <2>2 DEF Decide
    <3>2. x \in Span
      BY <1>1, SendingTypes
    <3>3. x.state \in Busy /\ x.holder = g /\ x.event = y.event /\ x.isAsync = y.isAsync
      BY <1>1 DEF Span, Busy
    <3> HIDE DEF x
    <3> QED
      BY <3>1, <3>2, <3>3
  <2>3. CASE Decide(g, t, s) /\ GlobalSampler # None
    <3> DEFINE keeps == Sample(GlobalSampler, Determinant(t, s))
               x == [y EXCEPT !.state = "unrated", !.by = "sampler",
                              !.decidedRate = GlobalSampler.sampleRate, !.kept = keeps]
    <3>1. spans' = [spans EXCEPT ![t][s] = x]
      BY <2>3 DEF Decide
    <3>2. keeps \in BOOLEAN
      BY DEF Sample
    <3>3. x \in Span
      BY <1>1, <2>3, <3>2, SendingTypes
    <3>4. x.state \in Busy /\ x.holder = g /\ x.event = y.event /\ x.isAsync = y.isAsync
      BY <1>1 DEF Span, Busy
    <3> HIDE DEF x
    <3> QED
      BY <3>1, <3>3, <3>4
  <2>4. CASE SetRate(g, t, s)
    <3> DEFINE x == [y EXCEPT !.state = "decided", !.SampleRate = GlobalSampler.sampleRate]
    <3>1. spans' = [spans EXCEPT ![t][s] = x] /\ y.state = "unrated"
      BY <2>4 DEF SetRate, Sending
    <3>2. GlobalSampler # None
      BY <3>1 DEF FInv, IInv, SpanInv, SpanRated
    <3>3. x \in Span
      BY <1>1, <3>2, SendingTypes
    <3>4. x.state \in Busy /\ x.holder = g /\ x.event = y.event /\ x.isAsync = y.isAsync
      BY <1>1 DEF Span, Busy
    <3> HIDE DEF x
    <3> QED
      BY <3>1, <3>3, <3>4
  <2> QED
    BY <2>1, <2>2, <2>3, <2>4
<1>3. PICK x \in Span : /\ spans' = [spans EXCEPT ![t][s] = x]
                        /\ x.state \in Busy /\ x.holder = g /\ x.event = y.event
                        /\ x.isAsync = y.isAsync
  BY <1>2
<1> QED
  BY <1>1, <1>3, DecideFInv

\* The events of the client are delivered, by a Close or by the end of a Flush.
LEMMA DeliverFInv ==
  ASSUME FInv, IInv', spans' = Delivered(client), calls' \in 0..MaxCalls,
         closed' \subseteq AnyClient, UNCHANGED <<traces, todo, late>>,
         \/ UNCHANGED <<flush, flushed>>
         \/ \E g \in Goroutine :
              /\ FlushReady(g) /\ flush' = [flush EXCEPT ![g] = 0]
              /\ flushed' = [trace |-> flush[g], active |-> active[g], client |-> client]
  PROVE  FInv'
<1>1. ASSUME NEW u \in 1..Len(traces), NEW k \in SpanKind
      PROVE  /\ spans'[u][k].state = spans[u][k].state
             /\ spans'[u][k].holder = spans[u][k].holder
             /\ spans'[u][k].isAsync = spans[u][k].isAsync
             /\ spans'[u][k].client = spans[u][k].client
             /\ spans'[u][k].event # "none" <=> spans[u][k].event # "none"
             /\ spans'[u][k].event = "queued" =>
                  spans[u][k].event = "queued" /\ spans[u][k].client # client
  <2>1. spans[u][k] \in Span
    BY FInvTypes
  <2>2. spans'[u][k] = IF spans[u][k].event = "queued" /\ spans[u][k].client = client
                       THEN [spans[u][k] EXCEPT !.event = "delivered"] ELSE spans[u][k]
    BY FInvTypes, DeliveredTypes
  <2> QED
    BY <2>1, <2>2 DEF Span
<1>2. ASSUME NEW u \in 1..Len(traces)
      PROVE  /\ Root(u)'.state = Root(u).state /\ Root(u)'.holder = Root(u).holder
             /\ ChildDone(u)' <=> ChildDone(u)
  BY <1>1 DEF Root, ChildDone, LeftAlone, SpanKind
<1>3. flush' \in [Goroutine -> 0..Len(traces)]
      /\ \A g \in Goroutine : flush'[g] = flush[g] \/ flush'[g] = 0
  BY FInvTypes DEF FInv, QueueTypes
<1>4. QueueTypes'
  BY <1>3 DEF FInv, QueueTypes
<1>5. ASSUME NEW u \in 1..Len(traces), NEW k \in SpanKind PROVE SpanHeld(u, k)'
  BY <1>1 DEF FInv, SpanHeld
<1>6. ASSUME NEW u \in 1..Len(traces) PROVE (Root(u).state = "sent" => ChildDone(u))'
  BY <1>2 DEF FInv
<1>7. ASSUME NEW h \in Goroutine, NEW u \in 1..Len(traces) PROVE QueueInv(h, u)'
  <2>1. QueueInv(h, u)
    BY DEF FInv
  <2> QED
    BY <1>2, <1>3, <2>1 DEF QueueInv
<1>8. FlushedInv'
  <2>1. CASE UNCHANGED <<flush, flushed>>
    <3>1. ASSUME flushed # None PROVE flushed.trace \in 1..Len(traces)
      BY <3>1 DEF FInv, FlushedInv
    <3> QED
      BY <1>1, <1>2, <2>1, <3>1 DEF FInv, FlushedInv, LeftAlone
  <2>2. ASSUME NEW g \in Goroutine, FlushReady(g),
               flushed' = [trace |-> flush[g], active |-> active[g], client |-> client]
        PROVE  FlushedInv'
    <3>1. flush[g] \in 1..Len(traces) /\ todo[g] = <<>>
      BY <2>2, FInvTypes DEF FInv, QueueTypes, FlushReady
    <3>2. Root(flush[g]).state = "sent"
      <4>1. QueueInv(g, flush[g])
        BY <3>1 DEF FInv
      <4> QED
        BY <3>1, <4>1, Queues DEF QueueInv
    <3>3. flushed'.trace = flush[g] /\ flushed'.client = client
      BY <2>2
    <3> QED
      BY <1>1, <1>2, <3>1, <3>2, <3>3 DEF FlushedInv
  <2> QED
    BY <2>1, <2>2
<1> QED
  BY <1>4, <1>5, <1>6, <1>7, <1>8 DEF FInv

LEMMA NextFInv == FInv /\ [Next]_vars => FInv'
<1> SUFFICES ASSUME FInv, [Next]_vars PROVE FInv'
  OBVIOUS
<1>1. /\ DOMAIN traces = 1..Len(traces) /\ IInv' /\ calls \in 0..MaxCalls
      /\ client \in AnyClient /\ closed \subseteq AnyClient
  <2>1. IInv'
    BY NextIInv DEF FInv
  <2> QED
    BY <2>1 DEF FInv, IInv, Types, QueueTypes
<1>2. CASE BeginInit \/ InitClient \/ InitFields \/ InitSampler \/ InitPprof
  BY <1>1, <1>2, StillFlush
  DEF BeginInit, InitClient, InitFields, InitSampler, InitPprof, InitTo, history, flushes, labelled
<1>3. ASSUME NEW g \in Goroutine, NEW v \in Hash, NEW ctx \in {labels[g], None},
             StartTrace(g, v, ctx)
      PROVE  FInv'
  BY <1>1, <1>3, StartTraceFInv
<1>4. ASSUME NEW g \in Goroutine, NEW t \in 1..Len(traces), NEW ctx \in {labels[g], None},
             CopyContext(g, t, ctx)
      PROVE  FInv'
  <2>1. /\ Len(traces') = Len(traces) /\ calls' \in 0..MaxCalls
        /\ UNCHANGED <<closed, spans, todo, flush, flushed, late>>
    BY <1>1, <1>4, CallsAssumption DEF CopyContext, Call, FInv, IInv, Types, flushes
  <2> QED
    BY <1>1, <2>1, StillFlush
<1>5. ASSUME NEW g \in Goroutine, NEW t \in 1..Len(traces), FlushStart(g, t)
      PROVE  FInv'
  <2>1. "root" \in SpanKind
    BY DEF SpanKind
  <2> QED
    BY <1>1, <1>5, <2>1, TakeFInv DEF FlushStart, One, Root, history, flushes, labelled
<1>6. ASSUME NEW g \in Goroutine, NEW t \in 1..Len(traces), NEW isAsync \in BOOLEAN,
             StartChild(g, t, isAsync)
      PROVE  FInv'
  BY <1>1, <1>6, StartChildFInv
<1>7. ASSUME NEW g \in Goroutine, NEW t \in 1..Len(traces), NEW s \in SpanKind,
             \/ Send(g, t, s) \/ Lock(g, t, s) \/ Skip(g, t, s)
             \/ \E kept \in BOOLEAN : DecideByHook(g, t, s, kept)
             \/ Decide(g, t, s) \/ SetRate(g, t, s) \/ Dispatch(g, t, s)
      PROVE  FInv'
  <2>1. CASE Send(g, t, s)
    BY <1>1, <2>1, TakeFInv DEF Send, One, history, flushes, labelled
  <2>2. CASE Lock(g, t, s)
    BY <1>1, <2>2, LockFInv
  <2>3. CASE Skip(g, t, s)
    BY <1>1, <2>3, SkipFInv
  <2>4. CASE \/ \E kept \in BOOLEAN : DecideByHook(g, t, s, kept)
             \/ Decide(g, t, s) \/ SetRate(g, t, s)
    BY <1>1, <2>4, DecisionFInv
  <2>5. CASE Dispatch(g, t, s)
    BY <1>1, <2>5, DispatchFInv
  <2> QED
    BY <1>7, <2>1, <2>2, <2>3, <2>4, <2>5
<1>8. ASSUME NEW g \in Goroutine, FlushEnd(g)
      PROVE  FInv'
  BY <1>1, <1>8, DeliverFInv DEF FlushEnd
<1>9. CASE Close
  BY <1>1, <1>9, DeliverFInv, CallsAssumption DEF Close, Call, history, flushes, labelled
<1>10. CASE UNCHANGED vars
  BY <1>1, <1>10, StillFlush DEF vars, history, flushes, labelled
<1> QED
  BY <1>1, <1>2, <1>3, <1>4, <1>5, <1>6, <1>7, <1>8, <1>9, <1>10 DEF Next

-------------------------------------------------------------------------------
(* Theorems.                                                               *)

LEMMA FlushInvariant == Spec => []FInv
  BY InitFInv, NextFInv, PTL DEF Spec

\* No two goroutines send a span at a time, and an event is somewhere only if its
\* span has been sent (sendLock).
THEOREM Typed == Spec => []TypeOK
<1>1. ASSUME FInv PROVE TypeOK
  <2>1. /\ client \in Client \cup {ZeroClient} /\ closed \subseteq Client \cup {ZeroClient}
        /\ init.step \in InitStep /\ calls \in 0..MaxCalls
        /\ \A g \in Goroutine : flush[g] \in 0..Len(traces)
    BY <1>1 DEF FInv, IInv, Types, QueueTypes, AnyClient, InitState
  <2>2. ASSUME NEW t \in 1..Len(traces), NEW s \in SpanKind
        PROVE  LET span == spans[t][s] IN
               /\ span.state \in {"absent", "open", "locked", "unrated", "decided", "sent"}
               /\ span.holder # None <=> span.state \in {"locked", "unrated", "decided"}
               /\ span.holder # None => <<t, s>> \in Range(todo[span.holder])
               /\ span.event # "none" <=> span.state = "sent"
    <3>1. spans[t][s] \in Span /\ SpanHeld(t, s)
      BY <1>1, FInvTypes DEF FInv
    <3>2. spans[t][s].holder # None => <<t, s>> \in Range(todo[spans[t][s].holder])
      BY <3>1, Queues DEF SpanHeld
    <3> QED
      BY <3>1, <3>2 DEF SpanHeld, Busy, Span, SpanState
  <2> QED
    BY <1>1, <2>1, <2>2 DEF TypeOK, FInv, IInv, Types
<1> QED
  BY <1>1, FlushInvariant, PTL

\* When a Flush returns, the root of its trace has been sent, by whomever, and so
\* has a synchronous child begun before the root queued its own; and none of their
\* events waits with the client it flushed; with any number of goroutines that
\* begin children at any time, send and flush (Flush).
THEOREM Flushed == Spec => []FlushDelivers
<1>1. ASSUME FInv PROVE FlushDelivers
  <2> SUFFICES ASSUME flushed # None, NEW s \in SpanKind, ~LeftAlone(flushed.trace, s)
               PROVE  LET span == spans[flushed.trace][s] IN
                      /\ span.state \in {"absent", "sent"}
                      /\ span.client = flushed.client => span.event # "queued"
    BY DEF FlushDelivers
  <2>1. Root(flushed.trace).state = "sent" /\ ChildDone(flushed.trace)
    BY <1>1 DEF FInv, FlushedInv
  <2> QED
    BY <1>1, <2>1 DEF FInv, FlushedInv, Root, ChildDone, LeftAlone, SpanKind
<1> QED
  BY <1>1, FlushInvariant, PTL

-------------------------------------------------------------------------------
(* The labels of goroutines.                                               *)

\* The traces of g that labelled it, and the label that has g be in the last of
\* them, or in none.
Tagged(g) == {t \in started[g] : traces[t].oldCtx # <<>>}
LabelOf(label, S) == IF S = {} THEN label = None ELSE Latest(label, S)

(***************************************************************************)
(* The invariant: a trace is begun on one goroutine; and the context saved *)
(* with it has the label of those that goroutine was in before it, so that *)
(* the labels are right again when it has gone, and again when those have. *)
(***************************************************************************)
LInv ==
  /\ started \in [Goroutine -> SUBSET (1..Len(traces))]
  /\ tidy \subseteq Goroutine
  /\ \A g, h \in Goroutine : g # h => started[g] \cap started[h] = {}
  /\ \A g \in tidy \ overwritten :
       /\ LabelOf(labels[g], Tagged(g))
       /\ \A t \in Tagged(g) :
            LabelOf(Head(traces[t].oldCtx), {u \in Tagged(g) : u < t})

LEMMA StillLabels ==
  ASSUME LInv, UNCHANGED <<traces, labels, labelled>>
  PROVE  LInv'
<1>1. \A g : Tagged(g)' = Tagged(g)
  BY DEF Tagged, labelled
<1> QED
  BY <1>1 DEF LInv, LabelOf, Latest, labelled

LEMMA StartTraceLabels ==
  ASSUME IInv, LInv, NEW g \in Goroutine, NEW v \in Hash, NEW ctx \in {labels[g], None},
         StartTrace(g, v, ctx)
  PROVE  LInv'
<1> DEFINE n == Len(traces) + 1
           trace == NewTrace(v, ctx)
<1>1. /\ traces' = Append(traces, trace)
      /\ started' = [started EXCEPT ![g] = @ \cup {n}]
      /\ labels' = IF PprofTagging THEN [labels EXCEPT ![g] = n] ELSE labels
      /\ tidy' = IF ctx = labels[g] THEN tidy ELSE tidy \ {g}
      /\ overwritten' = overwritten
  BY DEF StartTrace
<1>2. trace.oldCtx = IF PprofTagging THEN <<ctx>> ELSE <<>>
  BY DEF NewTrace
<1>3. /\ Len(traces) \in Nat /\ Len(traces') = n /\ traces'[n] = trace
      /\ \A t \in 1..Len(traces) : traces'[t] = traces[t]
      /\ labels \in [Goroutine -> Label]
  <2>1. traces \in Seq(Trace) /\ labels \in [Goroutine -> Label]
    BY DEF IInv, Types
  <2> HIDE DEF trace
  <2> QED
    BY <1>1, <2>1
<1>4. \A h \in Goroutine : started[h] \subseteq 1..Len(traces)
  BY DEF LInv
<1>5. /\ \A h \in Goroutine \ {g} : started'[h] = started[h] /\ labels'[h] = labels[h]
      /\ started'[g] = started[g] \cup {n}
      /\ started' \in [Goroutine -> SUBSET (1..Len(traces'))]
  <2> HIDE DEF trace
  <2> QED
    BY <1>1, <1>3, <1>4 DEF LInv
<1>6. \A h \in Goroutine \ {g} : Tagged(h)' = Tagged(h)
  BY <1>3, <1>4, <1>5 DEF Tagged
<1>7. Tagged(g)' = IF PprofTagging THEN Tagged(g) \cup {n} ELSE Tagged(g)
  <2>1. Tagged(g)' = {t \in started[g] \cup {n} : traces'[t].oldCtx # <<>>}
    BY <1>5 DEF Tagged
  <2>2. \A t \in started[g] : traces'[t] = traces[t]
    BY <1>3, <1>4
  <2>3. traces'[n].oldCtx # <<>> <=> PprofTagging
    <3>1. traces'[n].oldCtx = IF PprofTagging THEN <<ctx>> ELSE <<>>
      BY <1>2, <1>3
    <3> HIDE DEF n
    <3> QED
      BY <3>1
  <2> HIDE DEF trace, n
  <2> QED
    BY <2>1, <2>2, <2>3 DEF Tagged
<1>8. ASSUME NEW h \in tidy' \ overwritten'
      PROVE  /\ LabelOf(labels'[h], Tagged(h)')
             /\ \A t \in Tagged(h)' :
                  LabelOf(Head(traces'[t].oldCtx), {u \in Tagged(h)' : u < t})
  <2>1. h \in tidy \ overwritten /\ h \in Goroutine /\ (h = g => ctx = labels[g])
    BY <1>1, <1>8 DEF LInv
  <2>2. LabelOf(labels[h], Tagged(h)) /\ \A t \in Tagged(h) :
           LabelOf(Head(traces[t].oldCtx), {u \in Tagged(h) : u < t})
    BY <2>1 DEF LInv
  <2>3. \A t \in Tagged(h) : t \in 1..Len(traces) /\ traces'[t] = traces[t]
    BY <1>3, <1>4, <2>1 DEF Tagged
  <2>4. CASE h # g
    BY <1>5, <1>6, <2>1, <2>2, <2>3, <2>4
  <2>5. CASE h = g /\ ~PprofTagging
    BY <1>1, <1>7, <2>2, <2>3, <2>5
  <2>6. CASE h = g /\ PprofTagging
    <3>1. labels'[h] = n /\ Tagged(h)' = Tagged(h) \cup {n}
      BY <1>1, <1>3, <1>7, <2>6
    <3>2. LabelOf(n, Tagged(h) \cup {n})
      BY <1>3, <2>3 DEF LabelOf, Latest
    <3>3. Head(traces'[n].oldCtx) = labels[h] /\ {u \in Tagged(h)' : u < n} = Tagged(h)
      <4>1. traces'[n].oldCtx = <<labels[h]>>
        BY <1>2, <1>3, <2>1, <2>6
      <4>2. \A u \in Tagged(h) : u < n
        BY <1>3, <2>3
      <4> QED
        BY <1>3, <3>1, <4>1, <4>2
    <3>4. \A t \in Tagged(h) : {u \in Tagged(h)' : u < t} = {u \in Tagged(h) : u < t}
      BY <1>3, <2>3, <3>1
    <3> QED
      BY <2>2, <2>3, <3>1, <3>2, <3>3, <3>4
  <2> QED
    BY <2>4, <2>5, <2>6
<1>9. \A h, k \in Goroutine : h # k => started'[h] \cap started'[k] = {}
  BY <1>3, <1>4, <1>5 DEF LInv
<1>10. tidy' \subseteq Goroutine
  BY <1>1 DEF LInv
<1> QED
  BY <1>5, <1>8, <1>9, <1>10 DEF LInv

LEMMA DispatchLabels ==
  ASSUME IInv, LInv, NEW g \in Goroutine, NEW t \in DOMAIN traces, NEW s \in SpanKind,
         Dispatch(g, t, s)
  PROVE  LInv'
<1>1. UNCHANGED traces
  BY DEF Dispatch
<1>2. CASE s # "root"
  <2>1. UNCHANGED <<labels, labelled>>
    BY <1>2 DEF Dispatch, labelled
  <2> QED
    BY <1>1, <2>1, StillLabels
<1>3. CASE s = "root"
  <2>1. /\ started' = [h \in Goroutine |-> started[h] \ {t}]
        /\ labels' = IF traces[t].oldCtx # <<>>
                     THEN [labels EXCEPT ![g] = Head(traces[t].oldCtx)] ELSE labels
        /\ tidy' = IF Latest(t, started[g]) THEN tidy
                   ELSE {h \in tidy : h # g /\ t \notin started[h]}
        /\ overwritten' = overwritten
    BY <1>3 DEF Dispatch
  <2>2. /\ labels \in [Goroutine -> Label]
        /\ \A h \in Goroutine : started[h] \subseteq 1..Len(traces)
    BY DEF IInv, Types, LInv
  <2>3. \A h \in Goroutine : Tagged(h)' = Tagged(h) \ {t}
    BY <1>1, <2>1 DEF Tagged
  <2>4. \A h \in tidy' : h \in tidy /\ h \in Goroutine
    BY <2>1 DEF LInv
  <2>5. ASSUME NEW h \in tidy' \ overwritten'
        PROVE  /\ LabelOf(labels'[h], Tagged(h)')
               /\ \A u \in Tagged(h)' :
                    LabelOf(Head(traces'[u].oldCtx), {x \in Tagged(h)' : x < u})
    <3>1. LabelOf(labels[h], Tagged(h)) /\ \A u \in Tagged(h) :
             LabelOf(Head(traces[u].oldCtx), {x \in Tagged(h) : x < u})
      BY <2>1, <2>4, <2>5 DEF LInv
    <3>2. CASE h # g
      <4>1. t \notin started[h]
        BY <2>1, <2>4, <2>5, <3>2 DEF LInv, Latest
      <4>2. Tagged(h)' = Tagged(h) /\ labels'[h] = labels[h]
        BY <2>1, <2>2, <2>3, <2>4, <2>5, <3>2, <4>1 DEF Tagged
      <4> QED
        BY <1>1, <3>1, <4>2
    <3>3. CASE h = g
      <4>1. Latest(t, started[g])
        BY <2>1, <2>5, <3>3
      <4>2. \A u \in Tagged(g) : u <= t /\ u \in Nat /\ t \in Nat
        BY <2>2, <4>1 DEF Tagged, Latest
      <4>3. Tagged(g)' = {u \in Tagged(g) : u < t}
        BY <2>3, <4>2
      <4>4. \A u \in Tagged(g)' : {x \in Tagged(g)' : x < u} = {x \in Tagged(g) : x < u}
        BY <4>2, <4>3
      <4>5. LabelOf(labels'[g], Tagged(g)')
        <5>1. CASE traces[t].oldCtx # <<>>
          <6>1. t \in Tagged(g)
            BY <4>1, <5>1 DEF Tagged, Latest
          <6> QED
            BY <2>1, <2>2, <3>1, <3>3, <4>3, <5>1, <6>1
        <5>2. CASE traces[t].oldCtx = <<>>
          <6>1. Tagged(g)' = Tagged(g)
            BY <2>3, <5>2 DEF Tagged
          <6> QED
            BY <2>1, <3>1, <3>3, <5>2, <6>1
        <5> QED
          BY <5>1, <5>2
      <4> QED
        BY <1>1, <3>1, <3>3, <4>3, <4>4, <4>5
    <3> QED
      BY <3>2, <3>3
  <2>6. /\ started' \in [Goroutine -> SUBSET (1..Len(traces'))] /\ tidy' \subseteq Goroutine
        /\ \A h, k \in Goroutine : h # k => started'[h] \cap started'[k] = {}
    BY <1>1, <2>1, <2>2, <2>4 DEF LInv
  <2> QED
    BY <2>5, <2>6 DEF LInv
<1> QED
  BY <1>2, <1>3

\* A trace put in a second context labels the goroutine that does it anew, and
\* takes the saved context of the goroutine that began it, if that has not sent it.
LEMMA CopyContextLabels ==
  ASSUME IInv, LInv, NEW g \in Goroutine, NEW t \in DOMAIN traces,
         NEW ctx \in {labels[g], None}, CopyContext(g, t, ctx)
  PROVE  LInv'
<1>1. /\ Len(traces') = Len(traces) /\ started' = started
      /\ \A u \in DOMAIN traces : u # t => traces'[u] = traces[u]
      /\ \A h \in Goroutine : h # g => labels'[h] = labels[h]
  BY DEF CopyContext, IInv, Types
<1>2. /\ tidy' = tidy \ {g}
      /\ overwritten' = overwritten \cup {h \in Goroutine : t \in started[h]}
  BY DEF CopyContext
<1>3. ASSUME NEW h \in tidy' \ overwritten'
      PROVE  /\ LabelOf(labels'[h], Tagged(h)')
             /\ \A u \in Tagged(h)' :
                  LabelOf(Head(traces'[u].oldCtx), {x \in Tagged(h)' : x < u})
  <2>1. h \in tidy \ overwritten /\ h \in Goroutine /\ h # g /\ t \notin started[h]
    BY <1>2, <1>3 DEF LInv
  <2>2. started[h] \subseteq DOMAIN traces
    BY <2>1 DEF LInv, IInv, Types
  <2>3. \A u \in started[h] : traces'[u] = traces[u]
    BY <1>1, <2>1, <2>2
  <2>4. Tagged(h)' = Tagged(h) /\ Tagged(h) \subseteq started[h]
    BY <1>1, <2>3 DEF Tagged
  <2>5. /\ LabelOf(labels[h], Tagged(h))
        /\ \A u \in Tagged(h) : LabelOf(Head(traces[u].oldCtx), {x \in Tagged(h) : x < u})
    BY <2>1 DEF LInv
  <2> QED
    BY <1>1, <2>1, <2>3, <2>4, <2>5
<1> QED
  BY <1>1, <1>2, <1>3 DEF LInv

LEMMA NextLabels == IInv /\ LInv /\ [Next]_vars => LInv'
<1> SUFFICES ASSUME IInv, LInv, [Next]_vars PROVE LInv'
  OBVIOUS
<1>1. CASE BeginInit \/ InitClient \/ InitFields \/ InitSampler \/ InitPprof \/ Close
  BY <1>1, StillLabels
     DEF BeginInit, InitClient, InitFields, InitSampler, InitPprof, InitTo, Close, history
<1>2. ASSUME NEW g \in Goroutine, NEW v \in Hash, NEW ctx \in {labels[g], None},
             StartTrace(g, v, ctx)
      PROVE  LInv'
  BY <1>2, StartTraceLabels
<1>3. ASSUME NEW g \in Goroutine, NEW t \in DOMAIN traces, NEW ctx \in {labels[g], None},
             CopyContext(g, t, ctx)
      PROVE  LInv'
  BY <1>3, CopyContextLabels
<1>4. ASSUME NEW g \in Goroutine, NEW t \in DOMAIN traces, FlushStart(g, t)
      PROVE  LInv'
  BY <1>4, StillLabels DEF FlushStart
<1>5. ASSUME NEW g \in Goroutine, NEW t \in DOMAIN traces, NEW isAsync \in BOOLEAN,
             StartChild(g, t, isAsync)
      PROVE  LInv'
  BY <1>5, StillLabels DEF StartChild
<1>6. ASSUME NEW g \in Goroutine, NEW t \in DOMAIN traces, NEW s \in SpanKind,
             \/ Send(g, t, s) \/ Lock(g, t, s) \/ Skip(g, t, s)
             \/ \E kept \in BOOLEAN : DecideByHook(g, t, s, kept)
             \/ Decide(g, t, s) \/ SetRate(g, t, s)
      PROVE  LInv'
  BY <1>6, StillLabels DEF Send, Lock, Skip, DecideByHook, Decide, SetRate, history
<1>7. ASSUME NEW g \in Goroutine, NEW t \in DOMAIN traces, NEW s \in SpanKind,
             Dispatch(g, t, s)
      PROVE  LInv'
  BY <1>7, DispatchLabels
<1>8. ASSUME NEW g \in Goroutine, FlushEnd(g)
      PROVE  LInv'
  BY <1>8, StillLabels DEF FlushEnd
<1>9. CASE UNCHANGED vars
  BY <1>9, StillLabels DEF vars, history, flushes, labelled
<1> QED
  BY <1>1, <1>2, <1>3, <1>4, <1>5, <1>6, <1>7, <1>8, <1>9 DEF Next

\* A goroutine that begins its traces in the context it runs in, and sends the last
\* one first, has the labels of the innermost trace it has not sent, and in the end
\* those it had before; however many of them there are, and whatever other
\* goroutines do with its spans or with traces of their own; but not once a trace
\* it has begun is put in a second context (PutTraceInContext, the end of Span.Send).
THEOREM Relabelled == Spec => []LabelsRestored
<1>1. Init => LInv
  BY DEF Init, LInv, Tagged, LabelOf
<1>2. LInv => LabelsRestored
  BY DEF LInv, LabelsRestored, Tagged, LabelOf
<1> QED
  BY <1>1, <1>2, NextLabels, Invariant, PTL DEF Spec

===============================================================================
