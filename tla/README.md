# A verification of beeline-go

TLA+ models of the Honeycomb Beeline for Go, the TLC configurations that check
them on small instances, and proofs, checked by TLAPS, for instances of any size.
Paths are relative to the root of the repository.

Contents: [the system](#the-system), [plan](#plan), [modules](#modules),
[runs](#runs), [seeded faults](#seeded-faults), [proofs](#proofs),
[findings](#findings), [what is not modelled](#what-is-not-modelled).

## The system

An application calls `beeline.Init` once. After that its requests make *traces*.
A trace is a tree of *spans*, and each span becomes one event, which the libhoney
client queues for Honeycomb. Wrappers make the spans: of HTTP and gRPC handlers
and clients, of routers, and of database handles. A header links the trees that
one request makes in several processes.

| Component | Source | State | Operations |
|---|---|---|---|
| Span lifecycle | `trace/trace.go` | per trace: root, trace-level fields, rollups; per span: parent, children, event, `isSent`, `isAsync`, rollups, and five locks | `NewTrace`, `CreateChild`, `CreateAsyncChild`, `AddField`, `AddTraceField`, `AddRollupField`, `GetChildren`, `Send`, `sendByParent`, `Trace.Send` |
| Trace in context | `trace/context.go` | the current trace and span in a `context.Context`, pprof labels of the goroutine | `PutTraceInContext`, `PutSpanInContext`, `CopyContext` |
| Client | `client/client.go` | the process-wide libhoney client | `Set`, `Get`, `Close`, `Flush`, `TxResponses`, `NewBuilder` |
| Init, Flush, Close | `beeline.go` | `trace.GlobalConfig` (hooks), default sampler, the debug reader's goroutine | `Init`, `Flush`, `Close`, `AddField`, `StartSpan` |
| Sampler | `sample/deterministic_sampler.go` | rate and upper bound | `NewDeterministicSampler`, `Sample` |
| Propagation | `propagation/*.go` | none: a context is made from a header, and a header from it | Honeycomb, W3C, B3 and Amazon marshalling and unmarshalling, trace state |
| HTTP and gRPC wrappers | `wrappers/common/common.go`, `wrappers/hnynethttp`, `wrappers/hnygrpc` | the recorded status, one span per request | handler, client round trip, interceptor |
| Router wrappers | `wrappers/hnygoji`, `hnygorilla`, `hnygingonic`, `hnyecho`, `hnyhttprouter` | as above | middleware |
| Database reports | `wrappers/common/common.go` | one event or span per call | `BuildDBEvent`, `BuildDBSpan` and the sender they return |
| database/sql, sqlx, pop wrappers | `wrappers/hnysql`, `hnysqlx`, `hnypop` | a builder per handle; for pop, one transaction | every method of `DB`, `Conn`, `Tx`, `Stmt`, `NamedStmt` |

How they interact. Wrappers and the application make spans by direct calls, on
any goroutine. A span reads the global hooks when it is sent, and calls the user's
sampler and presend hook while it holds its event lock. The libhoney client is
shared through package `client`. Contexts carry the current span; a context
copied to another goroutine shares it. Nothing is persisted, so there is no
recovery. What comes in from other processes is a header, once per request.

What is hard, component by component, and what makes it correct:

- **Span lifecycle.** Any goroutine may create a child of, write to, or send any
  span at any time. `Send` holds the span's `sendLock` while it sends the spans
  below it, so locks nest as deep as the tree. Correct means: each event is
  handed over at most once; a synchronous child goes before its parent; an
  asynchronous one is left alone; no cascade deadlocks; a sent span leaves its
  parent's children, which live in a slice that is shifted in place and handed
  out without a lock; what the sampler saw is what is sent; fields and rollups
  written on a trace reach the events they should.
- **Trace in context.** The labels a goroutine had before the trace must be
  those it has after. The context that holds them is overwritten on each copy.
- **Init, client, sampler.** A second `Init` must not keep half of the first. All
  spans of a trace must share one sampling decision. Rates are cut to 32 bits.
- **Propagation.** What one process writes the next must read as the same trace,
  and a header that is no such thing must not be read as one.
- **HTTP and gRPC.** One span per request, ended on panics too, linked to the span
  that the header names, also when a request is retried.
- **Database wrappers.** The event of a call must name the connection,
  transaction and statement it was made on, the query and the error. Each of
  about 150 methods does this by hand.

`PROJECT.json` lists each hazard at its line with the properties that cover it.

## Plan

Done in this order, the most important behaviour first:

1. `SpanLifecycle`, the promise of a span's life, and `SpanTree`, its
   implementation with goroutines and locks; `SpanTreeImplements` is the
   refinement mapping, `SpanTreeProofs` and `SpanDataProofs` the theorems.
2. `SpanChildren`, the slice that `SpanTree` takes for a set; `SpanChildrenProofs`.
3. `DatabaseCalls`, the reports of the database wrappers; `SqlCalls` and
   `SqlxCalls` are its two instances; `DatabaseCallsProofs`.
4. `TraceState` and `Propagation`, the header formats, and `HeaderRelay`, a trace
   on its way through processes that use them; `HeaderRelayProofs`.
5. `ServiceCalls`, services that call one another through the wrappers, on top of
   `Propagation`; `ServiceCallsProofs`.
6. `Sampler` and `Beeline`: repeated `Init`, client, hooks, sampler, `Flush`, `Close` and
   the labels of goroutines; `SamplerProofs` and `BeelineProofs`.

What would come next: the `pop` wrapper on top of `SqlxCalls`, and that a step of `SpanChildren` is one
of the set of children in `SpanTree`.

## Modules

### SpanTree: `trace/trace.go`

One action per critical section. A variable per field of `Span` and `Trace`
keeps the field's name.

| Code | Action |
|---|---|
| `createChildSpan` | `CreateChild`: looks at neither `isSent` nor `sendLock`, as the code does not |
| `Span.AddField`, `AddFields` | `AddField`: waits for `eventLock`; ignored once libhoney has the event |
| `Trace.AddField`, `Span.AddTraceField` | `AddTraceField` |
| `Span.AddRollupField` | `AddTraceRollup` then `AddSpanRollup`: two locks, hence two steps |
| `Send`, `Trace.Send` | `CallSend`, `TraceSend` |
| the lock and the test of `isSent`, `sendByParent` too | `Acquire`, `SkipSent` |
| `sendLocked` up to the children | `Finish` |
| `childrenToSend` collected under `childrenLock` | `Snapshot` |
| the loop over it | `SendChild`, `ChildrenSent` |
| `send`: trace-level fields; type and totals; sampler; presend and dispatch | `CopyTraceFields`; `Classify`; `Sample`; `Dispatch` or `Drop` |
| `isSent = true` | `Mark` |
| `removeChildSpan`, and the deferred unlock | `Unlink` |

A goroutine inside `Send` has one stack frame per span from the one it called
`Send` on (`base`) down to the one it is at (`at`). The frames between are the
path in the tree, so they need no stack variable: a frame returns to its parent's
span. Because `childrenToSend` is a local, and a span is in `sendLocked` on one
goroutine only, it is stored per span. Data is a count: `traceFields` is the
number of writes so far, so a copy of the map is a number, and "the child has a
field its parent lacks" is a comparison. Contributions to a rollup are numbered in the order the trace
adds them: the trace's rollup is the number of the last, a span's the set of its own, and `adding` is the one
a goroutine has given to the trace and not yet to the span. The history variables `snapped`, `late`,
`depth` and `sampled` are read by properties only.

`SpanLifecycle` has no locks, goroutines or lists. A span is open, closing or
finished. It finishes after the children attached to it, delivered once or, if
dropped, never. A child is detached when it is asynchronous or came late.
`SpanTreeImplements` maps `SpanTree` to it: closing begins when `childrenToSend` is
collected, finished is when the event has been dispatched or dropped, which is
before `isSent` says so.

### SpanChildren: the slice

`heap` is a sequence of arrays; a slice is an array and a length. `Appended` writes in
place while there is capacity and moves to a doubled array otherwise; `Removed` is
`append(a[:i], a[i+1:]...)`, which shifts in place. The cascade copies
(`CopyOfSync`: the places of the synchronous children, `Ascending`); `GetChildren` does not, and reads the header without a lock: a data
race, so its two words are loaded in two steps in either order. A walk that this
leads beyond the end of an array is `"wild"` and claims nothing. The rest of a Send
is `SpanTree`'s matter, so here a child is open, marked or gone.

### DatabaseCalls, SqlCalls, SqlxCalls: the database wrappers

Each method of the wrappers has the same shape: build a report from the
receiver's builder, clone a builder if a handle is made, make the wrapped call,
and report from a deferred function. `DatabaseCalls` has that shape as four actions
(`Use` or `Make`, `Database`, `Report`, `Return`) on any number of goroutines. A fifth,
`SentByParent`, is what may happen to a span (`BuildDBSpan`) while its call is out: its parent is
sent, and takes it along, so the `AddField` of the error comes too late. A parent sent between the
`CreateChild` of the report and the last `AddField` before the call, which would cost it an ID, is left out. How
methods differ is a record: its receiver, what it makes, whose builder it clones,
whether the new builder gets an ID and the query, whether the report is a span,
what becomes of the error, and whether it is evaluated before the call. `SqlCalls` and `SqlxCalls`
list the records in the order
of the source; methods that do not differ in this coincide. So `Stmt.Close` of
sqlx is a record with `early |-> TRUE`, for its `defer sender(err)`,
and `Tx.Stmt` one that clones the argument's builder and names nothing.

An ID is the handle it was made for. `builder` holds the IDs under the keys `"conn"`,
`"tx"` and `"stmt"`; a key of another spelling is no key. `Make` writes the new builder
before the wrapped call, as the code does; a handle whose call failed is not used
(the application has an error instead).

### TraceState, Propagation, HeaderRelay: the headers

`TraceState` is `propagation/tracestate.go`: `ParseTraceState`, `Insert` and `Delete` on a
sequence of members; a member that is not valid, or does not fit in, leaves the state as it was. `Propagation` has, for each format, the function that
writes a header and the one that reads it, as functions from a context to a
record of the header's parts and back. A header is not a string here: a record
says which parts it has and what they are made of (an ID of 32 or of 16 digits,
all zeros, something else, nothing), since that is all the code asks. What a
conversion changes is kept: JSON makes floats of whole numbers and gives up on a value it
cannot encode, with all the others; the Amazon format makes a text of every value, and reads a
field called `root`, `parent` or `self`, in any case of letters, as an ID (names that differ in case are one here); B3 pads short trace IDs; W3C writes nothing for IDs it
does not fit. A read function returns a context, perhaps with an error, as
some callers use the context anyway (`wrappers/common/common.go:73`). A Honeycomb header that is
`cut` off, with nothing behind its version or behind the name of a clause, makes
the reader panic (`HoneycombPanics`).

`HeaderRelay` composes them. A trace begins in a process (`Begin`) or in a program that is no beeline
(`Foreign`, with well-formed and broken headers); a process sends a header in any format (`Send`),
the next reads it (`Receive`) or panics at it (`Panic`), relays what it read or starts a trace of its own from it
(`Continue`, the part of `NewTrace` and `propagationContext` that matters here), and edits
the trace state (`Enter`, also with a member that is not valid, `Leave`). A load balancer may change an Amazon
header on the way. `untouched` is history: the members of the first trace state whose keys nobody has
entered or left.

### ServiceCalls: the HTTP, gRPC and router wrappers

| Code | Action |
|---|---|
| `StartSpanOrTraceFromHTTP`, `startSpanOrTraceFromUnaryGRPC`, without a span in the context | `Arrive` from elsewhere, `Deliver` of a call; both `StartSpanOrTrace` |
| the same with one: a wrapped handler in a wrapped handler | `Wrap` |
| `ResponseWriter` of `wrappers/common` | `WriteHeader`, `Write`, `WriteInformational` |
| the rest of a handler wrapper after `ServeHTTP`, `Next` or the handler | `Return`, and `Panic` for the deferred part alone |
| `spanRoundTrip`, `eventRoundTrip`, `UnaryClientInterceptorWithConfig` | `Call`, `CallUntraced` and, after the inner round trip, `EndCall` |
| what an application does with headers it got | `Forward` |

A wrapper is what it knows of the response: a `recorder` of codes, the status of
the `framework` (gin, echo), or the error of a `grpc` handler. Calls are delivered never,
once or several times, in any order, also after the caller has returned; the
request of an earlier attempt is made again with the headers it has by then. A call made in a context
without a span, HTTP or gRPC, goes out with what its request or metadata has (`CallUntraced`). A header that
panics ends its request before it has a span. Spans
are sent as `SpanTree` proves they are, in one step, with the open spans below. The headers
are those of `Propagation`.

### Sampler, Beeline: what a process shares

`Sampler` is the arithmetic of `sample/deterministic_sampler.go` at words of any width `W`;
the hash of an ID is a parameter. `Beeline` has the package variables
of `client`, `sample` and `trace` and, step by step, the `Init` that sets them. Between two of
those steps goroutines go on:

| Code | Action |
|---|---|
| `Init` | `BeginInit`, `InitClient`, `InitFields`, `InitSampler`, `InitPprof`; the division by a rate that is 0 in 32 bits ends the process |
| `NewTrace`, with `PutTraceInContext` | `StartTrace`; the labels the context has may or may not be those of the goroutine |
| `CopyContext` | `CopyContext` |
| `CreateChild`, `CreateAsyncChild` | `StartChild`: at any time, as the code looks at nothing |
| `Send` | `Send`, `Lock` (or `Skip`), `DecideByHook` or `Decide` and `SetRate`, `Dispatch`: the reads of a global variable are steps of their own |
| `Flush` | `FlushStart`, the Send of the root, `FlushEnd` |
| `Close` | `Close` |

A trace has its root and at most one child, begun before, while or after the root is sent; larger
trees are `SpanTree`'s. The rest is history: for `Flush` the spans that were active when it was called, what the last
one to return did (`active`, `flushed`), and which children were begun too late for the
root's cascade (`late`); for the labels the traces begun on each goroutine, the goroutines that end the last one first in
contexts of their own (`started`, `tidy`), and those one of whose traces was put in
a second context (`overwritten`). `CopyContext` changes the labels of its own goroutine and the `oldCtx` of its trace, no
more, and marks the goroutine whose `oldCtx` it was.

## Runs

Checked with `tlc -config X.cfg M`; figures are distinct states.

| Run | Instance | States | Shows |
|---|---|---|---|
| `spantree_lifecycle` | 3 spans, 3 goroutines | 217 thousand | no double send, loss, leak or deadlock; children before parents; async left alone; lock order; leaves |
| `spantree_data` | 2 spans, 2 goroutines, 1 field per span and 1 per trace, 2 rollups | 941 thousand | what an event carries: sampled is sent, fields reach parents, totals cover parts |
| `spantree_fair` | 3 spans, 2 goroutines | 247 thousand | every Send returns; the refinement, safety and liveness |
| `span_children` | 3 children, 1 walker | 636 thousand | the slice is the set `SpanTree` takes it for; the cascade reaches all it queued; how far a walk is reliable; retention is bounded |
| `span_children_released` | as above | violation | a sent span stays referenced |
| `sql_calls` | 3 handles beside the database, 2 queries, 2 goroutines | 2.0 million | reports name handles and queries |
| `sql_calls_adopted` | the same, 1 goroutine | violation | statements bound by `Tx.Stmt` do not name the transaction |
| `sqlx_calls` | 3 handles, 1 query, 2 goroutines | 2.6 million | reports name handles and transactions |
| `header_relay` | 3 hops, 2 IDs of each length, the fields `user`, `root` and `self`, 3 keys, trace states of up to 3 entries with 2 allowed | 253 thousand | through any chain of formats: no other trace is continued, parents are senders, sampling decisions and fields survive, trace states conform and are refused whole or not at all |
| `service_calls` | 3 handlers, 2 operations before the returns, 4 spans, every wrapper, 2 kinds of foreign request | 401 thousand | spans are in their parent's trace and below the call they serve; events carry outcome and status; every span is sent in the end |
| `service_calls_http` | the same | violation | a request made again puts the second service below the first attempt |
| `beeline` | words of 3 bits, 2 goroutines, 2 clients, plans of one or two `Init`s out of 4 configurations, 2 traces, 4 calls | 1.7 million | whose client and name events have, what a Flush that returns has done, which sampling decisions agree, whose labels a goroutine has |

**Bounds, and why they are enough.** Three spans give a root, a chain of two below it or two
siblings, each synchronous or asynchronous: a cascade within a cascade, and one
that meets another from below or beside. Three goroutines give a Send of a parent, of its
child and a third call in between. With data, two spans show a parent and a child;
two rollups show a loss; one field of each kind shows a wrong order. For the slice, capacities
grow 1, 2, 4, so three children exercise both appends in place and moves, and a
removal in front, middle and end. Three handles make the longest chain there is, connection, transaction,
statement, or two transactions with a statement passed between them. Three
hops are a context read, relayed, read again and sent on, so each format meets each
other in both directions. Trace states reach one entry beyond the allowed length (`maxListMembers` is 32
in the code; no definition depends on the number), and there is one key more than that length: a list of
three different keys is too long and nothing else, and `Insert` meets a full list that lacks its key, so it is the limit
that decides. With three handlers, two operations and four spans there is a call and its
retry with one of them served, one call delivered twice, a call out of a nested wrapper, a call from a
handler that serves one, or two codes written; a call and its retry, both
served, would take a fifth span.
Two `Init`s show what one leaves behind for the next: `MCBeeline`'s plans change client,
name, rate, hook and tagging, and include the rate that is 0 in a word; one hash that is kept
at one of the rates and not at the other is enough to tell the decisions apart. Four calls are a trace with its child,
sent by two goroutines or flushed by them. `MaxFields`,
`MaxRollups`, `MaxAdds`, `MaxHops`, `MaxForeignState`, `MaxHandlers`, `MaxOps`, `MaxTraces` and `MaxCalls` bound counters in guards; they are 0 where no property of the
run reads data. Symmetry is used in safety runs only, over sets of which no definition
names a member. Deadlock is checked wherever the system goes on; in `SpanChildren`
the set of children is used up and the walk ends, and in `HeaderRelay`, `ServiceCalls` and
`Beeline` the bounds are, so they may stop.

**Fairness.** `FairSpec` has weak fairness of `Step(t)` for each goroutine: Go runs every
runnable goroutine, and hooks are assumed to return. Nothing is assumed of `Call(t)`: the
application need not call anything. Weak fairness suffices although locks are waited for:
a `sendLock` is held for sending once in the life of a span, and afterwards `SkipSent` takes and
frees it in one step, so a goroutine that waits is enabled for good in the end.

`ServiceCalls` has weak fairness of the end of each handler, by a return or a panic, and of the end of each
call, by an answer or an error: handlers and round trips are assumed to end, as a server's do, and
nothing is assumed of arrival, delivery or anything else a handler might do. `SpansEnd` needs no
more, because a span that its own end does not send goes with its parent.

## Seeded faults

Each property of a passing run is violated when one definition is replaced by the
faulty form that stands beside it in its module (section "Seeded faults").

| Fault | In place of | Bug | Violates |
|---|---|---|---|
| `UnlinkUp` | `Unlink` | a cascade returns one frame too far | `TypeOK` |
| `AcquireUnlocked` | `Acquire` | `isSent` tested without the lock | `SentOnce` |
| `UnlinkSiblings` | `Unlink` | siblings removed as well | `SyncChildrenGoFirst` |
| `SnapshotAll` | `Snapshot` | asynchronous children queued | `AsyncOutlivesParent` |
| `UnlinkNothing` | `Unlink` | child not found | `LinkedUntilSent` |
| `UnlinkLocked` | `Unlink` | a path without unlock | `LocksGoDown` |
| `TypeOfSyncOnly` | `TypeOf` | only synchronous children counted | `LeafHasNoOpenChild` |
| `AddFieldUnlocked` | `AddField` | no event lock | `SampledIsSent` |
| `ChildrenSentEarly` | `ChildrenSent` | the loop stops early | `FieldsReachParents`, `ImplementsFairLifecycle` |
| `AddTraceRollupRacy` | `AddTraceRollup` | no rollup lock | `RollupCovers` |
| `DropRetries` | `Drop` | a dropped event is sampled again | `SendReturns` |
| `AcquireUnchecked` | `Acquire` | `isSent` not tested under the lock | `ImplementsLifecycle` |
| `CopyAfterNils` | `CopyOfSync` | the copy made with a length, then appended to | `TypeOK` |
| `RemovedLate` | `Removed` | off by one in the shift | `ListsLinked` |
| `CopyOfAlias` | `CopyOfSync` | the cascade walks the slice itself | `CascadeReachesQueued` |
| `AppendedInFront` | `Appended` | new children go first | `WalkSeesLinked` |
| `RemoveNothing` | `RemoveChild` | child not found | `RetentionBounded` |
| `ReturnDropsReceiver` | `Return` | an error closes the receiver under other calls | `TypeOK` |
| `WithBuilderShared` | `WithBuilder` | a builder shared, not cloned | `ReportNamesHandles` |
| `MadeFieldsForgetful` | `MadeFields` | the query not kept | `ReportNamesQuery` |
| `MadeFieldsNameless` | `MadeFields` | the ID only on the report | `ReportNamesTransaction` |
| `InsertUnlimited` | `Insert` | the limit tested off by one | `ReadsConform` |
| `ParseTraceStateTruncated` | `ParseTraceState` | a list that is too long cut short | `StateWhole` |
| `ServiceContextFresh` | `ServiceContext` | a trace ID made whatever was read | `OneTrace` |
| `AmazonParentFirst` | `AmazonParent` | `Parent` preferred to `Self` | `ParentIsSender` |
| `B3SamplingHeadersAlways` | `B3SamplingHeaders` | debug and deferred not written | `SamplingKept` |
| `HoneycombContextPicked` | `HoneycombContext` | what cannot be encoded left out, the rest sent | `FieldsKept` |
| `TraceOfFresh` | `TraceOf` | the header's trace ID ignored | `ParentInTrace` |
| `CallHeaderOfCaller` | `CallHeader` | the handler's span in the header, not the call's | `ChildOfCaller` |
| `CallEndedUnseen` | `CallEnded` | the error of a gRPC call not looked at | `EventsComplete` |
| `RecordedLast` | `Recorded` | each code recorded | `StatusAgrees` |
| `SentByPanicNone` | `SentByPanic` | no `defer` | `SpansEnd` |
| `UnlockedNever` | `Unlocked` | the lock not given up | `TypeOK` |
| `NewEventOfClient` | `NewEvent` | the client of the moment, not of the trace | `EventsNamed` |
| `FlushReadyAtOnce` | `FlushReady` | no wait for the spans to be sent | `FlushDelivers` |
| `DeterminantOfSpan` | `Determinant` | the span's ID sampled, not the trace's | `RelatedDecisions` |
| `NewTraceLabelled` | `NewTrace` | labels saved after they were set | `LabelsRestored` |

## Proofs

`SpanTreeProofs` proves, for every set of spans and of goroutines and every bound:

| Theorem | States |
|---|---|
| `TypeCorrect` | `Spec => []TypeOK` |
| `AtMostOnce` | `Spec => []SentOnce` |
| `ChildrenFirst` | `Spec => []SyncChildrenGoFirst` |
| `AsyncUntouched` | `Spec => []AsyncOutlivesParent` |
| `NeitherLostNorKept` | `Spec => []LinkedUntilSent` |
| `LockOrder` | `Spec => []LocksGoDown` |
| `LeavesAreLeaves` | `Spec => []LeafHasNoOpenChild` |
| `Implementation` | `Spec => ImplementsLifecycle` |

They assume what `SpanTree` assumes of its constants: the root is a span, nil is
not, "no owner" is not a goroutine, bounds are natural numbers. Sets may be infinite.

The argument. None of these is inductive by itself. `SentOnce` needs that the
goroutine which dispatches holds the `sendLock`; that a lock is held by a goroutine
whose frames it belongs to needs the shape of a stack, which `SpanTree` does
not store. The inductive invariant `IInv` has five parts.

- `TypeOK`.
- `TreeInv`: a child's parent exists and is one less deep; lists hold children only.
- `LockInv`: the frame a goroutine is in holds its lock, and its parent's if it
  was entered by a cascade (`FrameInv`). A lock a goroutine holds lies between
  its first frame and its last, and no two of them have the same depth (`HeldInv`).
  So the frames form a chain, and `Return` lands in a frame whose lock is held. This
  says by `depth` what would otherwise need induction over paths.
- `SendInv`: what has been done to a span at each stage; that the frames which wait
  have collected their children and not yet been sent; that what has left
  `unvisited` is sent or is being sent.
- `ChildInv`: the lists of children and the events, as seen from the children.

Each part is preserved by each action, one step per action, and `THEOREM
Implementation` maps each action to a step of `SpanLifecycle` or to a stutter, given `IInv`.

`SpanDataProofs` adds to `IInv` what a goroutine has seen and copied of the data:

| Theorem | States |
|---|---|
| `SampledDispatched` | `Spec => []SampledIsSent` |
| `FieldsReach` | `Spec => []FieldsReachParents` |
| `TotalsCover` | `Spec => []RollupCovers` |

The sampled fields are those of the event as long as the `eventLock` is
held; the trace-level fields of a child that has gone were copied before its parent copies its own,
and a trace's fields only grow. Whatever a goroutine has in hand, a span has summed or an event
reports, the trace has; and once the root has read the total (`Totalled`), every other span of its cascade
is sent and nothing in the cascade changes any more (`RollupInv`). "The spans below" is the least set with
the root and what its members have queued (`CascadeOf`), so the proof needs no
induction over the tree: the root with all sent spans is one such set when the root reads.
TLC has checked `RollupInv` on the instance of `spantree_data`.

`SpanChildrenProofs` proves of the children slice, for any finite set of children and any set of
walkers:

| Theorem | States |
|---|---|
| `SlicesTyped` | `Spec => []TypeOK` |
| `LinkedListed` | `Spec => []ListsLinked` |
| `CascadeComplete` | `Spec => []CascadeReachesQueued` |
| `WalkComplete` | `Spec => []WalkSeesLinked` |
| `RetainedBounded` | `Spec => []RetentionBounded` |

They assume no more than that nil is no child. The invariant (`IInv`) speaks of places of arrays rather than of
the lists they make: the slice has at each place a linked child and each linked child at one place only (`Listed`,
`Once`); the queue of the cascade is in an array of its own (`NoAlias`), which is why the
shift in place does not disturb it; what the queue has not reached is still behind its index
(`QueueInv`); the array holds nothing beyond the longest the slice has been (`PeakInv`); and for a walk no removal has met, each child
linked when it began has a place it keeps, in the array and below the length the walk has read, and has been
seen if the walk is past it (`WalkInv`). The lemmas say what `Appended`,
`RemoveChild` and `CopyOfSync` do to places, that a set of numbers has an ascending listing
(`AscendingExists`, by well-founded induction on a set of natural numbers), and that the
slice has as many places as there are linked children (`LinkedCounted`).

`SamplerProofs` proves of the sampler's arithmetic, for words of any width `W > 1`:

| Theorem | States |
|---|---|
| `NestedRates` | what is kept at a rate (below `W`) is kept at each smaller one |
| `ShareKept` | the bound keeps `k` words of `W` with `r * (k - 1) < W <= r * k`, one in `r` rounded up |

`BeelineProofs` proves, for any set of goroutines, clients, configurations,
plans and hashes, and any bounds:

| Theorem | States |
|---|---|
| `Named` | `Spec => []EventsNamed` |
| `Related` | `Spec => []RelatedDecisions` |
| `Typed` | `Spec => []TypeOK` |
| `Flushed` | `Spec => []FlushDelivers` |
| `Relabelled` | `Spec => []LabelsRestored` |

They assume that hashes are words, configurations are of their type, a plan is a sequence of
them, nil is no goroutine, configuration or sampler, and `MaxCalls` is a number.
`EventsNamed` speaks of events, and the invariant (`IInv`) of what is between an `Init` and an
event: once an `Init` is past a step, the variable that step sets agrees with its
configuration (`InitAgrees`); a trace begun when no `Init` is under way has the settled
client and name (`TraceNamed`); its spans have the trace's (`SpanNamed`). For
`RelatedDecisions` a decision must be that of a sampler of the rate it was made at, which may no longer
be the global one (`SpanDecided`), and a span that waits for its rate has a sampler to
ask (`SpanRated`); the rest is `NestedRates`. It does not say that decisions about one trace are equal: while two `Init`s
set two rates they need not be (`WholeTraces`). `FlushDelivers` needs the shape of what a goroutine has still to
send: nothing, a span, or a child and then the root it holds (`QueueInv`); then a root that has been
sent has its child behind it, whoever sent that, unless the child is asynchronous or was begun when the root was no longer
open (`LeftAlone`, which reads `late`); a child begun later still is such a one, so this stays so while the Flush goes on
to the client (`FlushedInv`). `LabelsRestored` speaks of the label a goroutine has
now; the invariant (`LInv`) also of those it will have: the context saved with each of its traces has the label of
the trace begun before it, and no trace is begun on two goroutines. It is of the goroutines whose traces
were put in one context only (`tidy \ overwritten`); what others copy or send is no exception. TLC has checked `IInv`, `FInv` and `LInv` on the
instance of the run `beeline`.

`HeaderRelayProofs` proves, for any sets of IDs, fields and trace state members, any limit on them and
any number of hops:

| Theorem | States |
|---|---|
| `ReadsAlwaysConform` | `Spec => []ReadsConform` |
| `TraceStaysOne` | `Spec => []OneTrace` |
| `ParentSent` | `Spec => []ParentIsSender` |
| `SamplingStays` | `Spec => []SamplingKept` |
| `FieldsStay` | `Spec => []FieldsKept` |

They assume that the IDs of different lengths differ and pad as the code pads them,
headers from outside are of the types of the formats and B3 comes in one of its two forms, and there
is someone else in the world to be a load balancer or a vendor (`Other`). Fields may have any names: `OneTrace` and
`ParentIsSender` except, in their statements, a field `root`, or `parent` or `self`, that has been in an Amazon header
(`Misnamed`), and nothing else of such a trace. Each unmarshal
function has a lemma that says what its result owes to the header (`Sound`: its IDs, its fields
or none, no parent without a trace, a trace state that conforms), each marshal function
one that says what the header owes to the context. `Conforms` is kept by `Insert` and `Delete`,
which is a matter of indices (`DeleteConforms`, `InsertConforms`). The invariant (`IInv`) puts
them together: the IDs on the wire are the trace's or missing, the fields on it are what the
format leaves of the sender's, and the wire belongs to the sender. TLC has checked it on the instance of
`header_relay`.

`ServiceCallsProofs` proves, for any requests from elsewhere, any sets of IDs, codes and fields and any number
of handlers and calls:

| Theorem | States |
|---|---|
| `TraceWhole` | `Spec => []ParentInTrace` |
| `ServedBelowCaller` | `Spec => []ChildOfCaller` |
| `EventsWhole` | `Spec => []EventsComplete` |
| `StatusOfClient` | `Spec => []StatusAgrees` |

They assume that a header from elsewhere names none of the IDs this program makes (they are
random, and are taken to be unique), that `200` and `500` are codes and "no outcome" and "still out" are not, and what
`Propagation` assumes of IDs. The steps come down to nine things that are done to spans,
handlers and calls (`Effect`), each of which keeps what others have read of a span: its trace, parent and
place (`Kept`). The invariant is in six parts. `Base`: the wrappers around a running handler are at most two, and
their spans are open, of that handler, and one below the other, so whatever another handler or a
call sends cannot take them along. `TraceInv`: an ID of this program in a
header, still on its way or left in a request, is that of a span that exists, with that span's
trace (`Known`). `CallerInv`: the header a handler goes on adding to is empty or begins with one of its earlier HTTP
calls, so the one read is the call's own, or that of an earlier attempt. `OutcomeInv`: who may go without an outcome
(`Excused`: the span of a call, or of a handler that panicked). `ResultInv`: no two calls have a span in common, and the
span of a call that was sent by itself says how that call ended, an error of a gRPC call included. `EndInv`: the status of the outer wrapper is what is committed to the client
(`HandlerEnds`), and a handler's event has what it returned with.

`DatabaseCallsProofs` proves of the two database wrappers, for any sets of handles, queries and goroutines:

| Theorem | States | Of |
|---|---|---|
| `ReportsTyped` | `TypeOK` | both |
| `HandlesNamed` | `ReportNamesHandles` | both |
| `QueriesNamed` | `ReportNamesQuery` | database/sql |
| `TransactionsNamed` | `ReportNamesTransaction` | sqlx |

They assume that the database is a handle and that "no handle" and "no query" are none. The argument
does not look at the methods: it holds for any set of them with a certain shape
(`Shape`: a connection is made on a database, a transaction on a database or a connection, a statement on any of the
three; what is made gets an ID unless it takes over a statement; with `KeepsQuery` and
`KeepsTransaction` for the last two). The invariant `IInv` says of each builder that its
IDs are those of the handles it was made on and that the places of the kinds below it are free (`Slots`); that is
why a new ID overwrites none. It also says that a handle in the making belongs to one call, so no
other step touches it. `QInv` and `TInv` add the query and the transaction. `SqlShape` and `SqlxShape`
then show, group by group, that the methods have the shape; those of database/sql do not
`KeepsTransaction` and those of sqlx do not `KeepsQuery`, which is the divergence of `sql_calls_adopted` and the
hazard at `wrappers/hnysqlx/sqlx.go:575`. TLC has checked all three invariants on both.

TLC has checked the invariants of `SpanChildrenProofs` and `ServiceCallsProofs` too, on the instances of `span_children` and `service_calls`.

Only model-checked: liveness (`SendReturns`, `ImplementsFairLifecycle`, `SpansEnd`), as fairness
and ENABLED are beyond TLAPS; and `StateWhole`, as what `SelectSeq` and `RemoveAt` keep of a list's
members needs induction over the list. Every other invariant of the passing runs is stated by a theorem.

## Findings

Shown by a run:

1. **Sent spans are retained** (`span_children_released`). `removeChildSpan` leaves
   the last pointer in the array; `trace/trace.go:396` says the span is removed "so
   that it can be GC'd". `RetentionBounded` shows that the number retained is no
   more than were open together.
2. **Statements bound to a transaction do not name it** (`sql_calls_adopted`).
   `wrappers/hnysql/sql.go:744` writes and reads `db.txid`; `Begin` set `db.txId`.
3. **A service that is asked again is put below the first attempt** (`service_calls_http`).
   `spanRoundTrip` adds its header to those of the request, which an earlier attempt has
   left there, and the first value is read. `trace/doc.go:69` promises a child of
   the span that made the call. `ChildOfCaller` shows that the gRPC wrapper does not have this.


Refuted by TLC, without a run of their own. Each is a formula of its module, the doc or comment
taken at its word; `INVARIANT` and its name, added to a copy of the configuration, shows
the behaviour. What the runs check beside it says how far the code goes.

| Formula | Configuration | The doc says | The code does | What holds |
|---|---|---|---|---|
| `FlushEndsSpans` | `Beeline.cfg` | "Flush implicitly ends all currently active spans" (`beeline.go:252`) | leaves an asynchronous child, and one begun when the root is being sent or has been (`trace/trace.go:542`) | `FlushDelivers`: there is no other case |
| `WholeTraces` | `Beeline.cfg` | "all spans in that trace will be sent (or none at all)" (`trace/doc.go:90`; so `beeline.go:44`) | each span asks the sampler of the moment (`trace/trace.go:528`): a second `Init` divides the trace | `RelatedDecisions`: decisions at one rate are equal, and the larger of two keeps less |
| `LabelsAsBefore` | `Beeline.cfg` | "Restore pprof labels from before this span was created" (`trace/trace.go:401`; so `trace/context.go:36`) | the root has one `oldCtx`, which a `CopyContext` of its trace overwrites (`trace/context.go:42`) | `LabelsRestored`: nothing else disturbs the labels |
| `SameTrace` | `HeaderRelay.cfg` | "a new trace using the same trace ID" (`trace/doc.go:67`) | the Amazon header has fields and IDs side by side (`propagation/amazon.go:25`, read at 70): a field `root` is read as the trace, `parent` or `self` as the parent | `OneTrace`, `ParentIsSender`: no other field is |
| `HoneycombReadsIds` | `HeaderRelay.cfg` | an error unless there are a trace and a parent ID (`propagation/honeycomb.go:68`) | refuses a parent without a trace, nothing else (line 102) | `OneTrace`: no other trace is read |
| `HoneycombAnswers` | `HeaderRelay.cfg` | the same | a header that is cut off is an index out of range (lines 74, 91 to 99), which net/http recovers, and the request is lost | |
| `B3ReadsIds` | `HeaderRelay.cfg` | an error if there is neither ID (`propagation/b3.go:313`) | a single header with a decision alone is returned before the test of `IsValid` (line 319) | `ReadsConform`: IDs that are read have their length |
| `StatusSent` | `ServiceCalls.cfg` | "The first call to WriteHeader sends the response header" (`wrappers/common/common.go:31`) | a 1xx code is recorded for the final one, and a code after the body although 200 has gone out (line 34) | `StatusAgrees`: a handler that returns has no other case |
| `ErrorsReported` | `SqlxCalls.cfg` | "Fixed `db.error` not being added" (`CHANGELOG.md:502`) | `defer sender(err)` (`wrappers/hnysqlx/sqlx.go:1497`) evaluates `err` before the statement is closed | |

Seen while modelling:

- A child created after `sendLocked` has collected the children is not sent with its parent,
  against "all synchronous child spans" at `trace/trace.go:327`. The properties of `SpanTree`
  exempt such children by name (`late`); `FlushEndsSpans` shows one form of it.
- `Tx.QueryRowxContext` reports an event outside the trace (`wrappers/hnysqlx/sqlx.go:2104`), against
  `wrappers/common/common.go:264`; its record in `SqlxCalls` says so.
- `Close` of the pop wrapper calls itself (`wrappers/hnypop/pop.go:49`).
- The root's totals lack what asynchronous and late spans add after it was
  sent, against "all of the spans" at `trace/trace.go:296`.
- A trace begun from a W3C header hands on neither its trace state nor its flags
  (`propagationContext`, `trace/trace.go:155`).

## What is not modelled

- Names, durations, layout of events, statistics of connection pools, query
  arguments and results, names of routes: no property here is about them. IDs are taken to be unique.
- libhoney, except for its queue: it takes the event, once asked, ignores later
  fields, and has sent what it took when it has been flushed or closed. The
  batches it sends by itself change nothing that a property says.
- Hooks that call back into the span they are given: they hold its event lock and
  would block; the documentation hands them a map and not the span. The presend hook
  decides nothing and is left out of `Beeline`.
- The debug reader: `TxResponses` gives it a closed channel, so it ends at once.
- The `pop` wrapper, which hands its calls on to `hnysqlx` and keeps one transaction. Nothing in the
  repository says what two of them should do.
- In `ServiceCalls`, a span is sent in one step (the steps are `SpanTree`'s) and 1xx responses
  through frameworks are left out; in `Propagation`, single B3 headers cut off within an ID,
  which are a slice out of range, and texts with delimiters in them.
- `timer/timer.go`, `version.go`, `doc.go` and `examples/` have no behaviour
  that a property could be about.
