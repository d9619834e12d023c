---------------------------- MODULE DatabaseCalls -----------------------------
(***************************************************************************)
(* What the wrappers of database/sql and sqlx share: a call on a wrapped   *)
(* handle (a database, connection, transaction or statement) makes the     *)
(* wrapped call and one report of it, an event or a span                   *)
(* (wrappers/common/common.go, BuildDBEvent and BuildDBSpan).  A handle    *)
(* owns a libhoney builder with the fields of all its reports; a call that *)
(* makes a handle clones the builder of the one it was called on and adds  *)
(* the new handle's ID.  Modules SqlCalls and SqlxCalls say which methods  *)
(* there are.                                                              *)
(*                                                                         *)
(* A method is a record, so methods that differ in nothing said here are   *)
(* one method.  The ID of a handle is the handle.  Arguments, results,     *)
(* options, durations, statistics and mappers are left out, and so is      *)
(* sampling.  Of the life of a span, module SpanTree's matter, there is    *)
(* only that it may be sent with its parent before the call is over.       *)
(***************************************************************************)
EXTENDS FiniteSets

CONSTANTS
  Handle,     \* the handles the process may make
  DB,         \* the one WrapDB returned
  NoHandle,   \* no handle, and no ID
  Query,      \* the queries
  NoQuery,    \* no query
  Thread      \* the goroutines

ASSUME HandleAssumption == DB \in Handle /\ NoHandle \notin Handle
ASSUME QueryAssumption == NoQuery \notin Query

VARIABLES
  kind,       \* what each handle is, "absent" if it does not exist
  builder,    \* Builder of each handle: the IDs and the query it adds
  call,       \* the call each goroutine is in, with its report
  \* History: never read by a guard or by another variable.
  madeOn,     \* the handles a handle was made on, itself included
  prepared,   \* the query a statement was prepared with
  adopted     \* the statements a transaction took over without a new ID

vars == <<kind, builder, call, madeOn, prepared, adopted>>

-------------------------------------------------------------------------------
(* Methods.  on: the kind of the receiver.  makes: the kind of the result, *)
(* if it is a handle.  adopts: the kind of the argument, if it is a        *)
(* statement.  clones: whose builder the result's starts from.  names,     *)
(* keeps: whether the result's builder gets an ID, and the query.  query:  *)
(* whether there is a query argument.  context: whether there is a context *)
(* argument.  span: whether the report is a span.  fails: what happens to  *)
(* the error of the wrapped call.  early: whether the sender's argument is *)
(* evaluated where the sender is deferred, before the call.                *)
Plain == [on |-> "db", makes |-> "nothing", adopts |-> "nothing",
          clones |-> "receiver", names |-> FALSE, keeps |-> FALSE,
          query |-> FALSE, context |-> FALSE, span |-> FALSE,
          fails |-> "returned", early |-> FALSE]

\* A method and its variant with a context.
Both(m) == {m, [m EXCEPT !.context = TRUE, !.span = TRUE]}

\* The variant with a context, of a method that has no other.
Traced(m) == {[m EXCEPT !.context = TRUE, !.span = TRUE]}

Exec == [Plain EXCEPT !.query = TRUE]
Begin == [Plain EXCEPT !.makes = "tx", !.names = TRUE]
Prepare == [Plain EXCEPT !.makes = "stmt", !.names = TRUE, !.query = TRUE,
                         !.keeps = TRUE]
\* Whether a row could be read is known later, by Scan.
QueryRow == [Exec EXCEPT !.fails = "later"]

\* The methods of another receiver.
On(receiver, methods) == {[m EXCEPT !.on = receiver] : m \in methods}

IdKind == {"conn", "tx", "stmt"}
IdKindOf(k) == IF k = "named" THEN "stmt" ELSE k

Fields == [ids: [IdKind -> Handle \cup {NoHandle}], query: Query \cup {NoQuery}]
NoFields == [ids |-> [k \in IdKind |-> NoHandle], query |-> NoQuery]

Idle == [pc |-> "idle", method |-> Plain, on |-> NoHandle, new |-> NoHandle,
         fields |-> NoFields, gone |-> FALSE, failed |-> FALSE, error |-> FALSE]

Init ==
  /\ kind = [h \in Handle |-> IF h = DB THEN "db" ELSE "absent"]
  /\ builder = [h \in Handle |-> NoFields]
  /\ call = [t \in Thread |-> Idle]
  /\ madeOn = [h \in Handle |-> IF h = DB THEN {DB} ELSE {}]
  /\ prepared = [h \in Handle |-> NoQuery]
  /\ adopted = {}

-------------------------------------------------------------------------------
(* Seeded faults.  Each is one of the definitions below with a plausible   *)
(* bug in it; none is part of a next-state relation.  README.md says which *)
(* property each one breaks.                                               *)

\* The new handle shares the builder of the one it is made on.
WithBuilderShared(h, new, made) == [builder EXCEPT ![new] = made, ![h] = made]

\* The new ID is added to nothing but the report.
MadeFieldsNameless(m, from, new, q) ==
  [from EXCEPT !.query = IF m.keeps THEN q ELSE @]

\* The query is added to the report but not to the statement's builder.
MadeFieldsForgetful(m, from, new, q) ==
  [from EXCEPT !.ids = IF m.names THEN [@ EXCEPT ![IdKindOf(m.makes)] = new] ELSE @]

\* A failed call takes the receiver away, from other goroutines as well.
ReturnDropsReceiver(t) ==
  /\ call[t].pc = "sent"
  /\ call' = [call EXCEPT ![t] = Idle]
  /\ kind' = [kind EXCEPT ![call[t].on] = IF call[t].failed THEN "failed" ELSE @]
  /\ UNCHANGED <<builder, madeOn, prepared, adopted>>

-------------------------------------------------------------------------------
(* Reports and builders.                                                   *)

\* sharedDBEvent: the builder's fields, and the query if there is one.
NewReport(h, m, q) ==
  [builder[h] EXCEPT !.query = IF m.query THEN q ELSE @]

\* The method then adds the new handle's ID to the report.
Named(fields, m, new) ==
  IF m.makes # "nothing" /\ m.names
  THEN [fields EXCEPT !.ids[IdKindOf(m.makes)] = new] ELSE fields

\* What the cloned builder of the result gets.
MadeFields(m, from, new, q) ==
  [from EXCEPT
     !.ids = IF m.names THEN [@ EXCEPT ![IdKindOf(m.makes)] = new] ELSE @,
     !.query = IF m.keeps THEN q ELSE @]

WithBuilder(h, new, made) == [builder EXCEPT ![new] = made]

\* The sender's argument: whether it is an error.
Reported(m, failed) == failed /\ m.fails \in {"returned", "panics"} /\ ~m.early

-------------------------------------------------------------------------------
(* A call.                                                                 *)

Called(t, m, h, new, q) ==
  call' = [call EXCEPT ![t] = [Idle EXCEPT
             !.pc = "database", !.method = m, !.on = h, !.new = new,
             !.fields = Named(NewReport(h, m, q), m, new)]]

\* A call that makes no handle.
Use(t, m, h, q) ==
  /\ call[t].pc = "idle"
  /\ m.makes = "nothing" /\ kind[h] = m.on
  /\ q = NoQuery <=> ~m.query
  /\ Called(t, m, h, NoHandle, q)
  /\ UNCHANGED <<kind, builder, madeOn, prepared, adopted>>

\* A call that makes a handle, of nothing or of the statement src.
Make(t, m, h, new, src, q) ==
  /\ call[t].pc = "idle"
  /\ m.makes # "nothing" /\ kind[h] = m.on
  /\ kind[new] = "absent"
  /\ q = NoQuery <=> ~m.query
  /\ IF m.adopts = "nothing" THEN src = h ELSE kind[src] = m.adopts
  /\ Called(t, m, h, new, q)
  /\ kind' = [kind EXCEPT ![new] = "making"]
  /\ LET from == IF m.clones = "argument" THEN builder[src] ELSE builder[h] IN
       builder' = WithBuilder(h, new, MadeFields(m, from, new, q))
  /\ madeOn' = [madeOn EXCEPT ![new] = madeOn[h] \cup {new}]
  /\ prepared' = [prepared EXCEPT ![new] =
       IF m.adopts = "nothing" THEN q ELSE prepared[src]]
  /\ adopted' = IF m.adopts = "nothing" \/ m.names THEN adopted ELSE adopted \cup {new}

\* The wrapped call succeeds or fails.
Database(t) ==
  /\ call[t].pc = "database"
  /\ \E failed \in IF call[t].method.fails = "never" THEN {FALSE} ELSE BOOLEAN :
       call' = [call EXCEPT ![t].failed = failed, ![t].pc = "report"]
  /\ UNCHANGED <<kind, builder, madeOn, prepared, adopted>>

\* The span is sent with its parent, by whoever sends that.
SentByParent(t) ==
  /\ call[t].pc \in {"database", "report"} /\ call[t].method.span /\ ~call[t].gone
  /\ call' = [call EXCEPT ![t].gone = TRUE]
  /\ UNCHANGED <<kind, builder, madeOn, prepared, adopted>>

\* The deferred sender, run on a return and on a panic alike.  AddField adds
\* nothing to a span that was sent.
Report(t) ==
  LET c == call[t] IN
  /\ c.pc = "report"
  /\ call' = [call EXCEPT ![t].pc = "sent",
                          ![t].error = Reported(c.method, c.failed) /\ ~c.gone]
  /\ UNCHANGED <<kind, builder, madeOn, prepared, adopted>>

\* The caller goes on.  A new handle is used unless the call failed.
Return(t) ==
  LET new == call[t].new IN
  /\ call[t].pc = "sent"
  /\ call' = [call EXCEPT ![t] = Idle]
  /\ IF new = NoHandle THEN UNCHANGED kind
     ELSE kind' = [kind EXCEPT ![new] =
            IF call[t].failed THEN "failed" ELSE call[t].method.makes]
  /\ UNCHANGED <<builder, madeOn, prepared, adopted>>

\* The calls of goroutine t on a wrapper with the methods given.
Calls(t, methods) ==
  \/ /\ call[t].pc = "idle"
     /\ \E m \in methods, h \in Handle, q \in Query \cup {NoQuery} :
          \/ Use(t, m, h, q)
          \/ m.makes # "nothing" /\ \E new, src \in Handle : Make(t, m, h, new, src, q)
  \/ Database(t) \/ SentByParent(t) \/ Report(t) \/ Return(t)

-------------------------------------------------------------------------------
(* Properties.                                                             *)

\* Handles, builders and calls have their types, and only handles that exist
\* have reports made on them (common.go, BuildDBEvent).
TypeOK ==
  /\ kind \in [Handle ->
       {"absent", "making", "failed", "db", "conn", "tx", "stmt", "named"}]
  /\ builder \in [Handle -> Fields]
  /\ \A t \in Thread :
       /\ call[t].pc \in {"idle", "database", "report", "sent"}
       /\ call[t].on \in Handle \cup {NoHandle}
       /\ call[t].new \in Handle \cup {NoHandle}
       /\ call[t].fields \in Fields
       /\ call[t].pc # "idle" => kind[call[t].on] = call[t].method.on
  /\ madeOn \in [Handle -> SUBSET Handle]
  /\ prepared \in [Handle -> Query \cup {NoQuery}]
  /\ adopted \subseteq Handle

\* The handle a report is about: the new one if it is named, else the receiver.
Subject(c) ==
  IF c.new # NoHandle /\ c.method.names THEN c.new ELSE c.on

\* A report carries the IDs of exactly the handles its subject was made on,
\* however many transactions, connections and statements are open: no ID is
\* missing, none belongs to another handle (Begin, Conn, Prepare and the
\* clones of Builder).  Statements taken over without a new ID are apart.
ReportNamesHandles ==
  \A t \in Thread :
    LET c == call[t] IN
    c.pc = "sent" /\ Subject(c) \notin adopted =>
      {c.fields.ids[k] : k \in IdKind} \ {NoHandle} = madeOn[Subject(c)] \ {DB}

\* A report of the use of a statement carries the query the statement was
\* prepared with, also when a transaction took it over (Prepare, Tx.Stmt).
ReportNamesQuery ==
  \A t \in Thread :
    call[t].pc = "sent" /\ call[t].on # NoHandle /\ kind[call[t].on] = "stmt" =>
      call[t].fields.query = prepared[call[t].on]

\* The transaction of a handle, if it has one.
TransactionOf(h) ==
  LET txs == {x \in madeOn[h] : kind[x] = "tx"} IN
  IF txs = {} THEN NoHandle ELSE CHOOSE x \in txs : TRUE

\* A report of a call within a transaction carries the ID of that transaction
\* and of no other; as a comment of Tx.Stmt has it, "add the transaction's ID to
\* the statement so that when it gets executed you get both".
ReportNamesTransaction ==
  \A t \in Thread :
    call[t].pc = "sent" /\ call[t].method.makes = "nothing" =>
      call[t].fields.ids["tx"] = TransactionOf(call[t].on)

-------------------------------------------------------------------------------
(* What the change log says; in SqlxCalls, TLC finds it violated.          *)

\* A report sent after a call that returned an error, or panicked with it, has
\* the error, unless it was a span sent before; as the change log has it, "Fixed
\* `db.error` not being added by `hnysql` and `hnysqlx` wrappers".
ErrorsReported ==
  \A t \in Thread :
    LET c == call[t] IN
    c.pc = "sent" /\ c.failed /\ c.method.fails \in {"returned", "panics"} /\ ~c.gone =>
      c.error
===============================================================================
