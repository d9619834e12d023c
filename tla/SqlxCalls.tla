------------------------------- MODULE SqlxCalls ------------------------------
(***************************************************************************)
(* The methods of the sqlx wrapper (wrappers/hnysqlx/sqlx.go), each group  *)
(* in the order of the source.  A named statement is a kind of its own.    *)
(***************************************************************************)
EXTENDS DatabaseCalls

Unfailing(m) == [m EXCEPT !.fails = "never"]
Must(m) == [m EXCEPT !.fails = "panics"]
\* DB.Preparex and others do not add the query to the statement's builder.
Forgetful(m) == [m EXCEPT !.keeps = FALSE]
PrepareNamed == [Prepare EXCEPT !.makes = "named"]
Row == [Plain EXCEPT !.fails = "later"]

DBBindNamed == {Exec}
DBBegin == Both(Begin)
\* Exec, Get.
DBExec == Both(Exec)
DBMapperFunc == {Unfailing(Plain)}
\* MustBegin, MustExec.
DBMust == Both(Must(Begin)) \cup Both(Must(Exec))
\* NamedExec, NamedQuery, Ping.
DBNamed == Both(Exec) \cup Both(Plain)
\* PrepareNamed, Preparex: only the first, without a context, keeps the query.
DBPrepare == {PrepareNamed} \cup Traced(Forgetful(PrepareNamed))
             \cup Both(Forgetful(Prepare))
\* Query, QueryRow, Queryx, QueryRowx.
DBQuery == Both(Exec) \cup Both(QueryRow)
\* Rebind, Select.
DBSelect == Both(Unfailing(Exec)) \cup Both(Exec)
\* Close, Driver, the Set methods.
DBClose == {Plain, Unfailing(Plain)}

\* Close, Exec, Get, MustExec: the query, if known, is in the builder.
NamedExec == On("named", Both(Plain))
NamedMust == On("named", Both(Must(Plain)))
\* Query, QueryRow, QueryRowx, Queryx, Select, Unsafe.
NamedQuery == On("named", Both(Plain) \cup Both(Row) \cup {Unfailing(Plain)})

\* Get, MustExec.
StmtExec == On("stmt", Both(Plain) \cup Both(Must(Plain)))
\* QueryRowx, Queryx, Select, Unsafe.
StmtQuery == On("stmt", Both(Plain) \cup Both(Row) \cup {Unfailing(Plain)})
\* Close: the sender's argument is evaluated before the statement is closed.
StmtClose == On("stmt", {[Plain EXCEPT !.early = TRUE]})

\* BindNamed, Commit, DriverName, Exec.
TxExec == On("tx", Both(Exec) \cup Both(Plain) \cup {Unfailing(Plain)})
\* Get, MustExec.
TxMust == On("tx", Both(Exec) \cup Both(Must(Exec)))
\* NamedExec, NamedQuery.
TxNamed == On("tx", Both(Exec))
\* NamedStmt: the result gets the transaction's fields and no more.
TxNamedStmt == On("tx", Both([Plain EXCEPT !.makes = "named",
                                !.adopts = "named", !.fails = "never"]))
TxPrepare == On("tx", Both(PrepareNamed) \cup Both(Prepare))
\* Query, QueryRow, QueryRowx, Queryx.  QueryRowxContext has no span.
TxQuery == On("tx", Both(Exec) \cup Both(QueryRow)
                    \cup {[QueryRow EXCEPT !.context = TRUE]})
\* Rebind, Rollback.
TxRollback == On("tx", Both(Unfailing(Exec)) \cup Both(Plain))
TxSelect == On("tx", Both(Exec))
\* Stmtx: a new ID, but not the query.
TxStmtx == On("tx", Both([Plain EXCEPT !.makes = "stmt", !.adopts = "stmt",
                                       !.names = TRUE, !.fails = "never"]))
TxUnsafe == On("tx", {Unfailing(Plain)})

SqlxMethod ==
  DBBindNamed \cup DBBegin \cup DBExec \cup DBMapperFunc \cup DBMust
  \cup DBNamed \cup DBPrepare \cup DBQuery \cup DBSelect \cup DBClose
  \cup NamedExec \cup NamedMust \cup NamedQuery
  \cup StmtExec \cup StmtQuery \cup StmtClose
  \cup TxExec \cup TxMust \cup TxNamed \cup TxNamedStmt \cup TxPrepare
  \cup TxQuery \cup TxRollback \cup TxSelect \cup TxStmtx \cup TxUnsafe

Next == \E t \in Thread : Calls(t, SqlxMethod)

Spec == Init /\ [][Next]_vars
===============================================================================
