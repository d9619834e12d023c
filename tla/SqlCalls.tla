------------------------------- MODULE SqlCalls -------------------------------
(***************************************************************************)
(* The methods of the database/sql wrapper (wrappers/hnysql/sql.go), each  *)
(* group in the order of the source.                                       *)
(***************************************************************************)
EXTENDS DatabaseCalls

\* Begin, BeginTx; Conn.
DBBegin == Both(Begin) \cup Traced([Plain EXCEPT !.makes = "conn", !.names = TRUE])
DBExec == Both(Exec)
DBPing == Both(Plain)
DBPrepare == Both(Prepare)
DBQuery == Both(Exec) \cup Both(QueryRow)
DBClose == {Plain}

ConnBegin == On("conn", Traced(Begin))
\* Close, ExecContext, PingContext.
ConnExec == On("conn", {Plain} \cup Traced(Exec) \cup Traced(Plain))
ConnPrepare == On("conn", Traced(Prepare))
ConnQuery == On("conn", Traced(Exec) \cup Traced(QueryRow))

\* Close, Exec: the query is in the builder.
StmtExec == On("stmt", Both(Plain))
StmtQuery == On("stmt", Both(Plain) \cup Both([Plain EXCEPT !.fails = "later"]))

\* Commit, Exec.
TxExec == On("tx", {Plain} \cup Both(Exec))
TxPrepare == On("tx", Both(Prepare))
TxQuery == On("tx", Both(Exec) \cup Both(QueryRow))
TxRollback == On("tx", {Plain})

\* Stmt, StmtContext.  The result's builder is cloned from the argument's.  The
\* transaction's ID is then read under the key "db.txid", where there is none:
\* it is "db.txId" that Begin sets.
TxStmt == On("tx", Both([Plain EXCEPT !.makes = "stmt", !.adopts = "stmt",
                                      !.clones = "argument", !.fails = "never"]))

SqlMethod ==
  DBBegin \cup DBExec \cup DBPing \cup DBPrepare \cup DBQuery \cup DBClose
  \cup ConnBegin \cup ConnExec \cup ConnPrepare \cup ConnQuery
  \cup StmtExec \cup StmtQuery
  \cup TxExec \cup TxPrepare \cup TxQuery \cup TxRollback \cup TxStmt

Next == \E t \in Thread : Calls(t, SqlMethod)

Spec == Init /\ [][Next]_vars
===============================================================================
