---------------------- MODULE AnsiAsyncTransactionManager ----------------------
(***************************************************************************)
(* AnsiAsyncTransactionManager                                             *)
(* (diesel/src/connection/async_transaction_manager.rs) and the connection *)
(* pools (diesel/src/pooled_connection).  A call is a future: it is sent,  *)
(* and either its reply arrives and the rest of the call runs, or the      *)
(* future is dropped first.  A dropped future runs no clean-up: the server *)
(* may or may not have run the statement, transaction() sends no rollback, *)
(* and what is left is the flag is_broken, which critical_transaction_block*)
(* raises around every transaction statement, and the pool that asks for   *)
(* it.                                                                     *)
(***************************************************************************)
EXTENDS Naturals, Sequences, FiniteSets, TransactionManagerStatus, TransactionScopes

CONSTANTS
    Pool,             \* "bb8", "deadpool" or "mobc"
    Recycling,        \* RecyclingMethod: "Fast" or "Verified"
    DebugAssertions,  \* the build has debug_assert!
    CancelWhole       \* callers drop the whole task, as a timeout around it
                      \* does, and not just a part of its closures

ASSUME AsyncAssumption ==
    /\ Dialect # "Sqlite"
    /\ Pool \in {"bb8", "deadpool", "mobc"}
    /\ Recycling \in {"Fast", "Verified"}
    /\ DebugAssertions \in BOOLEAN /\ CancelWhole \in BOOLEAN

VARIABLES
    conn,      \* [status, session, is_broken, is_commit]
    call,      \* the statement that is awaited
    scopes,    \* the closures inside transaction(), the innermost last
    fate,      \* how each write ended
    failures,  \* counts towards MaxFailures
    place      \* the connection is "held" by a caller, "dropped" with its
               \* task and on its way back, or in the "pool"

vars == <<conn, call, scopes, fate, failures, place>>

(* begin_sql is begin_transaction_sql, repair the rollback that a failed
   commit starts.                                                          *)
CallOps == {"begin", "begin_sql", "begin_test", "commit", "rollback", "repair", "write"}
Calls   == [op : CallOps, stmt : Stmt, before : Status, error : Results]
NoCall  == [op |-> "none"]

AsyncConn == [status : Status, session : Session, is_broken : BOOLEAN, is_commit : BOOLEAN]
NewConn   == [status |-> NoTransaction, session |-> FreshSession,
              is_broken |-> FALSE, is_commit |-> FALSE]

(* The connection, the call in flight and the closures keep their shape: the
   depth never falls below zero, whichever futures are dropped.            *)
TypeOK ==
    /\ conn \in AsyncConn
    /\ call \in Calls \cup {NoCall}
    /\ scopes \in Seq(Scope)
    /\ fate \in Seq(Fates)
    /\ failures \in Nat
    /\ place \in {"held", "dropped", "pool"}

Init == /\ conn = NewConn /\ call = NoCall
        /\ scopes = <<>> /\ fate = <<>> /\ failures = 0 /\ place = "pool"

-------------------------------------------------------------------------------
(* The hooks of the asynchronous connections.                              *)

(* mistake: the manager is not told that the transaction is still open      *)
AsyncHook_Trusting(c, via, res, txn) == c.status

(* PostgreSQL and MySQL look at the error alone; Turso asks the database
   whether the transaction is still open after a batch that failed.        *)
AsyncHook(c, via, res, txn) ==
    IF \/ Dialect = "Pg" /\ res = "serialization" /\ ~c.is_commit
       \/ Dialect = "Mysql" /\ res = "serialization" /\ via = "query"
       \/ Dialect = "Turso" /\ res # "ok" /\ via = "batch" /\ InTransaction([txn |-> txn])
    THEN SetRequiresRollback(c.status, TRUE)
    ELSE c.status

Critical(op) == op # "write"

(* mistake: the flag goes up only after the statement                       *)
EnterBlock_Late(c, op) == c

(* critical_transaction_block, before and after the await.                 *)
EnterBlock(c, op) == [c EXCEPT !.is_broken = @ \/ Critical(op),
                               !.is_commit = @ \/ op = "commit"]
LeaveBlock(c, op) == [c EXCEPT !.is_broken = @ /\ ~Critical(op),
                               !.is_commit = @ /\ op # "commit"]

Replied(c) ==
    { [res  |-> a.res,
       conn |-> LeaveBlock([c EXCEPT !.status = AsyncHook(c, call.stmt.via, a.res, a.session.txn),
                                     !.session = a.session], call.op)] :
         a \in Answers(c.session, call.stmt) }

-------------------------------------------------------------------------------
(* Calls that start.                                                       *)

InScope  == Len(scopes) > 0
TopScope == scopes[Len(scopes)]
Ready    == place = "held" /\ call = NoCall
MayFail  == failures < MaxFailures

(* The closures that a dropped future can take with it.                    *)
Closures == Cardinality({i \in DOMAIN scopes : ~scopes[i].test})
WroteByLast(k) == UNION {scopes[i].wrote : i \in (Len(scopes) - k + 1)..Len(scopes)}
Without(k)     == SubSeq(scopes, 1, Len(scopes) - k)

(* debug_assert! finds the flag still up: the task unwinds.                *)
Panic(op) ==
    /\ conn' = EnterBlock(conn, op)
    /\ scopes' = Without(Closures)
    /\ fate' = Settle(fate, WroteByLast(Closures), "cancelled")
    /\ failures' = failures + 1
    /\ place' = "dropped"
    /\ UNCHANGED call

Send(op, stmt) ==
    IF DebugAssertions /\ Critical(op) /\ conn.is_broken THEN Panic(op)
    ELSE /\ conn' = EnterBlock(conn, op)
         /\ call' = [op |-> op, stmt |-> stmt, before |-> conn.status, error |-> "ok"]
         /\ UNCHANGED <<scopes, fate, failures, place>>

(* A call on the connection returns an error and sends nothing.            *)
Refuse ==
    /\ scopes' = NoteFailure(scopes) /\ failures' = failures + 1
    /\ UNCHANGED <<conn, call, fate, place>>

Begin(op) ==
    /\ Ready /\ Len(scopes) < MaxDepth /\ MayFail
    /\ op = "begin_test" => scopes = <<>> /\ ~conn.status.in_error /\ conn.status.depth = 0
    /\ IF conn.status.in_error \/ (op = "begin_sql" /\ IsOpen(conn.status)) THEN Refuse
       ELSE Send(op, BeginSql(conn.status))

Statement ==
    /\ Ready /\ Len(fate) < MaxWrites /\ MayFail
    /\ Send("write", Write(Len(fate) + 1, "query"))

(* transaction() returns Err.                                              *)
Fails(ret) ==
    /\ scopes' = Inner(scopes)
    /\ fate' = Settle(fate, TopScope.wrote,
                      IF Len(scopes) = 1 /\ ret = "lost" THEN "unknown" ELSE "dropped")
    /\ failures' = failures + 1
    /\ UNCHANGED place

Closable == Ready /\ InScope /\ ~TopScope.test

Close(op, stmt) ==
    /\ Closable
    /\ IF IsOpen(conn.status) THEN Send(op, stmt)
       ELSE Fails("not_in_transaction") /\ UNCHANGED <<conn, call>>

CloseOk  == Close("commit", CommitSql(conn.status))
CloseErr == Close("rollback", RollbackSql(conn.status))

-------------------------------------------------------------------------------
(* Replies: the rest of the call after the await.                          *)

Awaits(ops) == place = "held" /\ call.op \in ops
Ended       == call' = NoCall /\ UNCHANGED place

BeginReply ==
    /\ Awaits({"begin", "begin_sql", "begin_test"})
    /\ \E r \in Replied(conn) :
       LET after == AfterBegin(r.conn.status, r.res)
           test  == call.op = "begin_test"
       IN IF after.ret = "ok"
          THEN /\ conn' = [r.conn EXCEPT !.status = IF test THEN SetTestTransactionFlag(after.status)
                                                    ELSE after.status]
               /\ scopes' = Append(scopes, NewScope(test))
               /\ UNCHANGED failures
          ELSE /\ conn' = [r.conn EXCEPT !.status = after.status]
               /\ scopes' = NoteFailure(scopes)
               /\ failures' = failures + 1
    /\ Ended /\ UNCHANGED fate

WriteReply ==
    /\ Awaits({"write"})
    /\ \E r \in Replied(conn) :
       /\ conn' = r.conn
       /\ IF r.res = "ok"
          THEN /\ fate' = Append(fate, IF InScope THEN "pending" ELSE "auto")
               /\ scopes' = IF ~InScope THEN scopes ELSE
                            [scopes EXCEPT ![Len(scopes)].wrote = @ \cup {call.stmt.arg}]
               /\ UNCHANGED failures
          ELSE /\ scopes' = NoteFailure(scopes) /\ failures' = failures + 1
               /\ fate' = IF r.res = "lost" THEN Append(fate, "unknown") ELSE fate
    /\ Ended

Succeeds ==
    /\ scopes' = Merge(scopes)
    /\ fate' = IF Len(scopes) > 1 THEN fate
               ELSE Settle(fate, TopScope.wrote, IF TopScope.failed THEN "swallowed" ELSE "kept")
    /\ UNCHANGED <<failures, place>>

(* mistake: the depth goes down twice                                       *)
GivenUp_Twice(status) == IF IsOpen(status) THEN [status EXCEPT !.depth = @ - 2] ELSE status
(* A commit that fails with the flag down only lowers the depth.           *)
GivenUp(status) == IF IsOpen(status) THEN DecreaseDepth(status) ELSE status

CommitReply ==
    /\ Awaits({"commit"})
    /\ \E r \in Replied(conn) :
       LET st    == r.conn.status
           after == AfterExit(call.before, st)
       IN CASE r.res = "ok" ->
                 /\ conn' = [r.conn EXCEPT !.status = after.status]
                 /\ call' = NoCall
                 /\ IF after.ret = "ok" THEN Succeeds ELSE Fails(after.ret)
            [] r.res # "ok" /\ IsOpen(st) /\ st.requires_rollback ->
                 /\ conn' = EnterBlock(r.conn, "repair")
                 /\ call' = [op |-> "repair", stmt |-> RollbackSql(st), before |-> st, error |-> r.res]
                 /\ UNCHANGED <<scopes, fate, failures, place>>
            [] OTHER ->
                 /\ conn' = [r.conn EXCEPT !.status = GivenUp(st)]
                 /\ call' = NoCall
                 /\ Fails(r.res)

RollbackReply ==
    /\ Awaits({"rollback"})
    /\ \E r \in Replied(conn) :
       LET after == AfterRollback(call.before, r.conn.status, r.res)
       IN conn' = [r.conn EXCEPT !.status = after.status] /\ Fails(after.ret)
    /\ call' = NoCall

RepairReply ==
    /\ Awaits({"repair"})
    /\ \E r \in Replied(conn) :
       LET after == AfterRollback(call.before, r.conn.status, r.res)
       IN IF after.ret = "ok"
          THEN conn' = [r.conn EXCEPT !.status = after.status] /\ Fails(call.error)
          ELSE conn' = [r.conn EXCEPT !.status = InError] /\ Fails(r.res)
    /\ call' = NoCall

-------------------------------------------------------------------------------
(* Futures that are dropped, and the pool.                                 *)

(* Nobody has heard what became of the commit.                              *)
CommitSent == call.op = "commit" \/ (call.op = "repair" /\ call.error = "lost")

(* The k innermost closures are dropped, with the call they wait for.  Once
   the request is sent the server runs it all the same.                    *)
Cancel(k) ==
    /\ place = "held" /\ MayFail
    /\ k > 0 \/ call.op \notin {"none", "commit", "rollback", "repair"}
    /\ CancelWhole => k = Closures
    /\ \E s \in {conn.session} \cup (IF call = NoCall THEN {} ELSE
                    {a.session : a \in Answers(conn.session, call.stmt)}) :
          conn' = [conn EXCEPT !.session = s]
    /\ scopes' = Without(k)
    /\ LET ends == Settle(fate, WroteByLast(k),
                          IF CommitSent /\ Len(scopes) = 1 THEN "unknown" ELSE "cancelled")
       IN fate' = IF call.op = "write" THEN Append(ends, "unknown") ELSE ends
    /\ call' = NoCall
    /\ failures' = failures + 1
    /\ place' = IF CancelWhole THEN "dropped" ELSE place

(* mistake: a cancelled transaction statement is not looked at              *)
IsBroken_Depth(c) == IsBrokenTransactionManager(c.status)

(* PoolableConnection::is_broken; tokio_postgres knows that it is closed.   *)
IsBroken(c) == \/ c.is_broken
               \/ IsBrokenTransactionManager(c.status)
               \/ Dialect = "Pg" /\ c.session.txn = "lost"

(* ping: a test query on the way out of the pool.                          *)
PingFails(c) == Recycling = "Verified" /\ c.session.txn \in {"aborted", "lost"}

(* The pool closes the connection, which ends its transaction, and opens
   another one.                                                            *)
Replace ==
    /\ conn' = [NewConn EXCEPT !.session.durable = conn.session.durable]
    /\ scopes' = <<>>
    /\ fate' = Settle(fate, WroteByLast(Len(scopes)), "cancelled")

Stays == UNCHANGED <<conn, scopes, fate>>

GiveBack ==
    /\ \/ place = "dropped"
       \/ Ready /\ Closures = 0
    /\ IF Pool = "bb8" /\ IsBroken(conn) THEN Replace ELSE Stays
    /\ place' = "pool" /\ UNCHANGED <<call, failures>>

Get ==
    /\ place = "pool"
    /\ IF (Pool = "deadpool" /\ IsBroken(conn)) \/ PingFails(conn) THEN Replace ELSE Stays
    /\ place' = "held" /\ UNCHANGED <<call, failures>>

Next == \/ \E op \in {"begin", "begin_sql", "begin_test"} : Begin(op)
        \/ Statement \/ CloseOk \/ CloseErr
        \/ BeginReply \/ WriteReply \/ CommitReply \/ RollbackReply \/ RepairReply
        \/ \E k \in 0..Closures : Cancel(k)
        \/ GiveBack \/ Get

Spec == Init /\ [][Next]_vars

-------------------------------------------------------------------------------
(* A caller who takes a connection from the pool gets one without an open
   transaction (RecyclingMethod::Fast: "Only check for open transactions"):
   neither the manager nor the database has one, unless it is a test
   transaction.                                                            *)
HandsOutClean ==
    place = "pool" /\ place' = "held" =>
        \/ conn'.status.test
        \/ conn'.status = NoTransaction /\ conn'.session.txn \in {"idle", "lost"}
HandedOutClean == [][HandsOutClean]_vars

(* The manager believes that no transaction is open, and nothing says that a
   transaction statement was cut off: then the database has none open.     *)
CleanWhenIdle ==
    call = NoCall /\ ~conn.is_broken /\ ~conn.status.in_error /\ conn.status.depth = 0
       => conn.session.txn \in {"idle", "lost"}

FateIs(f) == {i \in DOMAIN fate : fate[i] = f}

(* transaction() returned Ok at the top level, and no statement of its
   closures had failed that an inner transaction() did not undo: its writes
   are committed.                                                          *)
KeptIsDurable == FateIs("kept") \subseteq conn.session.durable

(* transaction() returned Err, nested or not: its writes are never durable. *)
DroppedIsUndone == FateIs("dropped") \cap conn.session.durable = {}

(* A task that is dropped inside transaction() before it commits leaves
   nothing behind: its writes never become durable, not even through the
   work of whoever gets the connection next.                               *)
CancelledIsUndone == FateIs("cancelled") \cap conn.session.durable = {}

(* The hook of PostgreSQL ignores a serialization failure while is_commit is
   up, which the commit takes down when its reply arrives: it is up for the
   holder of the connection only while a commit of its own is in flight.  A
   commit that was dropped by the holder before must not leave it up, or the
   serialization failures of the next transaction never reach the manager.  *)
NoStaleCommit == place = "held" /\ conn.is_commit => call.op = "commit"

===============================================================================
