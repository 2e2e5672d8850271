------------------------ MODULE AnsiTransactionManager ------------------------
(***************************************************************************)
(* AnsiTransactionManager (diesel/src/connection/transaction_manager.rs)   *)
(* driving a SqlSession: begin_transaction, commit_transaction and         *)
(* rollback_transaction with every statement they send, the hook of the    *)
(* backend after each, and Connection::transaction, whose closures nest.   *)
(* A connection is borrowed mutably for the whole of a call, so that a     *)
(* call is one step; what interleaves with it is the server, whose answer  *)
(* to each statement is any of Answers.                                    *)
(*                                                                         *)
(* scopes and fate are what the callers may believe (TransactionScopes):   *)
(* the stack of closures that run inside transaction(), and how the calls  *)
(* around each write returned.                                             *)
(***************************************************************************)
EXTENDS Naturals, Sequences, TransactionManagerStatus, TransactionScopes

CONSTANT StatementVias    \* how the callers send data statements

ASSUME ViasAssumption == StatementVias \subseteq Vias

VARIABLES
    conn,     \* [status, session]: the manager and the session it drives
    scopes,   \* the closures inside transaction(), the innermost last
    fate,     \* how each write ended: a sequence, one entry per write
    failures  \* counts towards MaxFailures

vars == <<conn, scopes, fate, failures>>

(* The manager, the session and the stack of closures keep their shape: the
   depth never falls below zero however calls and hooks interleave, and no
   more writes succeed than the bound allows.                              *)
TypeOK ==
    /\ conn \in [status : Status, session : Session]
    /\ scopes \in Seq(Scope)
    /\ fate \in Seq(Fates) /\ Len(fate) <= MaxWrites
    /\ failures \in Nat

-------------------------------------------------------------------------------
(* The calls of the transaction manager: the set of their outcomes.        *)

Outcome(r, session) == [ret |-> r.ret, conn |-> [status |-> r.status, session |-> session]]
Refused(ret, c)     == {[ret |-> ret, conn |-> c]}

(* batch_execute, execute, load, copy: the reply, seen by the hook.        *)
Exec(c, stmt) ==
    { [res |-> a.res,
       conn |-> [status  |-> Hook(c.status, stmt.via, a.res, a.session.txn),
                 session |-> a.session]] : a \in Answers(c.session, stmt) }

BeginTransaction(c) ==
    IF c.status.in_error THEN Refused("broken", c)
    ELSE { Outcome(AfterBegin(r.conn.status, r.res), r.conn.session) :
              r \in Exec(c, BeginSql(c.status)) }

(* begin_transaction_sql, used by TransactionBuilder::run and by
   immediate_transaction and exclusive_transaction.                        *)
BeginTransactionSql(c) ==
    IF IsOpen(c.status) THEN Refused("already_in_transaction", c)
    ELSE BeginTransaction(c)

RollbackTransaction(c) ==
    CASE c.status.in_error -> Refused("broken", c)
      [] IsOpen(c.status)  ->
            { Outcome(AfterRollback(c.status, r.conn.status, r.res), r.conn.session) :
                 r \in Exec(c, RollbackSql(c.status)) }
      [] OTHER -> Refused("not_in_transaction", c)

(* mistake: the flag is not looked at                                       *)
AfterFailedCommit_Leaves(res, c) == {[ret |-> res, conn |-> c]}

(* A commit that fails rolls back when the flag is up, and leaves the
   transaction as it is otherwise.                                         *)
AfterFailedCommit(res, c) ==
    IF IsOpen(c.status) /\ c.status.requires_rollback
    THEN { IF b.ret = "ok" THEN [b EXCEPT !.ret = res]
           ELSE [ret |-> "rollback_error_on_commit", conn |-> [b.conn EXCEPT !.status = InError]] :
              b \in RollbackTransaction(c) }
    ELSE {[ret |-> res, conn |-> c]}

CommitTransaction(c) ==
    CASE c.status.in_error -> Refused("broken", c)
      [] IsOpen(c.status)  ->
            UNION { IF r.res = "ok"
                    THEN {Outcome(AfterExit(c.status, r.conn.status), r.conn.session)}
                    ELSE AfterFailedCommit(r.res, r.conn) :
                       r \in Exec(c, CommitSql(c.status)) }
      [] OTHER -> Refused("not_in_transaction", c)

-------------------------------------------------------------------------------
(* What the callers see.                                                   *)

InScope == Len(scopes) > 0
TopScope == scopes[Len(scopes)]

Init ==
    /\ conn = [status |-> NoTransaction, session |-> FreshSession]
    /\ scopes = <<>> /\ fate = <<>> /\ failures = 0

CountFailure(ret) == failures' = IF ret = "ok" THEN failures ELSE failures + 1

(* transaction() starts: the closure runs only when begin succeeds.        *)
Opened(r, test) ==
    /\ conn' = r.conn
    /\ scopes' = IF r.ret = "ok" THEN Append(scopes, NewScope(test))
                 ELSE NoteFailure(scopes)
    /\ CountFailure(r.ret)
    /\ UNCHANGED fate

Begin ==
    /\ Len(scopes) < MaxDepth /\ failures < MaxFailures
    /\ \E r \in BeginTransaction(conn) : Opened(r, FALSE)

BeginSqlTransaction ==
    /\ Len(scopes) < MaxDepth /\ failures < MaxFailures
    /\ \E r \in BeginTransactionSql(conn) : Opened(r, FALSE)

(* begin_test_transaction asserts that no transaction is open; the scope it
   opens is never closed.                                                  *)
BeginTestTransaction ==
    /\ ~conn.status.in_error /\ conn.status.depth = 0
    /\ scopes = <<>> /\ failures < MaxFailures
    /\ \E r \in BeginTransaction(conn) :
          Opened(IF r.ret = "ok" THEN [r EXCEPT !.conn.status = SetTestTransactionFlag(@)] ELSE r,
                 TRUE)

(* A data statement, inside a closure or outside of any.                   *)
Statement ==
    /\ Len(fate) < MaxWrites /\ failures < MaxFailures
    /\ \E via \in StatementVias :
       \E r \in Exec(conn, Write(Len(fate) + 1, via)) :
          /\ conn' = r.conn
          /\ IF r.res = "ok"
             THEN /\ fate' = Append(fate, IF InScope THEN "pending" ELSE "auto")
                  /\ scopes' = IF InScope
                               THEN [scopes EXCEPT ![Len(scopes)].wrote = @ \cup {Len(fate) + 1}]
                               ELSE scopes
             ELSE /\ scopes' = NoteFailure(scopes)
                  /\ UNCHANGED fate
          /\ CountFailure(r.res)

(* transaction() returns Err: the writes of its closure are dropped.  The
   closure around it may go on, or end with Err itself.                    *)
Fails(r) ==
    /\ scopes' = Inner(scopes)
    /\ fate' = Settle(fate, TopScope.wrote,
                      IF Len(scopes) = 1 /\ r.ret = "lost" THEN "unknown" ELSE "dropped")
    /\ failures' = failures + 1

Closable == InScope /\ ~TopScope.test

(* The innermost closure returned Ok.                                      *)
CloseOk ==
    /\ Closable
    /\ \E r \in CommitTransaction(conn) :
          /\ conn' = r.conn
          /\ IF r.ret = "ok"
             THEN /\ scopes' = Merge(scopes)
                  /\ fate' = IF Len(scopes) > 1 THEN fate
                             ELSE Settle(fate, TopScope.wrote,
                                         IF TopScope.failed THEN "swallowed" ELSE "kept")
                  /\ UNCHANGED failures
             ELSE Fails(r)

(* The innermost closure returned Err.                                     *)
CloseErr ==
    /\ Closable
    /\ \E r \in RollbackTransaction(conn) : conn' = r.conn /\ Fails(r)

Next == Begin \/ BeginSqlTransaction \/ BeginTestTransaction \/ Statement \/ CloseOk \/ CloseErr

Spec == Init /\ [][Next]_vars

-------------------------------------------------------------------------------
(* What the scopes 1..k wrote: the work that belongs to the first k levels. *)
WroteUpTo(k) == UNION {scopes[i].wrote : i \in 1..k}

(* The manager takes its transaction to be in order, and the server has one. *)
InOrder == /\ IsOpen(conn.status) /\ ~conn.status.requires_rollback
           /\ conn.session.txn \in {"open", "implicit"}

(* When the manager believes that no transaction is open (is_broken is then
   false and a pool hands the connection to the next caller), the server has
   none open: nobody inherits the work or the locks of a transaction.      *)
Clean(c) == ~c.status.in_error /\ c.status.depth = 0 => c.session.txn \in {"idle", "lost"}
CleanWhenIdle == Clean(conn)

(* Every level that the manager has open is the level of a closure that
   still runs: the number of begin, commit and rollback calls is enough to
   know the depth, which is what the comments of rollback_transaction
   promise the caller.                                                     *)
DepthIsScopes == IsOpen(conn.status) => conn.status.depth = Len(scopes)

(* The manager is never behind the closures: a nested closure cannot end
   with the COMMIT or ROLLBACK of the transaction around it.               *)
DepthCoversScopes == IsOpen(conn.status) => conn.status.depth >= Len(scopes)

(* While the manager takes the transaction to be in order, statements do not
   run, and commit, outside of one.                                        *)
NoSilentAutocommit ==
    IsOpen(conn.status) /\ ~conn.status.requires_rollback => conn.session.txn # "idle"

(* What a COMMIT would make durable is exactly what the running closures
   wrote: nothing of a closure that was rolled back, all of the others.    *)
WorkIsPending == InOrder => conn.session.work = WroteUpTo(Len(scopes))

(* Every outer level has its savepoint, and the newest savepoint of its name
   holds exactly the work of the levels up to it, however often a level was
   rolled back to, released and opened again under the same name.          *)
SavepointsHoldOuterWork ==
    InOrder => \A k \in 1..(conn.status.depth - 1) :
        /\ SavesAt(conn.session, k) # {}
        /\ conn.session.saves[Newest(conn.session, k)].work = WroteUpTo(k)

FateIs(f) == {i \in DOMAIN fate : fate[i] = f}

(* transaction() returned Ok at the top level, and no statement of its
   closures had failed: its writes are committed.                          *)
KeptIsDurable == FateIs("kept") \subseteq conn.session.durable

(* A transaction(), nested or not, returned Err: its writes never become
   durable, whatever the transactions around it and after it do.           *)
DroppedIsUndone == FateIs("dropped") \cap conn.session.durable = {}

(* Nothing of a closure that still runs is durable.                        *)
PendingIsNotDurable == FateIs("pending") \cap conn.session.durable = {}

===============================================================================
