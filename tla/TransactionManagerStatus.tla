----------------------- MODULE TransactionManagerStatus -----------------------
(***************************************************************************)
(* TransactionManagerStatus of diesel/src/connection/transaction_manager.rs *)
(* and what changes it: the depth, the flag that says the transaction may  *)
(* have to be rolled back up to the top level, the error state, and the    *)
(* hooks that a backend runs on the reply to a statement.  The synchronous *)
(* and the asynchronous manager share these definitions.                   *)
(*                                                                         *)
(* A status is a record: in_error is InError; otherwise depth 0 is         *)
(* Valid { in_transaction: None } and the other fields are those of        *)
(* InTransactionStatus.                                                    *)
(***************************************************************************)
EXTENDS Naturals, SqlSession

Status == [in_error : BOOLEAN, depth : Nat, requires_rollback : BOOLEAN, test : BOOLEAN]

NoTransaction == [in_error |-> FALSE, depth |-> 0,
                  requires_rollback |-> FALSE, test |-> FALSE]
InError       == [NoTransaction EXCEPT !.in_error = TRUE]

IsOpen(status) == ~status.in_error /\ status.depth > 0

(* The code saturates at 2^32 - 1 levels, which no bound comes near.       *)
IncreaseDepth(status) == [status EXCEPT !.depth = @ + 1]
DecreaseDepth_Forgets(status) == NoTransaction     \* mistake: the depth is a flag
DecreaseDepth(status) == IF status.depth = 1 THEN NoTransaction
                         ELSE [status EXCEPT !.depth = @ - 1]

SetRequiresRollback(status, to) ==
    IF IsOpen(status) THEN [status EXCEPT !.requires_rollback = to] ELSE status
SetTestTransactionFlag(status) ==
    IF IsOpen(status) THEN [status EXCEPT !.test = TRUE] ELSE status

(* What a pool asks of a connection that comes back.                       *)
IsBrokenTransactionManager(status) == status.in_error \/ (status.depth > 0 /\ ~status.test)

-------------------------------------------------------------------------------
(* The SQL each call sends, from the depth before the call.                *)

(* mistakes: every savepoint has the same name; no savepoints at all        *)
BeginSql_OneName(status) == IF status.depth = 0 THEN TransactionSql("begin", 0)
                            ELSE TransactionSql("savepoint", 1)
BeginSql_AlwaysBegin(status) == TransactionSql("begin", 0)

BeginSql(status)    == IF status.depth = 0 THEN TransactionSql("begin", 0)
                       ELSE TransactionSql("savepoint", status.depth)

(* mistakes: release for rollback to; the outermost savepoint              *)
RollbackSql_Releases(status) == IF status.depth = 1 THEN TransactionSql("rollback", 0)
                                ELSE TransactionSql("release", status.depth - 1)
RollbackSql_ToFirst(status)  == IF status.depth = 1 THEN TransactionSql("rollback", 0)
                                ELSE TransactionSql("rollback_to", 1)

RollbackSql(status) == IF status.depth = 1 THEN TransactionSql("rollback", 0)
                       ELSE TransactionSql("rollback_to", status.depth - 1)

CommitSql_Always(status) == TransactionSql("commit", 0)   \* mistake: no release

CommitSql(status)   == IF status.depth = 1 THEN TransactionSql("commit", 0)
                       ELSE TransactionSql("release", status.depth - 1)

-------------------------------------------------------------------------------
(* What each call makes of the reply.  "status" is the status after the
   backend's hook, "before" the one the call started with; the value is what
   the call returns and the status it leaves.                              *)

Returns == Results \cup {"broken", "not_in_transaction", "already_in_transaction",
                        "rollback_error_on_commit"}
Return(ret, status) == [ret |-> ret, status |-> status]

AfterBegin(status, res) ==
    CASE res # "ok" -> Return(res, status)
      [] res = "ok" /\ status.in_error  -> Return("broken", status)
      [] res = "ok" /\ ~status.in_error -> Return("ok", IncreaseDepth(status))

(* The tail that a commit and a rollback share once the server agreed: the
   backend's hook may already have seen that the transaction is over.      *)
AfterExit_Unguarded(before, status) == Return("ok", DecreaseDepth(status))  \* mistake

AfterExit(before, status) ==
    CASE status.in_error -> Return("broken", status)
      [] IsOpen(status)  -> Return("ok", DecreaseDepth(status))
      [] OTHER -> Return(IF before.depth = 1 THEN "ok" ELSE "not_in_transaction", status)

(* mistake: the level of a savepoint that does not roll back stays up       *)
AfterRollback_KeepsLevel(before, status, res) ==
    IF res = "ok" THEN AfterExit(before, status)
    ELSE Return(res, IF IsOpen(status) /\ status.depth > 1
                     THEN [status EXCEPT !.requires_rollback = TRUE] ELSE InError)

(* A savepoint that does not roll back still ends its level, and the flag
   tells the outer levels that only the top level may be able to repair it. *)
AfterRollback(before, status, res) ==
    CASE res = "ok" -> AfterExit(before, status)
      [] res # "ok" /\ IsOpen(status) /\ status.depth > 1 ->
             Return(IF before.requires_rollback THEN "ok" ELSE res,
                    [status EXCEPT !.depth = @ - 1, !.requires_rollback = TRUE])
      [] res # "ok" /\ status = NoTransaction -> Return(res, status)
      [] OTHER -> Return(res, InError)

-------------------------------------------------------------------------------
(* The hooks that see the reply to a statement before the caller does.     *)

(* PostgreSQL asks libpq for the state of the transaction, after every
   statement but COPY and a load that fails while it is prepared.  Active,
   a state libpq shows only while a statement runs, changes nothing.       *)
PgHook(status, via, res, txn) ==
    CASE via = "copy"    -> status
      [] via # "copy" /\ txn = "aborted" -> SetRequiresRollback(status, TRUE)
      [] via # "copy" /\ txn = "lost"    -> InError
      [] via # "copy" /\ txn = "idle"    -> NoTransaction
      [] via # "copy" /\ txn = "open" /\ res = "ok" -> SetRequiresRollback(status, FALSE)
      [] OTHER -> IF IsOpen(status) THEN status ELSE InError

(* MySQL looks at the error alone, and not at that of batch_execute.       *)
MysqlHook_Deaf(status, via, res) == status     \* mistake: the error is not looked at

MysqlHook(status, via, res) ==
    IF via = "query" /\ res = "serialization" THEN SetRequiresRollback(status, TRUE)
    ELSE status

Hook(status, via, res, txn) ==
    CASE Dialect = "Pg"    -> PgHook(status, via, res, txn)
      [] Dialect = "Mysql" -> MysqlHook(status, via, res)
      [] OTHER             -> status

===============================================================================
