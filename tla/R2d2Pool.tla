-------------------------------- MODULE R2d2Pool --------------------------------
(***************************************************************************)
(* One connection of an r2d2 pool (diesel/src/r2d2.rs), driven through     *)
(* PoolTransactionManager, which hands every call to the manager of the    *)
(* connection: ConnectionManager tests it when it is handed out, and asks   *)
(* whether it is broken when it comes back; TestCustomizer begins a test    *)
(* transaction on each new one.  A closure may panic: transaction() then    *)
(* sends nothing, and either someone outside of it catches the panic and    *)
(* goes on with the connection, or the connection is dropped on the way.    *)
(***************************************************************************)
EXTENDS AnsiTransactionManager

VARIABLES
    place,       \* the connection is "new", "idle" in the pool, or "out" with a caller
    customizer   \* "none" or "test": TestCustomizer

pool == <<place, customizer>>

PoolInit == Init /\ place = "new" /\ customizer \in {"none", "test"}

-------------------------------------------------------------------------------
WroteFrom(k) == UNION {scopes[i].wrote : i \in k..Len(scopes)}

(* r2d2 closes the connection, which ends its transaction, and opens another. *)
Replace ==
    /\ conn' = [status |-> NoTransaction,
                session |-> [FreshSession EXCEPT !.durable = conn.session.durable]]
    /\ scopes' = <<>> /\ fate' = Settle(fate, WroteFrom(1), "cancelled")
    /\ place' = "new" /\ UNCHANGED customizer

(* on_acquire: a connection that cannot begin is closed, and r2d2 tries again. *)
Acquire ==
    /\ place = "new" /\ failures < MaxFailures
    /\ IF customizer = "none"
       THEN place' = "idle" /\ UNCHANGED <<vars, customizer>>
       ELSE \E r \in BeginTransaction(conn) :
              /\ CountFailure(r.ret)
              /\ IF r.ret = "ok"
                 THEN /\ conn' = [r.conn EXCEPT !.status = SetTestTransactionFlag(@)]
                      /\ scopes' = <<NewScope(TRUE)>> /\ place' = "idle"
                      /\ UNCHANGED <<fate, customizer>>
                 ELSE Replace

(* is_valid: SELECT 1, and the hook of the connection.                     *)
CheckOut ==
    /\ place = "idle"
    /\ IF conn.session.txn \in {"aborted", "lost"} THEN Replace
       ELSE /\ conn' = [conn EXCEPT !.status = Hook(@, "query", "ok", conn.session.txn)]
            /\ place' = "out" /\ UNCHANGED <<scopes, fate, customizer>>
    /\ UNCHANGED failures

(* What the caller does with it: all but begin_test_transaction.           *)
Use == /\ place = "out" /\ UNCHANGED pool
       /\ Begin \/ BeginSqlTransaction \/ Statement \/ CloseOk \/ CloseErr

Closures == {i \in DOMAIN scopes : ~scopes[i].test}

(* A panic ends the closures from the k-th on, and is caught there.        *)
Caught(k) ==
    /\ place = "out" /\ failures < MaxFailures /\ failures' = failures + 1
    /\ scopes' = SubSeq(scopes, 1, k - 1) /\ fate' = Settle(fate, WroteFrom(k), "cancelled")
    /\ UNCHANGED <<conn, pool>>

(* mistake: the depth of the transaction is not looked at                   *)
HasBroken_InError == conn.status.in_error
HasBroken == IsBrokenTransactionManager(conn.status)

(* The caller drops it; panicking, with closures still running or not.     *)
CheckIn(panicking) ==
    /\ place = "out"
    /\ Closures # {} => panicking
    /\ IF panicking \/ HasBroken THEN Replace
       ELSE place' = "idle" /\ UNCHANGED <<conn, scopes, fate, customizer>>
    /\ UNCHANGED failures

PoolNext ==
    \/ Acquire \/ CheckOut \/ Use
    \/ \E k \in Closures : Caught(k)
    \/ \E panicking \in BOOLEAN : CheckIn(panicking)

PoolSpec == PoolInit /\ [][PoolNext]_<<vars, pool>>

-------------------------------------------------------------------------------
(* A connection that waits in the pool carries no transaction of the caller
   who had it last, after a panic that was caught too; and of what goes
   through a pool with TestCustomizer, which "ensures transactions in a pool
   customized by it are never committed" (r2d2.rs:457-459), nothing becomes
   durable.                                                                *)
PooledIsClean ==
    /\ place = "idle" /\ customizer = "none" => conn.session.txn \in {"idle", "lost"}
    /\ customizer = "test" => conn.session.durable = {}

(* A connection that broke is not one that waits in the pool: whichever
   statement met the break, a COMMIT included, the manager knows (but for
   COPY, after which the test of is_valid has to find it).                 *)
PooledIsAlive == place = "idle" => conn.session.txn # "lost"

===============================================================================
