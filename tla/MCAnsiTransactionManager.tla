----------------------- MODULE MCAnsiTransactionManager -----------------------
(***************************************************************************)
(* AnsiTransactionManager for TLC, five databases in one model: the        *)
(* configuration gives PostgreSQL, the instances give MySQL, SQLite, SQLite *)
(* on a full disk, and PostgreSQL in a pool, and the first state picks one *)
(* of them for good.                                                       *)
(* The instances are of the module with the proofs, so that what is       *)
(* proved of a manager or a pool is known of them.                         *)
(* Over PostgreSQL the promise of Connection::transaction is checked as a  *)
(* refinement: the stack is that of the running closures, and the          *)
(* innermost closure is doomed exactly while the server refuses            *)
(* statements.                                                             *)
(***************************************************************************)
EXTENDS R2d2Pool

VARIABLE database    \* which one this behaviour talks to

(* Deadlocks that roll the whole transaction back.                         *)
Mysql == INSTANCE AnsiTransactionManagerProofs WITH
    Dialect <- "Mysql", Faults <- {"error", "serialization", "lost"},
    StatementVias <- {"query"}

(* Commits that the database refuses and that leave the transaction open.  *)
Sqlite == INSTANCE AnsiTransactionManagerProofs WITH
    Dialect <- "Sqlite", Faults <- {"error", "refuse"},
    StatementVias <- {"query"}

(* A disk that is full: a statement that fails rolls the transaction back.  *)
FullSqlite == INSTANCE AnsiTransactionManagerProofs WITH
    Dialect <- "Sqlite", Faults <- {"error", "refuse", "abandon"},
    StatementVias <- {"query"}

(* Two closures in a test transaction, and calls that fail or panic.       *)
Pool == INSTANCE AnsiTransactionManagerProofs WITH
    Dialect <- "Pg", Faults <- {"error", "lost"}, StatementVias <- {"query"},
    MaxWrites <- 2

MCInit == /\ Pool!PoolInit
          /\ database \in {"Pg", "Mysql", "Sqlite", "FullSqlite", "Pool"}
          /\ database # "Pool" => customizer = "none"

MCNext == /\ \/ database = "Pg" /\ Next /\ UNCHANGED <<place, customizer>>
             \/ database = "Mysql" /\ Mysql!Next /\ UNCHANGED <<place, customizer>>
             \/ database = "Sqlite" /\ Sqlite!Next /\ UNCHANGED <<place, customizer>>
             \/ database = "FullSqlite" /\ FullSqlite!Next /\ UNCHANGED <<place, customizer>>
             \/ database = "Pool" /\ Pool!PoolNext
          /\ UNCHANGED database

MCSpec == MCInit /\ [][MCNext]_<<vars, database, place, customizer>>

-------------------------------------------------------------------------------
(* PostgreSQL, whose hook follows libpq: the depth is that of the closures,
   and so it is on MySQL, after a ROLLBACK TO that failed too, while the
   connection stands.  SQLite, where a COMMIT or a RELEASE that fails leaves
   its level up, and MySQL: the depth never falls behind the closures.     *)
DepthFollowsScopes ==
    /\ database = "Pg" => DepthIsScopes
    /\ database = "Mysql" /\ conn.session.txn # "lost" => DepthIsScopes
    /\ database \in {"Mysql", "Sqlite", "FullSqlite"} => DepthCoversScopes

(* MySQL, after deadlocks: nothing autocommits while the manager takes the
   transaction to be in order.                                             *)
NoSilentAutocommitOnServers == database \in {"Pg", "Mysql"} => NoSilentAutocommit

(* PostgreSQL: what a COMMIT would make durable is what the running closures
   wrote.  PostgreSQL and MySQL (which drops an older savepoint of the same
   name): the newest savepoint of a level holds the work below it.         *)
LevelsHoldTheirWork ==
    /\ database = "Pg" => WorkIsPending
    /\ database \in {"Pg", "Mysql"} => SavepointsHoldOuterWork

(* PostgreSQL: Ok means committed.  SQLite is the run
   tm_sqlite_refused_commit.                                               *)
KeptIsDurableOnPg == database = "Pg" => KeptIsDurable

(* PostgreSQL and SQLite: Err means undone, and nothing of a closure that
   still runs is durable, not even after a COMMIT that was refused.  On MySQL
   a closure that ignores a deadlock autocommits what follows, and on
   SQLite one that ignores a full disk.                                    *)
DroppedIsUndoneOffMysql ==
    database \in {"Pg", "Sqlite"} => DroppedIsUndone /\ PendingIsNotDurable

(* PostgreSQL in a pool: nobody is handed the transaction of another, nothing
   of a test pool becomes durable, and a connection that broke, in a COMMIT
   or in a query, is not kept.                                             *)
PoolIsClean == database = "Pool" => Pool!PooledIsClean /\ Pool!PooledIsAlive

Promise == INSTANCE NestedTransaction WITH
    Item      <- Items,
    stack     <- [i \in DOMAIN scopes |-> scopes[i].wrote],
    durable   <- conn.session.durable,
    doomed    <- conn.session.txn = "aborted",
    connected <- conn.session.txn # "lost"

(* Every behaviour of the manager over PostgreSQL is one that
   NestedTransaction allows: a closure's writes go to the closure around it
   or to the database when it returns Ok, and vanish, alone, on Err.       *)
KeepsThePromise ==
    Promise!NestedInit /\ [][database = "Pg" => Promise!NestedNext]_(Promise!nestedVars)

===============================================================================
