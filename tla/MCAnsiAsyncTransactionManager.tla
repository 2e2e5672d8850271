-------------------- MODULE MCAnsiAsyncTransactionManager --------------------
(***************************************************************************)
(* AnsiAsyncTransactionManager for TLC, three databases in one model: the  *)
(* configuration gives PostgreSQL, the instances give Turso and MySQL, and *)
(* the first state picks one of them for good.                             *)
(***************************************************************************)
EXTENDS AnsiAsyncTransactionManager

VARIABLE database    \* whose manager and pool this behaviour is about

(* bb8, a release build, three levels, both kinds of failed COMMIT.        *)
Turso == INSTANCE AnsiAsyncTransactionManagerProofs WITH
    Dialect <- "Turso", Faults <- {"error", "refuse", "abandon"},
    Pool <- "bb8", Recycling <- "Fast",
    DebugAssertions <- FALSE, CancelWhole <- TRUE,
    MaxDepth <- 3, MaxWrites <- 3, MaxFailures <- 3

(* deadpool, a debug build, any suffix of the closures dropped.            *)
Mysql == INSTANCE AnsiAsyncTransactionManagerProofs WITH
    Dialect <- "Mysql", Faults <- {"error", "serialization", "refuse", "lost"},
    Pool <- "deadpool", Recycling <- "Fast",
    DebugAssertions <- TRUE, CancelWhole <- FALSE,
    MaxDepth <- 2, MaxWrites <- 2, MaxFailures <- 3

MCInit == Init /\ database \in {"Pg", "Turso", "Mysql"}

MCNext == /\ \/ database = "Pg" /\ Next
             \/ database = "Turso" /\ Turso!Next
             \/ database = "Mysql" /\ Mysql!Next
          /\ UNCHANGED database

MCSpec == MCInit /\ [][MCNext]_<<vars, database>>

-------------------------------------------------------------------------------
(* PostgreSQL and MySQL: the manager that believes that no transaction is
   open, with no statement cut off, is right.  Turso's release build is the
   run async_turso_release.                                                *)
CleanWhenIdleOnServers == database # "Turso" => CleanWhenIdle

(* Turso: a top-level Ok means committed.  PostgreSQL is the run
   async_pg_inner_failure.                                                 *)
KeptIsDurableOnTurso == database = "Turso" => KeptIsDurable

(* PostgreSQL and Turso, whole tasks dropped: an Err means undone, and what a
   task wrote that was dropped in its transaction is never made durable by
   whoever gets the connection next.  On MySQL a closure that ignores a
   deadlock autocommits what follows.                                      *)
UndoneOffMysql == database # "Mysql" => DroppedIsUndone /\ CancelledIsUndone

(* PostgreSQL and Turso: nobody works with the is_commit of a commit that was
   dropped.  On MySQL, whose hook does not read it, a caller who drops a part
   of his closures keeps the connection, and the flag.                      *)
NoStaleCommitOffMysql == database # "Mysql" => NoStaleCommit

===============================================================================
