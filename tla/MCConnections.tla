----------------------------- MODULE MCConnections -----------------------------
(***************************************************************************)
(* Three connections for TLC, each with a state that outlives a call: the  *)
(* queries pipelined over a shared AsyncPgConnection, the rows of a        *)
(* SqliteConnection and the statement cache of a TursoConnection.  The     *)
(* first state picks one of them for good; the others stay as they begin.  *)
(***************************************************************************)
EXTENDS AsyncPgPipeline, SqliteRows, TursoStatementCache

VARIABLE connection    \* which one this behaviour uses

(* Two texts of one call site, and two of their own.                       *)
MCFamilyOf == [t \in {"a?", "a??", "b", "c"} |-> IF t \in {"a?", "a??"} THEN "a" ELSE t]

MCInit == /\ Init /\ RowsInit /\ CacheInit
          /\ connection \in {"Pg", "Sqlite", "Turso"}
          /\ connection # "Pg" => watched

MCNext == /\ \/ connection = "Pg" /\ Next /\ UNCHANGED <<rowsVars, cacheVars>>
             \/ connection = "Sqlite" /\ RowsNext /\ UNCHANGED <<vars, cacheVars>>
             \/ connection = "Turso" /\ CacheNext /\ UNCHANGED <<vars, rowsVars>>
          /\ UNCHANGED connection

(* The fairness is that of AsyncPgPipeline.                                *)
MCSpec == MCInit /\ [][MCNext]_<<vars, rowsVars, cacheVars, connection>> /\ Fairness

===============================================================================
