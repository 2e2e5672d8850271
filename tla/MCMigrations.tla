----------------------------- MODULE MCMigrations -----------------------------
(***************************************************************************)
(* Migrations for TLC: an older release that ships two migrations beside a *)
(* newer one that ships three.  1 writes rows, 2 is DDL, 3 is DDL that     *)
(* does not run in a transaction.                                          *)
(***************************************************************************)
EXTENDS Migrations

MCSource == [p \in Procs |-> IF p = "old" THEN {1, 2} ELSE {1, 2, 3}]

ASSUME SourceAssumption == Prefixes

===============================================================================
