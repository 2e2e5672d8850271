------------------------------- MODULE SqliteRows -------------------------------
(***************************************************************************)
(* The rows of a load on a SqliteConnection (statement_iterator.rs, row.rs *)
(* and stmt.rs of diesel/src/sqlite/connection).  SQLite has one current   *)
(* row, in the statement itself.  The iterator and the row it handed out   *)
(* last share that statement; a caller may keep rows for as long as it     *)
(* likes, and the fields it took from them, drop them and the iterator in  *)
(* any order, and go on with the iterator whatever it returned.            *)
(*                                                                         *)
(* Rows are numbered in the order in which SQLite produced them; all of    *)
(* them, and the iterator, borrow the connection.                          *)
(***************************************************************************)
EXTENDS Naturals, Functions

CONSTANTS
    MaxProduced,   \* bound: the rows that a load produces, over all its runs
    MaxLoads       \* bound: the statements that are executed or loaded

VARIABLES
    run,        \* SQLite's statement: "reset", at a "row", or "over"
    at,         \* the row it is at, 0 for none
    produced,   \* the rows it has produced in this load
    bound,      \* values are bound to its parameters
    iterator,   \* "none", "not_started", "taken" (nothing left in NotStarted), "started"
    last,       \* the row that shares the iterator's cell, 0 when it is gone
    held,       \* the rows the caller holds
    copies,     \* the row whose values were copied to each that is not in the statement
    borrowed,   \* the rows of which a field or a value lives
    loads       \* counts towards MaxLoads

statement == <<run, at, produced, bound>>
rowsVars == <<run, at, produced, bound, iterator, last, held, copies, borrowed, loads>>

RowsTypeOK ==
    /\ run \in {"reset", "row", "over"} /\ produced \in Nat /\ at \in 0..produced
    /\ bound \in BOOLEAN
    /\ iterator \in {"none", "not_started", "taken", "started"}
    /\ last \in {0} \cup held /\ held \subseteq 1..produced /\ borrowed \subseteq held
    /\ DOMAIN copies \subseteq held /\ loads \in Nat

RowsInit ==
    /\ run = "reset" /\ at = 0 /\ produced = 0 /\ bound = FALSE
    /\ iterator = "none" /\ last = 0 /\ held = {} /\ copies = <<>>
    /\ borrowed = {} /\ loads = 0

(* Nothing borrows the connection.                                         *)
Free == iterator = "none" /\ held = {}

-------------------------------------------------------------------------------
(* The statement.                                                          *)

(* mistake: only a statement that is at its end is reset                    *)
Reset_AtEnd == IF run = "over" THEN "reset" ELSE run
Reset == "reset"

(* Drop of BoundStatement: reset, and unbind what was borrowed.            *)
Release ==
    /\ run' = Reset /\ at' = 0 /\ bound' = FALSE
    /\ UNCHANGED produced

(* sqlite3_step.  From a row it goes on; otherwise SQLite begins a new run,
   resetting a statement that is over by itself: the iterator goes on after
   its end too.                                                            *)
Step(res) ==
    /\ res = "row" => produced < MaxProduced
    /\ run' = IF res = "row" THEN "row" ELSE "over"
    /\ produced' = IF res = "row" THEN produced + 1 ELSE produced
    /\ at' = IF res = "row" THEN produced + 1 ELSE 0
    /\ UNCHANGED bound

-------------------------------------------------------------------------------
(* The calls.                                                              *)

(* prepared_query found the statement and bound its values.                *)
Load ==
    /\ Free /\ loads < MaxLoads /\ loads' = loads + 1
    /\ iterator' = "not_started" /\ bound' = TRUE
    /\ produced' = 0
    /\ UNCHANGED <<run, at, last, held, copies, borrowed>>

(* A value cannot be bound, or execute_returning_count has made its one
   step: the statement is dropped at once.                                 *)
LoadFailsOrExecute ==
    /\ Free /\ loads < MaxLoads /\ loads' = loads + 1
    /\ Release
    /\ UNCHANGED <<iterator, last, held, copies, borrowed>>

(* next() hands out the row that was produced; it shares the statement.    *)
HandsOut(res) ==
    /\ held' = IF res = "row" THEN held \cup {produced + 1} ELSE held
    /\ last' = IF res = "row" THEN produced + 1 ELSE 0

FirstNext(res) ==
    /\ iterator = "not_started"
    /\ IF res = "row" THEN Step(res) /\ iterator' = "started"
       ELSE Release /\ iterator' = "taken"
    /\ HandsOut(res)
    /\ UNCHANGED <<copies, borrowed, loads>>

(* The row handed out last is gone: its cell is used again.                *)
OwnedNext(res) ==
    /\ iterator = "started" /\ last = 0
    /\ Step(res) /\ HandsOut(res)
    /\ UNCHANGED <<iterator, copies, borrowed, loads>>

(* mistake: the values are copied after the step                            *)
Duplicated_Late(res) ==
    [r \in DOMAIN copies \cup {last} |->
        IF r # last THEN copies[r] ELSE IF res = "row" THEN produced + 1 ELSE 0]
(* The row that is still held gets a copy of its values, before the step.  *)
Duplicated(res) ==
    [r \in DOMAIN copies \cup {last} |-> IF r = last THEN at ELSE copies[r]]

(* mistake: fields that live are not asked for                              *)
CanReborrow_Always == TRUE
(* Nobody may look at the row while it is copied: next() fails otherwise,
   and changes nothing.                                                    *)
CanReborrow == last \notin borrowed

(* It is: handle_duplicated_row_case.                                      *)
DuplicatedNext(res) ==
    /\ iterator = "started" /\ last # 0 /\ CanReborrow
    /\ copies' = Duplicated(res) /\ Step(res) /\ HandsOut(res)
    /\ UNCHANGED <<iterator, borrowed, loads>>

(* Who else has the statement when the iterator is dropped.                *)
DropIterator ==
    /\ iterator # "none" /\ iterator' = "none"
    /\ IF iterator # "taken" /\ last = 0 THEN Release ELSE UNCHANGED statement
    /\ last' = 0
    /\ UNCHANGED <<held, copies, borrowed, loads>>

-------------------------------------------------------------------------------
(* The rows.                                                               *)

Direct(r) == r \notin DOMAIN copies

(* get and value, and the end of what they returned.  That get by name
   panics while the row is borrowed, and changes nothing then, is left out. *)
Borrow(r) ==
    /\ r \in held \ borrowed /\ borrowed' = borrowed \cup {r}
    /\ UNCHANGED <<statement, iterator, last, held, copies, loads>>
Return(r) ==
    /\ r \in borrowed /\ borrowed' = borrowed \ {r}
    /\ UNCHANGED <<statement, iterator, last, held, copies, loads>>

DropRow(r) ==
    /\ r \in held \ borrowed /\ held' = held \ {r}
    /\ last' = IF last = r THEN 0 ELSE last
    /\ IF iterator = "none" /\ Direct(r) THEN Release ELSE UNCHANGED statement
    /\ copies' = Restrict(copies, DOMAIN copies \ {r})
    /\ UNCHANGED <<iterator, borrowed, loads>>

-------------------------------------------------------------------------------
RowsNext ==
    \/ Load \/ LoadFailsOrExecute \/ DropIterator
    \/ \E res \in {"row", "done", "error"} : FirstNext(res) \/ OwnedNext(res) \/ DuplicatedNext(res)
    \/ \E r \in held : Borrow(r) \/ Return(r) \/ DropRow(r)

RowsSpec == RowsInit /\ [][RowsNext]_rowsVars

-------------------------------------------------------------------------------
(* What a row reads, from SQLite or from its copy.                         *)
Reads(r) == IF Direct(r) THEN at ELSE copies[r]

(* A row that the caller holds goes on reading its own values, however far
   the iterator has gone, whatever it met there, and after it was dropped. *)
RowsKeep == \A r \in held : Reads(r) = r

(* The statement never moves under a field or a value that was taken from
   it: their pointers are SQLite's.                                        *)
StaysUnderFields ==
    [][\A r \in held : r \in borrowed /\ Direct(r) => UNCHANGED <<run, at>>]_rowsVars

(* When nothing borrows the connection any more, the statement is reset and
   unbound, whether it is run to its end, failed or dropped in its midst.  *)
LeftReset == Free => run = "reset" /\ bound = FALSE

===============================================================================
