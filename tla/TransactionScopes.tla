--------------------------- MODULE TransactionScopes ---------------------------
(***************************************************************************)
(* What the callers of a connection may believe, which the properties      *)
(* compare with what the database holds.  A scope is a closure that runs   *)
(* inside transaction() (transaction in                                    *)
(* diesel/src/connection/transaction_manager.rs and                        *)
(* async_transaction_manager.rs): what it wrote, with what the closures    *)
(* inside it handed to it, and whether it saw a statement fail.  The fate  *)
(* of a write records how the closures around it ended.                    *)
(***************************************************************************)
EXTENDS Naturals, Sequences

CONSTANTS
    MaxDepth,     \* bound: closures nested at most this deep
    MaxWrites,    \* bound: data statements that succeed
    MaxFailures   \* bound: calls that fail and closures that end with Err

ASSUME BoundsAssumption ==
    /\ MaxDepth \in Nat \ {0}
    /\ MaxWrites \in Nat
    /\ MaxFailures \in Nat

Items == 1..MaxWrites
Scope == [wrote : SUBSET Items, failed : BOOLEAN, test : BOOLEAN]
NewScope(test) == [wrote |-> {}, failed |-> FALSE, test |-> test]

(* pending    in a closure that still runs
   auto       written outside of any transaction()
   kept       the outermost transaction() returned Ok
   swallowed  so it did, though a closure had seen a statement fail
   dropped    a transaction() around it returned Err
   cancelled  a transaction() around it was a future that was dropped, or
              panicked
   unknown    the connection broke, or the future was dropped, while the
              outermost transaction() committed or the write was sent      *)
Fates == {"pending", "auto", "kept", "swallowed", "dropped", "cancelled", "unknown"}

(* A statement fails inside a closure, which may go on all the same.       *)
NoteFailure(s) == IF s = <<>> THEN s ELSE [s EXCEPT ![Len(s)].failed = TRUE]

Inner(s) == SubSeq(s, 1, Len(s) - 1)
Merge(s) == IF Len(s) = 1 THEN <<>>
            ELSE [Inner(s) EXCEPT ![Len(s) - 1].wrote  = @ \cup s[Len(s)].wrote,
                                  ![Len(s) - 1].failed = @ \/ s[Len(s)].failed]

Settle(ends, items, f) == [i \in DOMAIN ends |-> IF i \in items THEN f ELSE ends[i]]

===============================================================================
