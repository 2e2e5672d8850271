-------------------------- MODULE NestedTransaction ---------------------------
(***************************************************************************)
(* What Connection::transaction promises of one connection, whatever the   *)
(* SQL behind it (diesel/src/connection/mod.rs, the documentation and the  *)
(* signature of transaction): a stack of closures that run inside each     *)
(* other.  A closure that returns Ok hands its writes to the one around it,*)
(* the outermost one makes them durable; one that returns Err loses them,  *)
(* and only them.  Two things may go wrong: a statement that fails dooms   *)
(* the innermost closure, whose writes then cannot be kept, and the        *)
(* connection may break, after which nothing is written any more.          *)
(***************************************************************************)
EXTENDS Naturals, Sequences

CONSTANT Item      \* what a statement can write

VARIABLES
    stack,       \* the writes of each closure that runs, the innermost last
    durable,     \* the writes that are committed
    doomed,      \* the innermost closure cannot be committed any more
    connected    \* the connection is up

nestedVars == <<stack, durable, doomed, connected>>

NestedTypeOK ==
    /\ stack \in Seq(SUBSET Item)
    /\ durable \subseteq Item
    /\ doomed \in BOOLEAN
    /\ connected \in BOOLEAN

NestedInit == stack = <<>> /\ durable = {} /\ doomed = FALSE /\ connected = TRUE

Depth == Len(stack)
Top   == stack[Depth]
Outer == SubSeq(stack, 1, Depth - 1)

Open ==
    /\ connected /\ ~doomed
    /\ stack' = Append(stack, {})
    /\ UNCHANGED <<durable, doomed, connected>>

Put(item) ==
    /\ connected /\ ~doomed
    /\ IF Depth = 0
       THEN durable' = durable \cup {item} /\ UNCHANGED stack
       ELSE stack' = [stack EXCEPT ![Depth] = @ \cup {item}] /\ UNCHANGED durable
    /\ UNCHANGED <<doomed, connected>>

Doom ==
    /\ connected /\ Depth > 0
    /\ doomed' = TRUE
    /\ UNCHANGED <<stack, durable, connected>>

(* Ok of the innermost closure.                                            *)
Keep ==
    /\ connected /\ ~doomed /\ Depth > 0
    /\ IF Depth = 1
       THEN stack' = <<>> /\ durable' = durable \cup Top
       ELSE /\ stack' = [Outer EXCEPT ![Depth - 1] = @ \cup Top]
            /\ UNCHANGED durable
    /\ UNCHANGED <<doomed, connected>>

(* Err of the innermost closure, or a commit that the server refused: its
   writes are gone and nothing else is.                                    *)
Drop ==
    /\ Depth > 0
    /\ stack' = Outer
    /\ doomed' = FALSE
    /\ UNCHANGED <<durable, connected>>

(* The connection breaks, alone or while a closure ends; the server may have
   committed what it was asked to.                                         *)
Break ==
    /\ connected' = FALSE
    /\ doomed' = FALSE
    /\ stack' \in {stack} \cup (IF Depth > 0 THEN {Outer} ELSE {})
    /\ \/ UNCHANGED durable
       \/ Depth = 1 /\ stack' = Outer /\ ~doomed /\ durable' = durable \cup Top
       \/ Depth = 0 /\ \E item \in Item : durable' = durable \cup {item}

NestedNext == Open \/ (\E item \in Item : Put(item)) \/ Doom \/ Keep \/ Drop \/ Break

NestedSpec == NestedInit /\ [][NestedNext]_nestedVars

===============================================================================
