-------------------------- MODULE TursoStatementCache --------------------------
(***************************************************************************)
(* Which statements TursoConnection compiles through Turso's own cache,    *)
(* which never evicts: StatementCache of diesel/src/turso/connection.rs.   *)
(* A statement that diesel takes to be safe goes in at once; any other has *)
(* to come back with the same text before its family, the texts that       *)
(* differ only in how many placeholders they have, shows a second text.    *)
(* The families on probation are bounded, and the oldest is forgotten.     *)
(*                                                                         *)
(* A text is admitted when the call is made, and compiled by the future of *)
(* the call, which may fail or be dropped.  The connection is borrowed     *)
(* until that future is over.                                              *)
(***************************************************************************)
EXTENDS Naturals, Sequences, FiniteSets

CONSTANTS
    Texts,                  \* SQL texts
    FamilyOf,               \* family_of: of each text, without the lengths of its lists
    MaxCachedStatements,    \* MAX_CACHED_STATEMENTS
    MaxProbationFamilies,   \* MAX_PROBATION_FAMILIES
    MaxExecutions           \* bound: the statements that are executed

Families == {FamilyOf[t] : t \in Texts}

(* What a family shows that has shown two texts.                           *)
Variadic == "variadic"

ASSUME TursoAssumption ==
    /\ FamilyOf \in [Texts -> Families] /\ Variadic \notin Texts
    /\ MaxCachedStatements \in Nat /\ MaxProbationFamilies \in Nat /\ MaxExecutions \in Nat

VARIABLES
    disabled,         \* the size is CacheSize::Disabled
    admitted,         \* the texts admitted
    families,         \* family -> the one text seen, or Variadic
    probation_order,  \* the families in the order in which they came
    hits, uncached, refused_at_cap, variadic_families,    \* StatementCacheStats
    running,          \* the call whose future runs: text and cached, or none
    compiled,         \* Turso's cache
    executions,       \* the statements executed
    learnt,           \* per family: how often it was put on probation
    slots             \* per family: the texts admitted because they recurred

stats == <<hits, uncached, refused_at_cap, variadic_families>>
cacheVars == <<disabled, admitted, families, probation_order, hits, uncached, refused_at_cap,
          variadic_families, running, compiled, executions, learnt, slots>>

NoCall == [text |-> Variadic, cached |-> FALSE]

CacheTypeOK ==
    /\ disabled \in BOOLEAN /\ admitted \in SUBSET Texts
    /\ DOMAIN families \subseteq Families
    /\ \A f \in DOMAIN families : families[f] \in Texts \cup {Variadic}
    /\ probation_order \in Seq(Families)
    /\ hits \in Nat /\ uncached \in Nat /\ refused_at_cap \in Nat /\ variadic_families \in Nat
    /\ running \in [text : Texts \cup {Variadic}, cached : BOOLEAN]
    /\ compiled \in SUBSET Texts /\ executions \in Nat
    /\ learnt \in [Families -> Nat] /\ slots \in [Families -> Nat]

CacheInit ==
    /\ disabled = FALSE /\ admitted = {} /\ families = <<>> /\ probation_order = <<>>
    /\ hits = 0 /\ uncached = 0 /\ refused_at_cap = 0 /\ variadic_families = 0
    /\ running = NoCall /\ compiled = {} /\ executions = 0
    /\ learnt = [f \in Families |-> 0] /\ slots = [f \in Families |-> 0]

-------------------------------------------------------------------------------
(* Probation.                                                              *)

Known(t) == FamilyOf[t] \in DOMAIN families

(* mistake: a text is admitted as soon as its family is known               *)
Recurs_Family(t) == Known(t)
(* The second sighting of the only text its family has ever shown.         *)
Recurs(t) == Known(t) /\ families[FamilyOf[t]] = t

(* mistake: only the queue is trimmed                                       *)
Forgotten_Kept(order) == {}
(* The families that are past the bound.                                   *)
Forgotten(order) == {order[i] : i \in 1..(Len(order) - MaxProbationFamilies)}

(* recurs, of a text that does not: its family is put on probation, or is
   found to be variadic, or is already.                                    *)
Sight(t) ==
    IF ~Known(t)
    THEN LET order == Append(probation_order, FamilyOf[t])
             kept  == (DOMAIN families \cup {FamilyOf[t]}) \ Forgotten(order)
         IN /\ families' = [f \in kept |-> IF f = FamilyOf[t] THEN t ELSE families[f]]
            /\ probation_order' = IF Len(order) > MaxProbationFamilies THEN Tail(order) ELSE order
            /\ learnt' = [learnt EXCEPT ![FamilyOf[t]] = @ + 1]
            /\ UNCHANGED variadic_families
    ELSE /\ families' = [families EXCEPT ![FamilyOf[t]] = Variadic]
         /\ variadic_families' = IF families[FamilyOf[t]] = Variadic THEN variadic_families
                                 ELSE variadic_families + 1
         /\ UNCHANGED <<probation_order, learnt>>

probation == <<families, probation_order, learnt>>

-------------------------------------------------------------------------------
(* admit, when a statement is executed or loaded: safe is what diesel thinks
   of it.                                                                  *)

Runs(t, cached) ==
    /\ running = NoCall /\ executions < MaxExecutions
    /\ running' = [text |-> t, cached |-> cached]
    /\ executions' = executions + 1
    /\ UNCHANGED <<disabled, compiled>>

Disabled(t) ==
    /\ disabled /\ Runs(t, FALSE)
    /\ uncached' = uncached + 1
    /\ UNCHANGED <<admitted, probation, hits, refused_at_cap, variadic_families, slots>>

Hit(t) ==
    /\ ~disabled /\ t \in admitted /\ Runs(t, TRUE)
    /\ hits' = hits + 1
    /\ UNCHANGED <<admitted, probation, uncached, refused_at_cap, variadic_families, slots>>

OnProbation(t, safe) ==
    /\ ~disabled /\ t \notin admitted /\ ~safe /\ ~Recurs(t) /\ Runs(t, FALSE)
    /\ Sight(t) /\ uncached' = uncached + 1
    /\ UNCHANGED <<admitted, hits, refused_at_cap, slots>>

AtCap == Cardinality(admitted) >= MaxCachedStatements

RefusedAtCap(t, safe) ==
    /\ ~disabled /\ t \notin admitted /\ (safe \/ Recurs(t)) /\ AtCap /\ Runs(t, FALSE)
    /\ refused_at_cap' = refused_at_cap + 1 /\ uncached' = uncached + 1
    /\ UNCHANGED <<admitted, probation, hits, variadic_families, slots>>

Admitted(t, safe) ==
    /\ ~disabled /\ t \notin admitted /\ (safe \/ Recurs(t)) /\ ~AtCap /\ Runs(t, TRUE)
    /\ admitted' = admitted \cup {t}
    /\ slots' = IF safe THEN slots ELSE [slots EXCEPT ![FamilyOf[t]] = @ + 1]
    /\ UNCHANGED <<stats, probation>>

-------------------------------------------------------------------------------
(* The future of the call: prepare_cached or prepare, then the statement.  *)
Compiles ==
    /\ running # NoCall /\ running' = NoCall
    /\ compiled' = IF running.cached THEN compiled \cup {running.text} ELSE compiled
    /\ UNCHANGED <<disabled, admitted, probation, stats, executions, slots>>

(* Turso rejects the text, or the future is dropped before it is compiled. *)
NeverCompiles ==
    /\ running # NoCall /\ running' = NoCall
    /\ UNCHANGED <<disabled, admitted, probation, stats, compiled, executions, slots>>

SetPreparedStatementCacheSize ==
    /\ running = NoCall /\ disabled' = ~disabled
    /\ UNCHANGED <<admitted, probation, stats, running, compiled, executions, slots>>

CacheNext ==
    \/ \E t \in Texts : Disabled(t) \/ Hit(t)
    \/ \E t \in Texts, safe \in BOOLEAN :
          OnProbation(t, safe) \/ RefusedAtCap(t, safe) \/ Admitted(t, safe)
    \/ Compiles \/ NeverCompiles \/ SetPreparedStatementCacheSize

CacheSpec == CacheInit /\ [][CacheNext]_cacheVars

-------------------------------------------------------------------------------
(* The map of families is trimmed in step with the queue that bounds it:
   they name the same families, once each, and never too many; and Turso's
   cache, which never evicts, holds no more texts than the cap allows.      *)
Bounded ==
    /\ DOMAIN families = {probation_order[i] : i \in DOMAIN probation_order}
    /\ \A i, j \in DOMAIN probation_order :
          probation_order[i] = probation_order[j] => i = j
    /\ Len(probation_order) <= MaxProbationFamilies
    /\ compiled \subseteq admitted
    /\ Cardinality(admitted) <= MaxCachedStatements

(* "A variadic call site can therefore cost one slot before it is recognised
   ... but never a slot per length" (turso/connection.rs:308-310), and one
   more each time it was forgotten and had to be learnt again.             *)
OneSlotEachTime == \A f \in Families : slots[f] <= learnt[f]

(* Every statement executed is a hit, is uncached, or was the first of an
   admitted text: nothing is counted twice, and none of the compilations
   that the cache exists to avoid goes uncounted.                          *)
ExecutionsAddUp == hits + uncached + Cardinality(admitted) = executions

===============================================================================
