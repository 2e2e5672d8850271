-------------------------- MODULE MCConnectionsProofs --------------------------
(***************************************************************************)
(* The safety of the three connections of MCConnections, for any number of *)
(* rows and loads, any sets of texts, queries and statements, any bounds;  *)
(* and of SyncConnectionWrapper, for any number of calls.                  *)
(***************************************************************************)
EXTENDS MCConnections, SyncConnectionWrapper, FiniteSetTheorems, TLAPS

-------------------------------------------------------------------------------
(***************************************************************************)
(* SqliteRows.  The invariant is about the one row that may still read the *)
(* statement: while there is an iterator it is the row handed out last, and*)
(* when there is neither, the statement is reset.                          *)
(***************************************************************************)

(* Only the row handed out last reads the statement, if the caller holds it;
   the others have a copy.                                                 *)
OneReads ==
    /\ iterator # "none" => \A r \in held : Direct(r) <=> r = last
    /\ iterator \in {"none", "not_started", "taken"} => last = 0
    /\ iterator \in {"not_started", "taken"} => held = {}

(* A statement that nothing reads any more is reset.                       *)
ResetUnread ==
    /\ run # "row" => at = 0
    /\ iterator \in {"none", "taken"} /\ (\A r \in held : ~Direct(r)) =>
          run = "reset" /\ bound = FALSE

RowsInv == RowsTypeOK /\ RowsKeep /\ OneReads /\ ResetUnread

LEMMA InitRowsInv == RowsInit => RowsInv
  <1>. SUFFICES ASSUME RowsInit PROVE RowsInv
    OBVIOUS
  <1>. USE DEF RowsInit
  <1>1. DOMAIN copies = {}
    OBVIOUS
  <1>2. RowsTypeOK
    <2>1. /\ run \in {"reset", "row", "over"} /\ bound \in BOOLEAN
          /\ iterator \in {"none", "not_started", "taken", "started"}
      OBVIOUS
    <2>2. produced \in Nat /\ at \in 0..produced /\ held \subseteq 1..produced /\ loads \in Nat
      OBVIOUS
    <2>. QED
      BY <1>1, <2>1, <2>2 DEF RowsTypeOK
  <1>. QED
    BY <1>2 DEF RowsInv, RowsKeep, OneReads, ResetUnread

LEMMA LoadInv == RowsInv /\ Load => RowsInv'
  BY DEF RowsInv, RowsTypeOK, RowsKeep, Reads, OneReads, ResetUnread, Direct, Load, Free

(* A statement that is released leaves the types as they are.              *)
LEMMA ReleaseType ==
    ASSUME RowsTypeOK, Release, loads' \in Nat,
           iterator' \in {"none", "not_started", "taken", "started"}, last' = 0,
           held' \subseteq held, borrowed' \subseteq held', DOMAIN copies' \subseteq held'
    PROVE  RowsTypeOK'
  <1>1. bound' \in BOOLEAN
    BY DEF Release
  <1>2. run' = "reset" /\ at' = 0 /\ produced' = produced
    BY DEF Release, Reset
  <1>3. produced' \in Nat /\ at' \in 0..produced' /\ held' \subseteq 1..produced'
    BY <1>2 DEF RowsTypeOK
  <1>. QED
    BY <1>1, <1>2, <1>3 DEF RowsTypeOK

LEMMA FailsInv == RowsInv /\ LoadFailsOrExecute => RowsInv'
  <1>. SUFFICES ASSUME RowsInv, LoadFailsOrExecute PROVE RowsInv'
    OBVIOUS
  <1>. USE DEF LoadFailsOrExecute, Free, Release, Reset
  <1>1. RowsTypeOK'
    <2>1. last = 0 /\ loads' \in Nat /\ borrowed \subseteq held /\ DOMAIN copies \subseteq held
      BY DEF RowsInv, RowsTypeOK, OneReads
    <2>. QED
      BY <2>1, ReleaseType DEF RowsInv
  <1>2. RowsKeep' /\ OneReads'
    BY DEF RowsInv, RowsKeep, OneReads
  <1>3. ResetUnread'
    BY DEF ResetUnread
  <1>. QED
    BY <1>1, <1>2, <1>3 DEF RowsInv

(* What a step of the statement leaves, when no row that is held reads it. *)
LEMMA StepInv ==
    ASSUME NEW res \in {"row", "done", "error"},
           RowsTypeOK, OneReads, ResetUnread,
           iterator' = "started", Step(res), HandsOut(res), borrowed' = borrowed, loads' = loads,
           DOMAIN copies' = held, \A r \in held : copies'[r] = r
    PROVE  RowsInv'
  <1>1. produced + 1 \notin held
    BY DEF RowsTypeOK
  <1>2. CASE res = "row"
    <2>1. /\ held' = held \cup {produced + 1} /\ last' = produced + 1
          /\ produced' = produced + 1 /\ at' = produced + 1 /\ run' = "row" /\ bound' = bound
      BY <1>2 DEF Step, HandsOut
    <2>2. RowsTypeOK'
      BY <2>1 DEF RowsTypeOK
    <2>3. RowsKeep' /\ OneReads'
      BY <1>1, <2>1 DEF RowsKeep, Reads, OneReads, Direct, RowsTypeOK
    <2>. QED
      BY <2>1, <2>2, <2>3 DEF RowsInv, ResetUnread
  <1>3. CASE res # "row"
    <2>1. /\ held' = held /\ last' = 0
          /\ produced' = produced /\ at' = 0 /\ run' = "over" /\ bound' = bound
      BY <1>3 DEF Step, HandsOut
    <2>2. RowsTypeOK'
      BY <2>1 DEF RowsTypeOK
    <2>3. RowsKeep' /\ OneReads'
      BY <1>1, <2>1 DEF RowsKeep, Reads, OneReads, Direct, RowsTypeOK
    <2>. QED
      BY <2>1, <2>2, <2>3 DEF RowsInv, ResetUnread
  <1>. QED
    BY <1>2, <1>3

LEMMA FirstNextInv ==
    ASSUME RowsInv, NEW res \in {"row", "done", "error"}, FirstNext(res)
    PROVE  RowsInv'
  <1>. USE DEF FirstNext
  <1>1. held = {} /\ DOMAIN copies = {}
    BY DEF RowsInv, OneReads, RowsTypeOK
  <1>2. CASE res = "row"
    BY <1>1, <1>2, StepInv DEF RowsInv
  <1>3. CASE res # "row"
    <2>1. /\ held' = {} /\ last' = 0 /\ iterator' = "taken" /\ run' = "reset" /\ at' = 0
          /\ bound' = FALSE /\ UNCHANGED <<produced, copies, borrowed, loads>>
      BY <1>1, <1>3 DEF Release, Reset, HandsOut
    <2>2. RowsTypeOK'
      <3>1. Release /\ loads' \in Nat /\ borrowed' \subseteq held' /\ DOMAIN copies' \subseteq held'
        BY <1>1, <1>3, <2>1 DEF RowsInv, RowsTypeOK
      <3>. QED
        BY <2>1, <3>1, ReleaseType DEF RowsInv
    <2>. QED
      BY <2>1, <2>2 DEF RowsInv, RowsKeep, OneReads, ResetUnread
  <1>. QED
    BY <1>2, <1>3

LEMMA OwnedNextInv ==
    ASSUME RowsInv, NEW res \in {"row", "done", "error"}, OwnedNext(res)
    PROVE  RowsInv'
  <1>. USE DEF OwnedNext
  <1>1. \A r \in held : r # last
    BY DEF RowsInv, RowsTypeOK
  <1>2. DOMAIN copies = held
    BY <1>1 DEF RowsInv, RowsTypeOK, OneReads, Direct
  <1>3. \A r \in held : copies[r] = r
    BY <1>2 DEF RowsInv, RowsKeep, Reads, Direct
  <1>. QED
    BY <1>2, <1>3, StepInv DEF RowsInv

LEMMA DuplicatedNextInv ==
    ASSUME RowsInv, NEW res \in {"row", "done", "error"}, DuplicatedNext(res)
    PROVE  RowsInv'
  <1>. USE DEF DuplicatedNext, Duplicated
  <1>1. last \in held /\ last \notin DOMAIN copies
    BY DEF RowsInv, RowsTypeOK, OneReads, Direct
  <1>2. at = last /\ DOMAIN copies \cup {last} = held
    BY <1>1 DEF RowsInv, RowsTypeOK, OneReads, RowsKeep, Reads, Direct
  <1>3. DOMAIN copies' = held /\ \A r \in held : copies'[r] = r
    BY <1>1, <1>2 DEF RowsInv, RowsKeep, Reads, Direct
  <1>. QED
    BY <1>3, StepInv DEF RowsInv

LEMMA DropIteratorInv == RowsInv /\ DropIterator => RowsInv'
  <1>. SUFFICES ASSUME RowsInv, DropIterator PROVE RowsInv'
    OBVIOUS
  <1>. USE DEF DropIterator, statement
  <1>1. CASE iterator # "taken" /\ last = 0
    <2>1. /\ run' = "reset" /\ at' = 0 /\ bound' = FALSE /\ last' = 0 /\ iterator' = "none"
          /\ UNCHANGED <<produced, held, copies, borrowed, loads>>
      BY <1>1 DEF Release, Reset
    <2>2. RowsTypeOK'
      <3>1. Release /\ loads' \in Nat /\ borrowed' \subseteq held' /\ DOMAIN copies' \subseteq held'
        BY <1>1, <2>1 DEF RowsInv, RowsTypeOK
      <3>. QED
        BY <2>1, <3>1, ReleaseType DEF RowsInv
    <2>3. \A r \in held : ~Direct(r)
      BY <1>1 DEF RowsInv, RowsTypeOK, OneReads
    <2>4. RowsKeep'
      BY <2>1, <2>3 DEF RowsInv, RowsKeep, Reads, Direct
    <2>. QED
      BY <2>1, <2>2, <2>4 DEF RowsInv, OneReads, ResetUnread
  <1>2. CASE ~(iterator # "taken" /\ last = 0)
    <2>1. /\ last' = 0 /\ iterator' = "none"
          /\ UNCHANGED <<run, at, bound, produced, held, copies, borrowed, loads>>
      BY <1>2
    <2>2. RowsTypeOK'
      BY <2>1 DEF RowsInv, RowsTypeOK
    <2>3. RowsKeep' /\ OneReads'
      BY <2>1 DEF RowsInv, RowsKeep, Reads, Direct, OneReads
    <2>4. iterator = "taken" \/ (Direct(last) /\ last \in held)
      <3>1. last # 0 => last \in held
        BY DEF RowsInv, RowsTypeOK
      <3>2. \A r \in held : Direct(r) <=> r = last
        BY DEF RowsInv, OneReads
      <3>3. \A r \in held : r = last => Direct(r)
        BY <3>2 DEF Direct
      <3>. QED
        BY <1>2, <3>1, <3>3
    <2>. QED
      BY <2>1, <2>2, <2>3, <2>4 DEF RowsInv, ResetUnread, OneReads, Direct
  <1>. QED
    BY <1>1, <1>2

LEMMA BorrowInv ==
    ASSUME RowsInv, NEW r \in held, Borrow(r) \/ Return(r)
    PROVE  RowsInv'
  <1>1. /\ borrowed' \subseteq held
        /\ UNCHANGED <<run, at, bound, produced, iterator, last, held, copies, loads>>
    BY DEF RowsInv, RowsTypeOK, Borrow, Return, statement
  <1>2. RowsTypeOK'
    BY <1>1 DEF RowsInv, RowsTypeOK
  <1>. QED
    BY <1>1, <1>2 DEF RowsInv, RowsKeep, Reads, OneReads, ResetUnread, Direct

LEMMA DropRowInv ==
    ASSUME RowsInv, NEW r \in held, DropRow(r)
    PROVE  RowsInv'
  <1>. USE DEF DropRow, Direct
  <1>1. /\ DOMAIN copies' = DOMAIN copies \ {r}
        /\ \A s \in DOMAIN copies \ {r} : copies'[s] = copies[s]
    BY DEF Restrict
  <1>2. CASE iterator = "none" /\ Direct(r)
    <2>1. \A s \in held' : ~Direct(s)
      BY <1>2 DEF RowsInv, RowsKeep, Reads
    <2>2. /\ run' = "reset" /\ at' = 0 /\ bound' = FALSE /\ last' = 0 /\ held' = held \ {r}
          /\ UNCHANGED <<iterator, produced, borrowed, loads>>
      BY <1>2 DEF RowsInv, OneReads, Release, Reset
    <2>3. RowsTypeOK'
      <3>1. Release /\ loads' \in Nat /\ borrowed' \subseteq held' /\ DOMAIN copies' \subseteq held'
        BY <1>1, <1>2, <2>2 DEF RowsInv, RowsTypeOK
      <3>2. iterator' \in {"none", "not_started", "taken", "started"} /\ held' \subseteq held
        BY <1>2, <2>2
      <3>. QED
        BY <2>2, <3>1, <3>2, ReleaseType DEF RowsInv
    <2>4. RowsKeep' /\ OneReads'
      BY <1>1, <1>2, <2>1, <2>2 DEF RowsInv, RowsTypeOK, RowsKeep, Reads, OneReads
    <2>. QED
      BY <2>2, <2>3, <2>4 DEF RowsInv, ResetUnread
  <1>3. CASE ~(iterator = "none" /\ Direct(r))
    BY <1>1, <1>3 DEF RowsInv, RowsTypeOK, RowsKeep, Reads, OneReads, ResetUnread, statement
  <1>. QED
    BY <1>2, <1>3

LEMMA NextRowsInv == RowsInv /\ [RowsNext]_rowsVars => RowsInv'
  <1>. SUFFICES ASSUME RowsInv, [RowsNext]_rowsVars PROVE RowsInv'
    OBVIOUS
  <1>1. CASE RowsNext
    BY <1>1, LoadInv, FailsInv, DropIteratorInv, FirstNextInv, OwnedNextInv, DuplicatedNextInv,
       BorrowInv, DropRowInv DEF RowsNext
  <1>2. CASE UNCHANGED rowsVars
    BY <1>2 DEF RowsInv, RowsTypeOK, RowsKeep, Reads, OneReads, ResetUnread, Direct, rowsVars
  <1>. QED
    BY <1>1, <1>2

(* The iterator, the rows and the statement are of the types the code gives
   them: only rows that are held have copies or lend fields.               *)
THEOREM RowsTypeCorrect == RowsSpec => []RowsTypeOK
  <1>1. RowsInv => RowsTypeOK
    BY DEF RowsInv
  <1>. QED
    BY <1>1, InitRowsInv, NextRowsInv, PTL DEF RowsSpec

(* Rows outlive the iterator and its steps: each reads its own values, for
   every number of rows, however they are kept, dropped and stepped past.  *)
THEOREM RowsKeepHolds == RowsSpec => []RowsKeep
  <1>1. RowsInv => RowsKeep
    BY DEF RowsInv
  <1>. QED
    BY <1>1, InitRowsInv, NextRowsInv, PTL DEF RowsSpec

(* A connection that nothing borrows has its statement reset and unbound,
   in whatever order the iterator and the rows were dropped.               *)
THEOREM LeftResetHolds == RowsSpec => []LeftReset
  <1>1. RowsInv => LeftReset
    BY DEF RowsInv, ResetUnread, LeftReset, Free
  <1>. QED
    BY <1>1, InitRowsInv, NextRowsInv, PTL DEF RowsSpec

(* No call moves the statement under a field that was taken from it.       *)
THEOREM StaysUnderFieldsHolds == RowsSpec => StaysUnderFields
  <1>. DEFINE Stays == \A r \in held : r \in borrowed /\ Direct(r) => UNCHANGED <<run, at>>
  <1>1. RowsInv /\ [RowsNext]_rowsVars => [Stays]_rowsVars
    <2>. SUFFICES ASSUME RowsInv, RowsNext, NEW r \in held, r \in borrowed, Direct(r)
                  PROVE  UNCHANGED <<run, at>>
      BY DEF Stays
    <2>1. iterator # "none" => last = r /\ last # 0
      BY DEF RowsInv, OneReads, RowsTypeOK
    <2>2. CASE Load \/ LoadFailsOrExecute
      BY <2>2 DEF Load, LoadFailsOrExecute, Free
    <2>3. CASE DropIterator
      BY <2>1, <2>3 DEF DropIterator, statement
    <2>4. CASE \E res \in {"row", "done", "error"} :
                  FirstNext(res) \/ OwnedNext(res) \/ DuplicatedNext(res)
      BY <2>1, <2>4 DEF RowsInv, OneReads, FirstNext, OwnedNext, DuplicatedNext, CanReborrow
    <2>5. CASE \E s \in held : Borrow(s) \/ Return(s) \/ DropRow(s)
      BY <2>5 DEF RowsInv, RowsKeep, Reads, Direct, Borrow, Return, DropRow, statement
    <2>. QED
      BY <2>2, <2>3, <2>4, <2>5 DEF RowsNext
  <1>. QED
    BY <1>1, InitRowsInv, NextRowsInv, PTL DEF RowsSpec, StaysUnderFields

-------------------------------------------------------------------------------
(***************************************************************************)
(* TursoStatementCache.  Bounded is inductive with the types and the text of*)
(* the call that runs; OneSlotEachTime needs to know that a family whose one*)
(* text is not admitted yet has a slot to spend.                           *)
(***************************************************************************)

(* What Turso is asked to cache has been admitted, and the set is finite.  *)
AskedIsAdmitted == /\ running.cached => running.text \in admitted
                   /\ IsFiniteSet(admitted)

(* A family whose only text is not admitted has not spent the slot that its
   last time on probation may cost.                                        *)
SlotToSpend ==
    \A f \in DOMAIN families : families[f] \in Texts \ admitted => slots[f] < learnt[f]

CacheInv == CacheTypeOK /\ AskedIsAdmitted /\ Bounded /\ OneSlotEachTime /\ SlotToSpend /\ ExecutionsAddUp

(* The initial state.                                                      *)
LEMMA InitCacheInv == CacheInit => CacheInv
<1> SUFFICES ASSUME CacheInit PROVE CacheInv
  OBVIOUS
<1>0. IsFiniteSet({}) /\ Cardinality({}) = 0
  BY FS_EmptySet
<1>1. CacheTypeOK
  <2>1. DOMAIN families = {} /\ probation_order \in Seq(Families)
    BY DEF CacheInit
  <2>3. learnt \in [Families -> Nat] /\ slots \in [Families -> Nat]
    BY DEF CacheInit
  <2>4. running \in [text : Texts \cup {Variadic}, cached : BOOLEAN]
    BY DEF CacheInit, NoCall
  <2> QED
    BY <2>1, <2>3, <2>4 DEF CacheInit, CacheTypeOK
<1>2. AskedIsAdmitted
  BY <1>0 DEF CacheInit, AskedIsAdmitted, NoCall
<1>3. Bounded
  BY <1>0, TursoAssumption DEF CacheInit, Bounded
<1>4. OneSlotEachTime /\ SlotToSpend
  BY DEF CacheInit, OneSlotEachTime, SlotToSpend
<1>5. ExecutionsAddUp
  BY <1>0 DEF CacheInit, ExecutionsAddUp
<1> QED
  BY <1>1, <1>2, <1>3, <1>4, <1>5 DEF CacheInv

(* A queue that names a set of families once each still does when one that
   is not in it is appended.                                               *)
LEMMA AppendNew ==
    ASSUME NEW S, NEW q \in Seq(S), NEW x \in S,
           \A i, j \in DOMAIN q : q[i] = q[j] => i = j,
           \A i \in DOMAIN q : q[i] # x
    PROVE  LET r == Append(q, x) IN
           /\ r \in Seq(S) /\ Len(r) = Len(q) + 1
           /\ {r[i] : i \in DOMAIN r} = {q[i] : i \in DOMAIN q} \cup {x}
           /\ \A i, j \in DOMAIN r : r[i] = r[j] => i = j
<1> DEFINE r == Append(q, x)
<1>1. /\ r \in Seq(S) /\ Len(r) = Len(q) + 1 /\ Len(q) \in Nat
      /\ DOMAIN r = 1..Len(q) + 1 /\ DOMAIN q = 1..Len(q)
  OBVIOUS
<1>2. /\ \A i \in DOMAIN q : i \in DOMAIN r /\ r[i] = q[i]
      /\ r[Len(q) + 1] = x
  OBVIOUS
<1>3. \A i \in DOMAIN r : i \in DOMAIN q \/ i = Len(q) + 1
  BY <1>1
<1> HIDE DEF r
<1>4. {r[i] : i \in DOMAIN r} = {q[i] : i \in DOMAIN q} \cup {x}
  <2>1. \A y \in {r[i] : i \in DOMAIN r} : y \in {q[i] : i \in DOMAIN q} \cup {x}
    BY <1>2, <1>3
  <2>2. \A y \in {q[i] : i \in DOMAIN q} : y \in {r[i] : i \in DOMAIN r}
    BY <1>2
  <2>3. x \in {r[i] : i \in DOMAIN r}
    BY <1>1, <1>2
  <2> QED
    BY <2>1, <2>2, <2>3
<1>5. \A i, j \in DOMAIN r : r[i] = r[j] => i = j
  BY <1>2, <1>3
<1> QED
  BY <1>1, <1>4, <1>5 DEF r

(* And when its first is taken away it names the others.                   *)
LEMMA TailOther ==
    ASSUME NEW S, NEW q \in Seq(S), Len(q) > 0,
           \A i, j \in DOMAIN q : q[i] = q[j] => i = j
    PROVE  LET r == Tail(q) IN
           /\ r \in Seq(S) /\ Len(r) = Len(q) - 1
           /\ {r[i] : i \in DOMAIN r} = {q[i] : i \in DOMAIN q} \ {q[1]}
           /\ \A i, j \in DOMAIN r : r[i] = r[j] => i = j
<1> DEFINE r == Tail(q)
<1>1. /\ r \in Seq(S) /\ Len(r) = Len(q) - 1 /\ Len(q) \in Nat
      /\ DOMAIN r = 1..Len(q) - 1 /\ DOMAIN q = 1..Len(q)
  OBVIOUS
<1>2. \A i \in DOMAIN r : i + 1 \in DOMAIN q /\ r[i] = q[i + 1] /\ i + 1 # 1
  BY <1>1
<1>3. \A i \in DOMAIN q : i = 1 \/ (i - 1 \in DOMAIN r /\ r[i - 1] = q[i])
  BY <1>1
<1> HIDE DEF r
<1>4. {r[i] : i \in DOMAIN r} = {q[i] : i \in DOMAIN q} \ {q[1]}
  <2>1. 1 \in DOMAIN q
    BY <1>1
  <2>2. \A y \in {r[i] : i \in DOMAIN r} : y \in {q[i] : i \in DOMAIN q} \ {q[1]}
    BY <1>2, <2>1
  <2>3. \A y \in {q[i] : i \in DOMAIN q} \ {q[1]} : y \in {r[i] : i \in DOMAIN r}
    BY <1>3
  <2> QED
    BY <2>2, <2>3
<1>5. \A i, j \in DOMAIN r : r[i] = r[j] => i = j
  BY <1>1, <1>2
<1> QED
  BY <1>1, <1>4, <1>5 DEF r

-------------------------------------------------------------------------------
(* A text that is admitted, at its first sighting or because it recurred.  *)
LEMMA AdmittedInv ==
    ASSUME CacheInv, NEW t \in Texts, NEW safe \in BOOLEAN, Admitted(t, safe)
    PROVE  CacheInv'
<1>1. /\ t \notin admitted /\ admitted' = admitted \cup {t}
      /\ running' = [text |-> t, cached |-> TRUE] /\ executions' = executions + 1
      /\ Cardinality(admitted) < MaxCachedStatements
      /\ UNCHANGED <<disabled, families, probation_order, learnt, hits, uncached,
                   refused_at_cap, variadic_families, compiled>>
  <2>1. IsFiniteSet(admitted) /\ Cardinality(admitted) \in Nat
    BY FS_CardinalityType DEF CacheInv, AskedIsAdmitted
  <2> QED
    BY <2>1, TursoAssumption DEF Admitted, AtCap, Runs, probation, stats
<1>2. FamilyOf[t] \in Families
  BY DEF Families
<1>3. IsFiniteSet(admitted') /\ Cardinality(admitted') = Cardinality(admitted) + 1
  BY <1>1, FS_AddElement DEF CacheInv, AskedIsAdmitted
<1>4. slots' = IF safe THEN slots ELSE [slots EXCEPT ![FamilyOf[t]] = @ + 1]
  BY DEF Admitted
<1>5. ~safe => FamilyOf[t] \in DOMAIN families /\ families[FamilyOf[t]] = t
  BY DEF Admitted, Recurs, Known
<1>6. CacheTypeOK'
  BY <1>1, <1>2, <1>4 DEF CacheInv, CacheTypeOK
<1>7. AskedIsAdmitted'
  BY <1>1, <1>3 DEF AskedIsAdmitted
<1>8. Bounded'
  <2>1. Cardinality(admitted) \in Nat
    BY FS_CardinalityType DEF CacheInv, AskedIsAdmitted
  <2>2. Cardinality(admitted') <= MaxCachedStatements
    BY <1>1, <1>3, <2>1, TursoAssumption
  <2> QED
    BY <1>1, <2>2 DEF CacheInv, Bounded
<1>9. OneSlotEachTime'
  BY <1>1, <1>2, <1>4, <1>5 DEF CacheInv, CacheTypeOK, OneSlotEachTime, SlotToSpend
<1>10. SlotToSpend'
  <2> SUFFICES ASSUME NEW f \in DOMAIN families, families[f] \in Texts \ admitted'
               PROVE  slots'[f] < learnt[f]
    BY <1>1 DEF SlotToSpend
  <2>1. slots[f] < learnt[f] /\ families[f] # t /\ f \in Families
    BY <1>1 DEF CacheInv, SlotToSpend, CacheTypeOK
  <2> QED
    BY <1>4, <1>5, <2>1 DEF CacheInv, CacheTypeOK
<1>11. ExecutionsAddUp'
  <2>1. Cardinality(admitted) \in Nat
    BY FS_CardinalityType DEF CacheInv, AskedIsAdmitted
  <2> QED
    BY <1>1, <1>3, <2>1 DEF CacheInv, CacheTypeOK, ExecutionsAddUp
<1> QED
  BY <1>6, <1>7, <1>8, <1>9, <1>10, <1>11 DEF CacheInv

(* A text of a family that was not on probation: the oldest may go.        *)
LEMMA NewFamilyInv ==
    ASSUME CacheInv, NEW t \in Texts, NEW safe \in BOOLEAN, OnProbation(t, safe), ~Known(t)
    PROVE  CacheInv'
<1> DEFINE f0 == FamilyOf[t]
           order == Append(probation_order, f0)
<1>1. f0 \in Families /\ f0 \notin DOMAIN families
  BY DEF Families, Known
<1>2. /\ families' = [f \in (DOMAIN families \cup {f0}) \ Forgotten(order) |->
                          IF f = f0 THEN t ELSE families[f]]
      /\ probation_order' = IF Len(order) > MaxProbationFamilies THEN Tail(order) ELSE order
      /\ learnt' = [learnt EXCEPT ![f0] = @ + 1]
      /\ uncached' = uncached + 1
      /\ running' = [text |-> t, cached |-> FALSE] /\ executions' = executions + 1
      /\ UNCHANGED <<disabled, admitted, compiled, slots, hits, refused_at_cap, variadic_families>>
  BY DEF OnProbation, Sight, Runs
<1>3. /\ order \in Seq(Families) /\ Len(order) = Len(probation_order) + 1
      /\ {order[i] : i \in DOMAIN order} = DOMAIN families \cup {f0}
      /\ \A i, j \in DOMAIN order : order[i] = order[j] => i = j
  <2>1. \A i \in DOMAIN probation_order : probation_order[i] # f0
    BY <1>1 DEF CacheInv, Bounded
  <2>2. probation_order \in Seq(Families)
    BY DEF CacheInv, CacheTypeOK
  <2>3. \A i, j \in DOMAIN probation_order :
            probation_order[i] = probation_order[j] => i = j
    BY DEF CacheInv, Bounded
  <2>4. DOMAIN families = {probation_order[i] : i \in DOMAIN probation_order}
    BY DEF CacheInv, Bounded
  <2>5. /\ Append(probation_order, f0) \in Seq(Families)
        /\ Len(Append(probation_order, f0)) = Len(probation_order) + 1
        /\ {Append(probation_order, f0)[i] : i \in DOMAIN Append(probation_order, f0)}
              = {probation_order[i] : i \in DOMAIN probation_order} \cup {f0}
        /\ \A i, j \in DOMAIN Append(probation_order, f0) :
               Append(probation_order, f0)[i] = Append(probation_order, f0)[j] => i = j
    <3> HIDE DEF f0
    <3> QED
      BY <1>1, <2>1, <2>2, <2>3, AppendNew
  <2> QED
    BY <2>4, <2>5
<1>4. Len(probation_order) \in Nat /\ Len(probation_order) <= MaxProbationFamilies
  BY DEF CacheInv, CacheTypeOK, Bounded
<1> HIDE DEF order
<1>5. /\ probation_order' \in Seq(Families)
      /\ Len(probation_order') <= MaxProbationFamilies
      /\ DOMAIN families' = {probation_order'[i] : i \in DOMAIN probation_order'}
      /\ \A i, j \in DOMAIN probation_order' :
             probation_order'[i] = probation_order'[j] => i = j
  <2>1. CASE Len(order) > MaxProbationFamilies
    <3>1. Len(order) = MaxProbationFamilies + 1
      BY <2>1, <1>3, <1>4, TursoAssumption
    <3>2. Forgotten(order) = {order[1]}
      <4>1. 1..(Len(order) - MaxProbationFamilies) = {1}
        BY <3>1, TursoAssumption
      <4> QED
        BY <4>1 DEF Forgotten
    <3>3. probation_order' = Tail(order) /\ Len(order) > 0
      BY <1>2, <2>1, <1>3, <1>4
    <3>4. /\ Tail(order) \in Seq(Families) /\ Len(Tail(order)) = Len(order) - 1
          /\ {Tail(order)[i] : i \in DOMAIN Tail(order)}
                = {order[i] : i \in DOMAIN order} \ {order[1]}
          /\ \A i, j \in DOMAIN Tail(order) : Tail(order)[i] = Tail(order)[j] => i = j
      BY <1>3, <3>3, TailOther
    <3>5. Len(probation_order') <= MaxProbationFamilies
      BY <3>1, <3>3, <3>4, TursoAssumption
    <3>6. DOMAIN families' = (DOMAIN families \cup {f0}) \ {order[1]}
      BY <1>2, <3>2
    <3>7. DOMAIN families' = {Tail(order)[i] : i \in DOMAIN Tail(order)}
      BY <1>3, <3>4, <3>6
    <3> QED
      BY <3>3, <3>4, <3>5, <3>7
  <2>2. CASE ~(Len(order) > MaxProbationFamilies)
    <3>1. Forgotten(order) = {}
      <4>1. 1..(Len(order) - MaxProbationFamilies) = {}
        BY <2>2, <1>3, <1>4, TursoAssumption
      <4> QED
        BY <4>1 DEF Forgotten
    <3>2. probation_order' = order /\ DOMAIN families' = DOMAIN families \cup {f0}
      BY <1>2, <2>2, <3>1
    <3>3. Len(order) <= MaxProbationFamilies
      BY <2>2, <1>3, <1>4, TursoAssumption
    <3> QED
      BY <1>3, <3>2, <3>3
  <2> QED
    BY <2>1, <2>2
<1>6. /\ DOMAIN families' \subseteq DOMAIN families \cup {f0}
      /\ \A f \in DOMAIN families' : families'[f] = IF f = f0 THEN t ELSE families[f]
  BY <1>2
<1>7. CacheTypeOK'
  <2>1. learnt' \in [Families -> Nat]
    BY <1>1, <1>2 DEF CacheInv, CacheTypeOK
  <2>3. \A f \in DOMAIN families' : f \in Families /\ families'[f] \in Texts \cup {Variadic}
    BY <1>1, <1>6 DEF CacheInv, CacheTypeOK
  <2>4. DOMAIN families' \subseteq Families
    BY <2>3
  <2>5. /\ disabled' \in BOOLEAN /\ admitted' \in SUBSET Texts
        /\ compiled' \in SUBSET Texts /\ slots' \in [Families -> Nat]
        /\ hits' \in Nat /\ refused_at_cap' \in Nat /\ variadic_families' \in Nat
    BY <1>2 DEF CacheInv, CacheTypeOK
  <2>6. uncached' \in Nat /\ executions' \in Nat
    BY <1>2 DEF CacheInv, CacheTypeOK
  <2>7. running' \in [text : Texts \cup {Variadic}, cached : BOOLEAN]
    BY <1>2
  <2> QED
    BY ONLY <1>5, <2>1, <2>3, <2>4, <2>5, <2>6, <2>7 DEF CacheTypeOK
<1>8. AskedIsAdmitted'
  BY <1>2 DEF CacheInv, AskedIsAdmitted
<1>9. Bounded'
  BY <1>2, <1>5 DEF CacheInv, Bounded
<1>10. OneSlotEachTime'
  BY <1>1, <1>2 DEF CacheInv, CacheTypeOK, OneSlotEachTime
<1>11. SlotToSpend'
  <2> SUFFICES ASSUME NEW f \in DOMAIN families', families'[f] \in Texts \ admitted
               PROVE  slots[f] < learnt'[f]
    BY <1>2 DEF SlotToSpend
  <2>1. CASE f = f0
    BY <1>1, <1>2, <2>1 DEF CacheInv, CacheTypeOK, OneSlotEachTime
  <2>2. CASE f # f0
    <3>1. f \in DOMAIN families /\ families[f] \in Texts \ admitted
      BY <1>6, <2>2
    <3>2. slots[f] < learnt[f] /\ learnt'[f] = learnt[f]
      BY <1>2, <2>2, <3>1 DEF CacheInv, SlotToSpend, CacheTypeOK
    <3> QED
      BY <3>2
  <2> QED
    BY <2>1, <2>2
<1>12. ExecutionsAddUp'
  <2>1. Cardinality(admitted) \in Nat
    BY FS_CardinalityType DEF CacheInv, AskedIsAdmitted
  <2>2. hits \in Nat /\ uncached \in Nat /\ executions \in Nat
        /\ hits + uncached + Cardinality(admitted) = executions
    BY DEF CacheInv, CacheTypeOK, ExecutionsAddUp
  <2>3. /\ uncached' = uncached + 1 /\ executions' = executions + 1
        /\ hits' = hits /\ admitted' = admitted
    BY <1>2
  <2> QED
    BY <2>1, <2>2, <2>3 DEF ExecutionsAddUp
<1> QED
  BY <1>7, <1>8, <1>9, <1>10, <1>11, <1>12 DEF CacheInv

(* A second text of a family that is on probation, or already variadic.    *)
LEMMA KnownFamilyInv ==
    ASSUME CacheInv, NEW t \in Texts, NEW safe \in BOOLEAN, OnProbation(t, safe), Known(t)
    PROVE  CacheInv'
<1>1. /\ families' = [families EXCEPT ![FamilyOf[t]] = Variadic]
      /\ uncached' = uncached + 1
      /\ variadic_families' \in {variadic_families, variadic_families + 1}
      /\ running' = [text |-> t, cached |-> FALSE] /\ executions' = executions + 1
      /\ UNCHANGED <<disabled, admitted, compiled, slots, probation_order, learnt, hits,
                   refused_at_cap>>
  BY DEF OnProbation, Sight, Runs
<1>2. DOMAIN families' = DOMAIN families
  BY <1>1
<1>3. \A f \in DOMAIN families :
         families'[f] = IF f = FamilyOf[t] THEN Variadic ELSE families[f]
  BY <1>1
<1>4. CacheTypeOK'
  BY <1>1, <1>2, <1>3 DEF CacheInv, CacheTypeOK
<1>5. AskedIsAdmitted' /\ OneSlotEachTime'
  BY <1>1 DEF CacheInv, AskedIsAdmitted, OneSlotEachTime
<1>6. Bounded'
  BY <1>1, <1>2 DEF CacheInv, Bounded
<1>7. SlotToSpend'
  BY <1>1, <1>2, <1>3, TursoAssumption DEF CacheInv, SlotToSpend
<1>8. ExecutionsAddUp'
  <2>1. Cardinality(admitted) \in Nat
    BY FS_CardinalityType DEF CacheInv, AskedIsAdmitted
  <2> QED
    BY <1>1, <2>1 DEF CacheInv, CacheTypeOK, ExecutionsAddUp
<1> QED
  BY <1>4, <1>5, <1>6, <1>7, <1>8 DEF CacheInv

-------------------------------------------------------------------------------
(* Every step keeps the invariant.                                         *)
LEMMA NextCacheInv == CacheInv /\ [CacheNext]_cacheVars => CacheInv'
<1> SUFFICES ASSUME CacheInv, [CacheNext]_cacheVars PROVE CacheInv'
  OBVIOUS
<1>0. Cardinality(admitted) \in Nat
  BY FS_CardinalityType DEF CacheInv, AskedIsAdmitted
<1> USE DEF CacheInv
<1>1. ASSUME NEW t \in Texts, Disabled(t)
      PROVE  CacheInv'
  BY <1>0, <1>1 DEF Disabled, Runs, probation, CacheTypeOK, AskedIsAdmitted, Bounded,
                    OneSlotEachTime, SlotToSpend, ExecutionsAddUp
<1>2. ASSUME NEW t \in Texts, Hit(t)
      PROVE  CacheInv'
  BY <1>0, <1>2 DEF Hit, Runs, probation, CacheTypeOK, AskedIsAdmitted, Bounded,
                    OneSlotEachTime, SlotToSpend, ExecutionsAddUp
<1>3. ASSUME NEW t \in Texts, NEW safe \in BOOLEAN, OnProbation(t, safe)
      PROVE  CacheInv'
  BY <1>3, NewFamilyInv, KnownFamilyInv
<1>4. ASSUME NEW t \in Texts, NEW safe \in BOOLEAN, RefusedAtCap(t, safe)
      PROVE  CacheInv'
  BY <1>0, <1>4 DEF RefusedAtCap, Runs, probation, CacheTypeOK, AskedIsAdmitted, Bounded,
                    OneSlotEachTime, SlotToSpend, ExecutionsAddUp
<1>5. ASSUME NEW t \in Texts, NEW safe \in BOOLEAN, Admitted(t, safe)
      PROVE  CacheInv'
  BY <1>5, AdmittedInv
<1>6. CASE Compiles
  BY <1>6 DEF Compiles, probation, stats, NoCall, CacheTypeOK, AskedIsAdmitted, Bounded,
              OneSlotEachTime, SlotToSpend, ExecutionsAddUp
<1>7. CASE NeverCompiles
  BY <1>7 DEF NeverCompiles, probation, stats, NoCall, CacheTypeOK, AskedIsAdmitted, Bounded,
              OneSlotEachTime, SlotToSpend, ExecutionsAddUp
<1>8. CASE SetPreparedStatementCacheSize
  BY <1>8 DEF SetPreparedStatementCacheSize, probation, stats, CacheTypeOK, AskedIsAdmitted, Bounded,
              OneSlotEachTime, SlotToSpend, ExecutionsAddUp
<1>9. CASE UNCHANGED cacheVars
  BY <1>9 DEF cacheVars, CacheTypeOK, AskedIsAdmitted, Bounded, OneSlotEachTime, SlotToSpend,
              ExecutionsAddUp
<1> QED
  BY <1>1, <1>2, <1>3, <1>4, <1>5, <1>6, <1>7, <1>8, <1>9 DEF CacheNext

(* The invariant holds.                                                    *)
LEMMA CacheInvHolds == CacheSpec => []CacheInv
<1> QED
  BY InitCacheInv, NextCacheInv, PTL DEF CacheSpec

(* The counters, the families and the sets of texts keep their shape.      *)
THEOREM CacheTypeCorrect == CacheSpec => []CacheTypeOK
<1>1. CacheInv => CacheTypeOK
  BY DEF CacheInv
<1> QED
  BY <1>1, CacheInvHolds, PTL

(* The families on probation and the queue that bounds them stay in step,
   and Turso's cache, which never evicts, stays below the cap.             *)
THEOREM BoundedHolds == CacheSpec => []Bounded
<1>1. CacheInv => Bounded
  BY DEF CacheInv
<1> QED
  BY <1>1, CacheInvHolds, PTL

(* No call site costs more slots than the times it was put on probation.   *)
THEOREM OneSlotEachTimeHolds == CacheSpec => []OneSlotEachTime
<1>1. CacheInv => OneSlotEachTime
  BY DEF CacheInv
<1> QED
  BY <1>1, CacheInvHolds, PTL

(* Every execution is counted, once.                                       *)
THEOREM ExecutionsAddUpHolds == CacheSpec => []ExecutionsAddUp
<1>1. CacheInv => ExecutionsAddUp
  BY DEF CacheInv
<1> QED
  BY <1>1, CacheInvHolds, PTL

-------------------------------------------------------------------------------
(***************************************************************************)
(* AsyncPgPipeline.  CacheIsExact rests on the lock: whoever prepares holds*)
(* it, for a statement that is not there.  FailureIsNoted rests on the queue:*)
(* each request in it is the one its query waits for.                      *)
(***************************************************************************)

Replies == {"none", "ok", "err", "serialization"}
QueryRecords == [pc : Stages, kind : {"execute", "load"}, key : Keys, reply : Replies]
Requests == [of : Queries, what : {"types", "prepare", "run", "rows"}]

(* Who prepares a statement has the lock, and the statement is not there.  *)
PreparesAlone ==
    \A q \in Queries : query[q].pc = "preparing" => /\ lock["stmt_cache"] = q
                                                    /\ query[q].key \notin cache

(* A request in the queue is what its query waits for, if it still does;   *)
Fits(x, what) ==
    \/ x.pc = "dropped"
    \/ what = "types" /\ x.pc = "looking_up" /\ x.reply = "none"
    \/ what = "prepare" /\ x.pc = "preparing" /\ x.reply = "none"
    \/ what = "run" /\ x.pc = "running" /\ x.reply = "none"
    \/ what = "rows" /\ x.pc = "running" /\ x.reply = "ok"
    \/ what = "rows" /\ x.pc = "over"

(* no query has two; and there is no queue without a connection.           *)
WireFits ==
    /\ \A i \in 1..Len(wire) : Fits(query[wire[i].of], wire[i].what)
    /\ \A i, j \in 1..Len(wire) : wire[i].of = wire[j].of => i = j
    /\ driver = "dead" => wire = <<>>

(* A failure is noted, on its way to be, or was the answer to a future that
   is gone.                                                                *)
FailureIsKnown ==
    failure = "answer" /\ driver = "alive" =>
        \/ requiresRollback
        \/ \E q \in Queries : \/ query[q].pc = "dropped"
                              \/ query[q].pc = "running" /\ query[q].reply = "serialization"

PipelineInv == TypeOK /\ CacheIsExact /\ PreparesAlone /\ WireFits /\ FailureIsKnown

-------------------------------------------------------------------------------
(* What happens to the queries when one of them goes on.                   *)
Goes(q, pc) ==
    /\ query' \in [Queries -> QueryRecords]
    /\ query'[q].pc = pc /\ query'[q].reply = "none" /\ query'[q].key = query[q].key
    /\ \A p \in Queries : p # q => query'[p] = query[p]

LEMMA AtGoes ==
    ASSUME NEW q \in Queries, NEW pc \in Stages, query \in [Queries -> QueryRecords],
           query' = At(q, pc)
    PROVE  Goes(q, pc)
<1> DEFINE x == [query[q] EXCEPT !.pc = pc, !.reply = "none"]
<1>1. x \in QueryRecords /\ x.pc = pc /\ x.reply = "none" /\ x.key = query[q].key
    BY DEF QueryRecords, Replies
<1>2. query' = [query EXCEPT ![q] = x]
    BY DEF At
<1> HIDE DEF x
<1> QED
    BY <1>1, <1>2 DEF Goes

(* Whoever goes gives its locks back, and nobody else's.                   *)
LEMMA ReleasedLocks ==
    ASSUME NEW q \in Queries, lock \in [Locks -> Queries \cup {"nobody"}]
    PROVE  /\ Released(q) \in [Locks -> Queries \cup {"nobody"}]
           /\ \A l \in Locks : Released(q)[l] = IF lock[l] = q THEN "nobody" ELSE lock[l]
BY DEF Released

(* A request is appended to the queue, or goes nowhere.                    *)
LEMMA SentRequests ==
    ASSUME NEW q \in Queries, NEW what \in {"types", "prepare", "run", "rows"},
           wire \in Seq(Requests)
    PROVE  Sent(q, what) \in Seq(Requests)
<1>1. [of |-> q, what |-> what] \in Requests
    BY DEF Requests
<1> QED
    BY <1>1 DEF Sent

(* Rows that nobody reads are skipped.                                     *)
LEMMA SkippedRequests ==
    ASSUME NEW q \in Queries, wire \in Seq(Requests)
    PROVE  Skipped(q) \in Seq(Requests)
BY DEF Skipped

-------------------------------------------------------------------------------
(* The initial state satisfies the invariant.                              *)
LEMMA InitPipelineInv == Init => PipelineInv
<1> SUFFICES ASSUME Init PROVE PipelineInv
    OBVIOUS
<1> DEFINE k0 == CHOOSE k \in Keys : TRUE
           x == [pc |-> "none", kind |-> "execute", key |-> k0, reply |-> "none"]
<1>1. k0 \in Keys
    BY PipelineAssumption
<1>2. query = [q \in Queries |-> x]
    BY DEF Init
<1> HIDE DEF k0
<1>3. x \in QueryRecords /\ x.pc = "none"
    BY <1>1 DEF QueryRecords, Stages, Replies
<1> HIDE DEF x
<1>4. query \in [Queries -> QueryRecords] /\ \A q \in Queries : query[q].pc = "none"
    BY <1>2, <1>3
<1>5. lock \in [Locks -> Queries \cup {"nobody"}] /\ \A q \in Queries, l \in Locks : lock[l] # q
    BY PipelineAssumption DEF Init
<1>6. wire = <<>> /\ wire \in Seq(Requests) /\ Len(wire) = 0
    BY DEF Init
<1>7. TypeOK
    BY <1>4, <1>5, <1>6 DEF TypeOK, Init, QueryRecords, Replies, Requests, Locks
<1>8. CacheIsExact
    BY PipelineAssumption DEF Init, CacheIsExact
<1> QED
    BY <1>4, <1>6, <1>7, <1>8 DEF Init, PipelineInv, PreparesAlone, WireFits, FailureIsKnown

(* How each part of the state may change in a step of one query: its own
   entry, its own locks, its own requests.                                 *)
LEMMA PollMoves ==
    ASSUME PipelineInv, NEW q \in Queries, Poll(q) \/ Drop(q)
    PROVE  /\ query' \in [Queries -> QueryRecords]
           /\ \A p \in Queries : p # q => query'[p] = query[p]
           /\ query'[q].key = query[q].key
           /\ wire' \in Seq(Requests)
           /\ UNCHANGED <<driver, watched, failure>>
<1> USE DEF PipelineInv
<1>1. /\ query \in [Queries -> QueryRecords] /\ wire \in Seq(Requests)
      /\ \A what \in {"types", "prepare", "run", "rows"} : Sent(q, what) \in Seq(Requests)
      /\ Skipped(q) \in Seq(Requests)
    BY SentRequests, SkippedRequests DEF TypeOK, QueryRecords, Requests, Replies
<1>2. \A pc \in Stages : query' = At(q, pc) => Goes(q, pc)
    BY <1>1, AtGoes
<1>3. CASE LookUp(q)
    <2>1. query' = At(q, "stmt_cache") \/ query' = At(q, "looking_up")
        BY <1>3 DEF LookUp
    <2>2. wire' = wire \/ wire' = Sent(q, "types")
        BY <1>3 DEF LookUp
    <2> QED
        BY <1>1, <1>2, <1>3, <2>1, <2>2 DEF LookUp, Goes, Stages
<1>4. CASE FoundTypes(q)
    <2>1. query' = At(q, "stmt_cache") \/ query' = At(q, "over")
        BY <1>4 DEF FoundTypes
    <2> QED
        BY <1>1, <1>2, <1>4, <2>1 DEF FoundTypes, Goes, Stages
<1>5. CASE FindStatement(q)
    <2>1. \/ query' = At(q, "running") \/ query' = At(q, "preparing") \/ query' = At(q, "over")
        BY <1>5 DEF FindStatement
    <2>2. wire' = Sent(q, "run") \/ wire' = Sent(q, "prepare") \/ wire' = wire
        BY <1>5 DEF FindStatement
    <2> QED
        BY <1>1, <1>2, <1>5, <2>1, <2>2 DEF FindStatement, Goes, Stages
<1>6. CASE Prepared(q)
    <2>1. query' = At(q, "running") \/ query' = At(q, "over")
        BY <1>6 DEF Prepared
    <2>2. wire' = Sent(q, "run") \/ wire' = wire
        BY <1>6 DEF Prepared
    <2> QED
        BY <1>1, <1>2, <1>6, <2>1, <2>2 DEF Prepared, Goes, Stages
<1>7. CASE Returns(q)
    <2> DEFINE x == [query[q] EXCEPT !.pc = "over"]
    <2>1. x \in QueryRecords /\ x.key = query[q].key
        BY <1>1 DEF QueryRecords, Stages
    <2>2. query' = [query EXCEPT ![q] = x]
        BY <1>7 DEF Returns
    <2> HIDE DEF x
    <2> QED
        BY <1>1, <1>7, <2>1, <2>2 DEF Returns
<1>8. CASE Ends(q)
    <2>1. query' = At(q, "over")
        BY <1>8 DEF Ends
    <2> QED
        BY <1>1, <1>2, <1>8, <2>1 DEF Ends, Goes, Stages
<1>9. CASE Drop(q)
    <2>1. query' = At(q, "dropped")
        BY <1>9 DEF Drop
    <2> QED
        BY <1>1, <1>2, <1>9, <2>1 DEF Drop, Goes, Stages
<1> QED
    BY <1>3, <1>4, <1>5, <1>6, <1>7, <1>8, <1>9 DEF Poll

(* The stage and the locks of a query after a step of it.                  *)
LEMMA PollLocks ==
    ASSUME PipelineInv, NEW q \in Queries, Poll(q) \/ Drop(q)
    PROVE  /\ lock' \in [Locks -> Queries \cup {"nobody"}]
           /\ \A l \in Locks : \A p \in Queries : p # q => (lock'[l] = p <=> lock[l] = p)
           /\ lock'["metadata_cache"] = q => query'[q].pc = "looking_up"
           /\ lock'["stmt_cache"] = q <=> query'[q].pc = "preparing"
<1> USE DEF PipelineInv
<1>1. /\ query \in [Queries -> QueryRecords]
      /\ lock \in [Locks -> Queries \cup {"nobody"}]
      /\ lock["metadata_cache"] = q => query[q].pc = "looking_up"
      /\ lock["stmt_cache"] = q <=> query[q].pc = "preparing"
    BY DEF TypeOK, PreparesAlone, QueryRecords, Replies
<1>2. \A pc \in Stages : query' = At(q, pc) => query'[q].pc = pc
    BY <1>1, AtGoes DEF Goes
<1>3. /\ Released(q) \in [Locks -> Queries \cup {"nobody"}]
      /\ \A l \in Locks : Released(q)[l] = IF lock[l] = q THEN "nobody" ELSE lock[l]
    BY <1>1, ReleasedLocks
<1>4. q # "nobody" /\ Locks = {"metadata_cache", "stmt_cache"}
    BY PipelineAssumption DEF Locks
<1>5. ASSUME lock' = Released(q), query'[q].pc \in {"stmt_cache", "over", "running", "dropped"}
      PROVE  /\ lock' \in [Locks -> Queries \cup {"nobody"}]
             /\ \A l \in Locks : \A p \in Queries : p # q => (lock'[l] = p <=> lock[l] = p)
             /\ lock'["metadata_cache"] = q => query'[q].pc = "looking_up"
             /\ lock'["stmt_cache"] = q <=> query'[q].pc = "preparing"
    <2>1. \A l \in Locks : lock'[l] # q
        BY <1>3, <1>4, <1>5
    <2>2. \A l \in Locks : \A p \in Queries : p # q => (lock'[l] = p <=> lock[l] = p)
        BY <1>3, <1>5, PipelineAssumption
    <2> QED
        BY <1>3, <1>4, <1>5, <2>1, <2>2
<1>6. CASE LookUp(q)
    <2>1. CASE oids
        BY <1>1, <1>2, <1>6, <2>1 DEF LookUp, Stages
    <2>2. CASE ~oids
        <3>1. lock' = [lock EXCEPT !["metadata_cache"] = q] /\ lock["metadata_cache"] = "nobody"
            BY <1>6, <2>2 DEF LookUp
        <3>2. query'[q].pc = "looking_up" /\ query[q].pc = "metadata_cache"
            BY <1>2, <1>6, <2>2 DEF LookUp, Stages
        <3> QED
            BY <1>1, <1>4, <3>1, <3>2, PipelineAssumption
    <2> QED
        BY <2>1, <2>2
<1>7. CASE FoundTypes(q)
    <2>1. query'[q].pc \in {"stmt_cache", "over"}
        BY <1>2, <1>7 DEF FoundTypes, Stages
    <2> QED
        BY <1>5, <1>7, <2>1 DEF FoundTypes
<1>8. CASE FindStatement(q)
    <2>1. CASE query' \in {At(q, "running"), At(q, "over")} /\ lock' = lock
        <3>1. query'[q].pc \in {"running", "over"} /\ query[q].pc = "stmt_cache"
            BY <1>2, <1>8, <2>1 DEF FindStatement, Stages
        <3> QED
            BY <1>1, <2>1, <3>1
    <2>2. CASE /\ query' = At(q, "preparing")
               /\ lock' = IF KeepsLock(q) THEN [lock EXCEPT !["stmt_cache"] = q] ELSE lock
        <3>1. lock' = [lock EXCEPT !["stmt_cache"] = q] /\ lock["stmt_cache"] = "nobody"
            BY <1>8, <2>2 DEF FindStatement, KeepsLock
        <3>2. query'[q].pc = "preparing" /\ query[q].pc = "stmt_cache"
            BY <1>2, <1>8, <2>2 DEF FindStatement, Stages
        <3> QED
            BY <1>1, <1>4, <3>1, <3>2, PipelineAssumption
    <2> QED
        BY <1>8, <2>1, <2>2 DEF FindStatement
<1>9. CASE Prepared(q)
    <2>1. query'[q].pc \in {"running", "over"}
        BY <1>2, <1>9 DEF Prepared, Stages
    <2> QED
        BY <1>5, <1>9, <2>1 DEF Prepared
<1>10. CASE Returns(q)
    <2>1. query'[q].pc = "over" /\ query[q].pc = "running" /\ lock' = lock
        BY <1>1, <1>10 DEF Returns, QueryRecords
    <2> QED
        BY <1>1, <2>1
<1>11. CASE Ends(q)
    <2>1. query'[q].pc = "over"
        BY <1>2, <1>11 DEF Ends, Stages
    <2> QED
        BY <1>5, <1>11, <2>1 DEF Ends
<1>12. CASE Drop(q)
    <2>1. query'[q].pc = "dropped"
        BY <1>2, <1>12 DEF Drop, Stages
    <2> QED
        BY <1>5, <1>12, <2>1 DEF Drop
<1> QED
    BY <1>6, <1>7, <1>8, <1>9, <1>10, <1>11, <1>12 DEF Poll

(* What a step of a query does to the statements that were prepared.       *)
LEMMA PollCache ==
    ASSUME PipelineInv, NEW q \in Queries, Poll(q) \/ Drop(q)
    PROVE  /\ cache' \subseteq Cacheable /\ heard' \in [Keys -> Nat]
           /\ oids' \in BOOLEAN /\ requiresRollback' \in BOOLEAN
           /\ CacheIsExact' /\ PreparesAlone'
<1> USE DEF PipelineInv
<1>1. /\ query \in [Queries -> QueryRecords] /\ cache \subseteq Cacheable
      /\ heard \in [Keys -> Nat] /\ oids \in BOOLEAN /\ requiresRollback \in BOOLEAN
    BY DEF TypeOK, QueryRecords, Replies
<1>2. oids' \in BOOLEAN /\ requiresRollback' \in BOOLEAN
    BY <1>1 DEF Poll, LookUp, FoundTypes, FindStatement, Prepared, Returns, Ends, Drop
<1>3. CASE Prepared(q) /\ query[q].reply = "ok"
    <2> DEFINE k == query[q].key
    <2>1. k \in Keys /\ k \notin cache /\ lock["stmt_cache"] = q
        BY <1>1, <1>3 DEF Prepared, PreparesAlone, QueryRecords
    <2>2. cache' = cache \cup ({k} \cap Cacheable) /\ heard' = [heard EXCEPT ![k] = @ + 1]
        BY <1>3 DEF Prepared, Registered
    <2>3. \A p \in Queries : query'[p].pc = "preparing" => p # q /\ query[p].pc = "preparing"
        BY <1>1, <1>3, AtGoes DEF Prepared, Goes, Stages
    <2>4. PreparesAlone'
        BY <2>1, <2>3 DEF PreparesAlone
    <2> HIDE DEF k
    <2>5. CacheIsExact'
        BY <1>1, <2>1, <2>2, PipelineAssumption DEF CacheIsExact
    <2> QED
        BY <1>1, <1>2, <2>1, <2>2, <2>4, <2>5
<1>4. CASE ~(Prepared(q) /\ query[q].reply = "ok")
    <2>1. cache' = cache /\ heard' = heard
        BY <1>4 DEF Poll, LookUp, FoundTypes, FindStatement, Prepared, Returns, Ends, Drop
    <2>2. ASSUME query'[q].pc = "preparing" PROVE query'[q].key \notin cache
        <3>1. query'[q].pc = "preparing" => FindStatement(q) /\ query[q].key \notin cache
            BY <1>1, AtGoes DEF Poll, LookUp, FoundTypes, FindStatement, Prepared, Returns, Ends, Drop,
               Goes, Stages, QueryRecords
        <3> QED
            BY <2>2, <3>1, PollMoves
    <2>3. PreparesAlone'
        BY <2>1, <2>2, PollMoves, PollLocks DEF PreparesAlone, Locks
    <2> QED
        BY <1>1, <1>2, <2>1, <2>3 DEF CacheIsExact
<1> QED
    BY <1>3, <1>4

(* A query that waits for nothing of the server has no request in the queue. *)
LEMMA NoRequest ==
    ASSUME PipelineInv, NEW q \in Queries,
           \/ query[q].pc \in {"none", "metadata_cache", "stmt_cache"}
           \/ query[q].pc \in {"looking_up", "preparing"} /\ query[q].reply # "none"
    PROVE  \A i \in 1..Len(wire) : wire[i].of # q
BY DEF PipelineInv, WireFits, Fits

(* The queue fits when it stays and the requests of q do.                  *)
LEMMA SameWire ==
    ASSUME PipelineInv, NEW q \in Queries, \A p \in Queries : p # q => query'[p] = query[p],
           wire' = wire, driver' = driver,
           \A i \in 1..Len(wire) : wire[i].of = q => Fits(query'[q], wire[i].what)
    PROVE  WireFits'
<1>1. wire \in Seq(Requests)
    BY DEF PipelineInv, TypeOK, Requests
<1>2. ASSUME NEW i \in 1..Len(wire) PROVE Fits(query'[wire[i].of], wire[i].what)
    <2>1. wire[i] \in Requests
        BY <1>1, <1>2
    <2>2. wire[i].of \in Queries /\ Fits(query[wire[i].of], wire[i].what)
        BY <1>2, <2>1 DEF PipelineInv, WireFits, Requests
    <2> QED
        BY <2>2
<1> QED
    BY <1>1, <1>2 DEF PipelineInv, WireFits

(* The queue fits when a query that has no request in it sends one.        *)
LEMMA SentFits ==
    ASSUME PipelineInv, NEW q \in Queries, \A p \in Queries : p # q => query'[p] = query[p],
           NEW what \in {"types", "prepare", "run", "rows"},
           wire' = Sent(q, what), driver' = driver,
           \A i \in 1..Len(wire) : wire[i].of # q, Fits(query'[q], what)
    PROVE  WireFits'
<1> DEFINE e == [of |-> q, what |-> what]
<1>1. wire \in Seq(Requests) /\ e \in Requests /\ e.of = q /\ e.what = what
    BY DEF PipelineInv, TypeOK, Requests
<1>2. CASE driver = "alive"
    <2>1. wire' = Append(wire, e)
        BY <1>2 DEF Sent
    <2> HIDE DEF e
    <2>2. Len(wire) \in Nat
        BY <1>1
    <2>3. /\ Len(wire') = Len(wire) + 1 /\ wire'[Len(wire) + 1] = e
          /\ \A i \in 1..Len(wire) : wire'[i] = wire[i]
        BY <1>1, <2>1
    <2>4. ASSUME NEW i \in 1..Len(wire') PROVE i \in 1..Len(wire) \/ i = Len(wire) + 1
        BY <2>2, <2>3
    <2>5. ASSUME NEW i \in 1..Len(wire') PROVE Fits(query'[wire'[i].of], wire'[i].what)
        <3>1. CASE i = Len(wire) + 1
            BY <1>1, <2>3, <3>1
        <3>2. CASE i \in 1..Len(wire)
            <4>1. wire[i] \in Requests
                BY <1>1, <3>2
            <4>2. /\ wire[i].of \in Queries /\ Fits(query[wire[i].of], wire[i].what)
                  /\ wire[i].of # q /\ wire'[i] = wire[i]
                BY <2>3, <3>2, <4>1 DEF PipelineInv, WireFits, Requests
            <4> QED
                BY <4>2
        <3> QED
            BY <2>4, <3>1, <3>2
    <2>6. ASSUME NEW i \in 1..Len(wire'), NEW j \in 1..Len(wire'), wire'[i].of = wire'[j].of
          PROVE  i = j
        <3>1. CASE i \in 1..Len(wire) /\ j \in 1..Len(wire)
            BY <2>3, <2>6, <3>1 DEF PipelineInv, WireFits
        <3>2. CASE i = Len(wire) + 1 /\ j \in 1..Len(wire)
            BY <1>1, <2>3, <2>6, <3>2
        <3>3. CASE j = Len(wire) + 1 /\ i \in 1..Len(wire)
            BY <1>1, <2>3, <2>6, <3>3
        <3> QED
            BY <2>4, <3>1, <3>2, <3>3
    <2>7. driver' # "dead"
        BY <1>2
    <2> QED
        BY <2>5, <2>6, <2>7 DEF WireFits
<1>3. CASE driver # "alive"
    <2>1. wire' = <<>> /\ Len(wire') = 0
        BY <1>3 DEF Sent, PipelineInv, WireFits, TypeOK
    <2> QED
        BY <2>1 DEF WireFits
<1> QED
    BY <1>2, <1>3

(* The queue fits when its first entry leaves it, and no other query moves
   but one that is dropped.                                                *)
LEMMA TailFits ==
    ASSUME PipelineInv, NEW q \in Queries, \A p \in Queries : p # q => query'[p] = query[p],
           wire # <<>>, wire' = Tail(wire), driver' = driver,
           Head(wire).of = q \/ query'[q] = query[q] \/ query'[q].pc = "dropped"
    PROVE  WireFits'
<1>1. wire \in Seq(Requests) /\ Len(wire) \in Nat \ {0} /\ Head(wire) = wire[1]
    BY DEF PipelineInv, TypeOK, Requests
<1>2. Len(wire') = Len(wire) - 1 /\ \A i \in 1..Len(wire') : wire'[i] = wire[i + 1]
    BY <1>1
<1>3. ASSUME NEW i \in 1..Len(wire') PROVE Fits(query'[wire'[i].of], wire'[i].what)
    <2>1. i + 1 \in 1..Len(wire) /\ i + 1 # 1 /\ 1 \in 1..Len(wire)
        BY <1>1, <1>2
    <2>2. wire[i + 1] \in Requests
        BY <1>1, <2>1
    <2>3. /\ wire[i + 1].of \in Queries /\ Fits(query[wire[i + 1].of], wire[i + 1].what)
          /\ wire[i + 1].of # wire[1].of /\ wire'[i] = wire[i + 1]
        BY <1>2, <2>1, <2>2 DEF PipelineInv, WireFits, Requests
    <2>4. CASE wire[i + 1].of = q
        BY <1>1, <2>3, <2>4 DEF Fits
    <2>5. CASE wire[i + 1].of # q
        BY <2>3, <2>5
    <2> QED
        BY <2>4, <2>5
<1>4. ASSUME NEW i \in 1..Len(wire'), NEW j \in 1..Len(wire'), wire'[i].of = wire'[j].of
      PROVE  i = j
    <2>1. i + 1 \in 1..Len(wire) /\ j + 1 \in 1..Len(wire)
        BY <1>1, <1>2
    <2>2. wire[i + 1].of = wire[j + 1].of
        BY <1>2, <1>4
    <2>3. i + 1 = j + 1
        BY <2>1, <2>2 DEF PipelineInv, WireFits
    <2> QED
        BY <2>3, <2>1
<1>5. driver' # "dead"
    BY DEF PipelineInv, WireFits
<1> QED
    BY <1>3, <1>4, <1>5 DEF WireFits

(* The queue fits after a step of one query.                               *)
LEMMA PollWire ==
    ASSUME PipelineInv, NEW q \in Queries, Poll(q) \/ Drop(q)
    PROVE  WireFits'
<1>1. /\ \A p \in Queries : p # q => query'[p] = query[p]
      /\ driver' = driver
    BY PollMoves
<1>2. /\ query \in [Queries -> QueryRecords] /\ query[q].reply \in Replies
      /\ wire \in Seq(Requests)
    BY DEF PipelineInv, TypeOK, QueryRecords, Replies, Requests
<1>3. \A pc \in Stages : query' = At(q, pc) => query'[q].pc = pc /\ query'[q].reply = "none"
    BY <1>2, AtGoes DEF Goes
<1>4. CASE LookUp(q)
    <2>1. \A i \in 1..Len(wire) : wire[i].of # q
        BY <1>4, NoRequest DEF LookUp
    <2>2. CASE oids
        BY <1>1, <1>4, <2>1, <2>2, SameWire DEF LookUp
    <2>3. CASE ~oids
        <3>1. Fits(query'[q], "types")
            BY <1>3, <1>4, <2>3 DEF LookUp, Fits, Stages
        <3> QED
            BY <1>1, <1>4, <2>1, <2>3, <3>1, SentFits DEF LookUp
    <2> QED
        BY <2>2, <2>3
<1>5. CASE FoundTypes(q)
    <2>1. \A i \in 1..Len(wire) : wire[i].of # q
        BY <1>5, NoRequest DEF FoundTypes
    <2> QED
        BY <1>1, <1>5, <2>1, SameWire DEF FoundTypes
<1>6. CASE FindStatement(q)
    <2>1. \A i \in 1..Len(wire) : wire[i].of # q
        BY <1>6, NoRequest DEF FindStatement
    <2>2. \/ wire' = Sent(q, "run") /\ Fits(query'[q], "run")
          \/ wire' = Sent(q, "prepare") /\ Fits(query'[q], "prepare")
          \/ wire' = wire
        BY <1>3, <1>6 DEF FindStatement, Fits, Stages
    <2>3. CASE wire' = wire
        BY <1>1, <2>1, <2>3, SameWire
    <2> QED
        BY <1>1, <2>1, <2>2, <2>3, SentFits
<1>7. CASE Prepared(q)
    <2>1. \A i \in 1..Len(wire) : wire[i].of # q
        BY <1>7, NoRequest DEF Prepared
    <2>2. (wire' = Sent(q, "run") /\ Fits(query'[q], "run")) \/ wire' = wire
        BY <1>3, <1>7 DEF Prepared, Fits, Stages
    <2>3. CASE wire' = Sent(q, "run") /\ Fits(query'[q], "run")
        BY <1>1, <2>1, <2>3, SentFits
    <2>4. CASE wire' = wire
        BY <1>1, <2>1, <2>4, SameWire
    <2> QED
        BY <2>2, <2>3, <2>4
<1>8. CASE Returns(q)
    <2>1. query[q].pc = "running" /\ query[q].reply # "none" /\ query'[q].pc = "over" /\ wire' = wire
        BY <1>2, <1>8 DEF Returns, QueryRecords
    <2>2. ASSUME NEW i \in 1..Len(wire), wire[i].of = q PROVE Fits(query'[q], wire[i].what)
        <3>1. Fits(query[q], wire[i].what)
            BY <2>2 DEF PipelineInv, WireFits
        <3> QED
            BY <2>1, <3>1 DEF Fits
    <2> QED
        BY <1>1, <2>1, <2>2, SameWire
<1>9. CASE Ends(q)
    <2>1. wire = <<>> /\ wire' = wire /\ Len(wire) = 0
        BY <1>9 DEF Ends, PipelineInv, WireFits
    <2>2. \A i \in 1..Len(wire) : wire[i].of # q
        BY <2>1
    <2> QED
        BY <1>1, <2>1, <2>2, SameWire
<1>10. CASE Drop(q)
    <2>1. query'[q].pc = "dropped"
        BY <1>3, <1>10 DEF Drop, Stages
    <2>2. CASE wire' = wire
        <3>1. \A i \in 1..Len(wire) : wire[i].of = q => Fits(query'[q], wire[i].what)
            BY <2>1 DEF Fits
        <3> QED
            BY <1>1, <2>2, <3>1, SameWire
    <2>3. CASE wire # <<>> /\ wire' = Tail(wire)
        BY <1>1, <2>1, <2>3, TailFits
    <2> QED
        BY <1>10, <2>2, <2>3 DEF Drop, Skipped
<1> QED
    BY <1>4, <1>5, <1>6, <1>7, <1>8, <1>9, <1>10 DEF Poll

(* A failure stays known through a step of one query.                      *)
LEMMA PollKnown ==
    ASSUME PipelineInv, NEW q \in Queries, Poll(q) \/ Drop(q)
    PROVE  FailureIsKnown'
<1>1. /\ \A p \in Queries : p # q => query'[p] = query[p]
      /\ driver' = driver /\ failure' = failure
    BY PollMoves
<1>2. /\ query \in [Queries -> QueryRecords] /\ requiresRollback \in BOOLEAN
    BY DEF PipelineInv, TypeOK, QueryRecords, Replies
<1>3. requiresRollback => requiresRollback'
    BY <1>2 DEF Poll, LookUp, FoundTypes, FindStatement, Prepared, Returns, Ends, Drop
<1> SUFFICES ASSUME failure = "answer", driver = "alive", ~requiresRollback
             PROVE  FailureIsKnown'
    BY <1>1, <1>3 DEF FailureIsKnown
<1>4. PICK p \in Queries : \/ query[p].pc = "dropped"
                           \/ query[p].pc = "running" /\ query[p].reply = "serialization"
    BY DEF PipelineInv, FailureIsKnown
<1>5. CASE p # q
    BY <1>1, <1>4, <1>5 DEF FailureIsKnown
<1>6. CASE p = q
    <2>1. (Returns(q) /\ query[q].reply = "serialization") \/ Drop(q)
        BY <1>4, <1>6 DEF Poll, LookUp, FoundTypes, FindStatement, Prepared, Returns, Ends, Drop, Waits
    <2>2. CASE Returns(q) /\ query[q].reply = "serialization"
        BY <2>2 DEF Returns, Noted, FailureIsKnown
    <2>3. CASE Drop(q)
        <3>1. query'[q].pc = "dropped"
            BY <1>2, <2>3, AtGoes DEF Drop, Goes, Stages
        <3> QED
            BY <3>1 DEF FailureIsKnown
    <2> QED
        BY <2>1, <2>2, <2>3
<1> QED
    BY <1>5, <1>6

(* A step of one query preserves the invariant.                            *)
LEMMA PollIInv ==
    ASSUME PipelineInv, NEW q \in Queries, Poll(q) \/ Drop(q)
    PROVE  PipelineInv'
<1>1. /\ query' \in [Queries -> QueryRecords] /\ wire' \in Seq(Requests)
      /\ driver' \in {"alive", "dead"} /\ watched' \in BOOLEAN
      /\ failure' \in {"none", "answer", "rows"}
    BY PollMoves DEF PipelineInv, TypeOK
<1>2. /\ cache' \subseteq Cacheable /\ heard' \in [Keys -> Nat] /\ oids' \in BOOLEAN
      /\ requiresRollback' \in BOOLEAN /\ CacheIsExact' /\ PreparesAlone'
    BY PollCache
<1>3. \A p \in Queries : /\ lock'["metadata_cache"] = p => query'[p].pc = "looking_up"
                         /\ lock'["stmt_cache"] = p => query'[p].pc = "preparing"
    BY PollLocks, PollMoves DEF PipelineInv, TypeOK, Locks
<1>4. TypeOK'
    BY <1>1, <1>2, <1>3, PollLocks DEF TypeOK, QueryRecords, Requests, Replies
<1> QED
    BY <1>2, <1>4, PollWire, PollKnown DEF PipelineInv

(* So does the start of one.                                               *)
LEMMA StartIInv ==
    ASSUME PipelineInv, NEW q \in Queries, NEW kind \in {"execute", "load"}, NEW key \in Keys,
           NEW first \in {"metadata_cache", "stmt_cache", "over"}, Start(q, kind, key, first)
    PROVE  PipelineInv'
<1> DEFINE x == [pc |-> first, kind |-> kind, key |-> key, reply |-> "none"]
<1>1. x \in QueryRecords /\ x.pc \in {"metadata_cache", "stmt_cache", "over"}
    BY DEF QueryRecords, Stages, Replies
<1>2. /\ query' = [query EXCEPT ![q] = x] /\ query[q].pc = "none"
      /\ UNCHANGED <<wire, driver, watched, lock, oids, cache, heard, failure, requiresRollback>>
    BY DEF Start
<1> HIDE DEF x
<1>3. query \in [Queries -> QueryRecords]
    BY DEF PipelineInv, TypeOK, QueryRecords, Replies
<1>4. /\ query' \in [Queries -> QueryRecords] /\ query'[q] = x
      /\ \A p \in Queries : p # q => query'[p] = query[p]
    BY <1>1, <1>2, <1>3
<1>5. TypeOK'
    BY <1>2, <1>4 DEF PipelineInv, TypeOK, QueryRecords, Replies
<1>6. CacheIsExact' /\ PreparesAlone'
    BY <1>1, <1>2, <1>4 DEF PipelineInv, CacheIsExact, PreparesAlone
<1>7. WireFits'
    BY <1>2, <1>4, NoRequest, SameWire
<1>8. FailureIsKnown'
    BY <1>2, <1>4 DEF PipelineInv, FailureIsKnown
<1> QED
    BY <1>5, <1>6, <1>7, <1>8 DEF PipelineInv

(* So does the reading of rows.                                            *)
LEMMA ReadIInv ==
    ASSUME PipelineInv, NEW q \in Queries, NEW fails \in BOOLEAN, ReadRows(q, fails)
    PROVE  PipelineInv'
<1>1. /\ wire # <<>> /\ wire' = Tail(wire) /\ Head(wire).of = q
      /\ UNCHANGED <<query, driver, watched, lock, oids, cache, heard, requiresRollback>>
    BY DEF ReadRows
<1>2. failure' \in {failure, "rows"} /\ failure' \in {"none", "answer", "rows"}
    BY DEF ReadRows, PipelineInv, TypeOK
<1>3. wire' \in Seq(Requests)
    BY <1>1 DEF PipelineInv, TypeOK, Requests
<1>4. TypeOK'
    BY <1>1, <1>2, <1>3 DEF PipelineInv, TypeOK, Requests
<1>5. WireFits'
    BY <1>1, TailFits
<1>6. CacheIsExact' /\ PreparesAlone' /\ FailureIsKnown'
    BY <1>1, <1>2 DEF PipelineInv, CacheIsExact, PreparesAlone, FailureIsKnown
<1> QED
    BY <1>4, <1>5, <1>6 DEF PipelineInv

(* So does the end of the connection.                                      *)
LEMMA DieIInv == PipelineInv /\ Die => PipelineInv'
<1> SUFFICES ASSUME PipelineInv, Die PROVE PipelineInv'
    OBVIOUS
<1>1. wire' = <<>> /\ wire' \in Seq(Requests) /\ Len(wire') = 0 /\ driver' = "dead"
    BY DEF Die
<1>2. WireFits'
    BY <1>1 DEF WireFits
<1>3. TypeOK'
    BY <1>1 DEF PipelineInv, TypeOK, Die, Requests
<1> QED
    BY <1>1, <1>2, <1>3 DEF PipelineInv, Die, CacheIsExact, PreparesAlone, FailureIsKnown

(* So does an answer: it reaches the query at the head of the queue, if it
   still waits for it.                                                     *)
LEMMA AnswerIInv ==
    ASSUME PipelineInv, NEW reply \in {"ok", "err", "serialization"}, NEW many \in BOOLEAN,
           Answer(reply, many)
    PROVE  PipelineInv'
<1> DEFINE q == Head(wire).of
           x == [query[q] EXCEPT !.reply = reply]
           rows == /\ Head(wire).what = "run" /\ reply = "ok" /\ many
                   /\ query[q].kind = "load" /\ Waits(q)
<1>1. /\ query \in [Queries -> QueryRecords] /\ wire \in Seq(Requests) /\ wire # <<>>
    BY DEF PipelineInv, TypeOK, QueryRecords, Replies, Requests, Answer
<1>2. /\ Len(wire) \in Nat \ {0} /\ 1 \in 1..Len(wire) /\ Head(wire) = wire[1]
      /\ Head(wire) \in Requests /\ Tail(wire) \in Seq(Requests)
    BY <1>1
<1>3. /\ q \in Queries /\ Head(wire).what \in {"types", "prepare", "run"}
      /\ Fits(query[q], Head(wire).what)
    BY <1>2 DEF PipelineInv, WireFits, Requests, Answer
<1>4. /\ query' = IF Waits(q) THEN [query EXCEPT ![q] = x] ELSE query
      /\ x \in QueryRecords /\ x.pc = query[q].pc /\ x.key = query[q].key /\ x.reply = reply
    BY <1>1, <1>3 DEF Answer, QueryRecords, Replies
<1>5. /\ wire' = IF rows THEN [wire EXCEPT ![1].what = "rows"] ELSE Tail(wire)
      /\ failure' = IF reply = "serialization" /\ failure = "none" THEN "answer" ELSE failure
      /\ reply = "serialization" => Head(wire).what = "run"
      /\ driver = "alive"
      /\ UNCHANGED <<driver, watched, lock, oids, cache, heard, requiresRollback>>
    BY DEF Answer
<1> HIDE DEF q, x, rows
<1>6. /\ query' \in [Queries -> QueryRecords]
      /\ \A p \in Queries : p # q => query'[p] = query[p]
      /\ \A p \in Queries : query'[p].pc = query[p].pc /\ query'[p].key = query[p].key
      /\ query'[q].reply \in {reply, query[q].reply} /\ (Waits(q) => query'[q] = x)
    BY <1>1, <1>3, <1>4
<1>7. CASE rows
    <2> DEFINE e == [of |-> q, what |-> "rows"]
    <2>1. wire' = [wire EXCEPT ![1] = e] /\ e \in Requests
        <3>1. wire' = [wire EXCEPT ![1] = [wire[1] EXCEPT !.what = "rows"]]
            BY <1>5, <1>7
        <3>2. [wire[1] EXCEPT !.what = "rows"] = e
            BY <1>2 DEF q, Requests
        <3>3. e \in Requests
            BY <1>3 DEF Requests
        <3> QED
            BY <3>1, <3>2, <3>3
    <2>2. e.of = q /\ e.what = "rows"
        OBVIOUS
    <2> HIDE DEF e
    <2>3. /\ Len(wire') = Len(wire) /\ wire' \in Seq(Requests) /\ wire'[1] = e
          /\ \A i \in 1..Len(wire) : i # 1 => wire'[i] = wire[i]
        BY <1>1, <1>2, <2>1
    <2>4. \A i \in 1..Len(wire) : wire'[i].of = wire[i].of
        BY <1>2, <2>2, <2>3 DEF q
    <2>5. ASSUME NEW i \in 1..Len(wire') PROVE Fits(query'[wire'[i].of], wire'[i].what)
        <3>1. CASE i = 1
            <4>1. (query'[q].pc = "running" /\ query'[q].reply = "ok") \/ query'[q].pc = "dropped"
                BY <1>3, <1>4, <1>6, <1>7 DEF rows, Fits
            <4> QED
                BY <2>2, <2>3, <3>1, <4>1 DEF Fits
        <3>2. CASE i # 1
            <4>1. i \in 1..Len(wire) /\ wire'[i] = wire[i] /\ wire[i] \in Requests
                BY <1>1, <2>3, <2>5, <3>2
            <4>2. /\ Fits(query[wire[i].of], wire[i].what) /\ wire[i].of # q
                  /\ wire[i].of \in Queries
                BY <1>2, <3>2, <4>1 DEF PipelineInv, WireFits, q, Requests
            <4> QED
                BY <1>6, <4>1, <4>2
        <3> QED
            BY <3>1, <3>2
    <2>6. \A i, j \in 1..Len(wire') : wire'[i].of = wire'[j].of => i = j
        BY <2>3, <2>4 DEF PipelineInv, WireFits
    <2> QED
        <3>1. WireFits'
            BY <1>5, <2>5, <2>6 DEF WireFits
        <3>2. TypeOK'
            BY <1>5, <1>6, <2>3 DEF PipelineInv, TypeOK, QueryRecords, Requests, Replies
        <3>3. failure' = failure
            BY <1>5, <1>7 DEF rows
        <3>4. FailureIsKnown'
            <4>1. query[q].reply # "serialization" \/ query[q].pc = "dropped"
                BY <1>3 DEF Fits
            <4> QED
                BY <1>3, <1>5, <1>6, <3>3, <4>1 DEF PipelineInv, FailureIsKnown
        <3> QED
            BY <1>5, <1>6, <3>1, <3>2, <3>4 DEF PipelineInv, CacheIsExact, PreparesAlone
<1>8. CASE ~rows
    <2>1. WireFits'
        BY <1>1, <1>3, <1>5, <1>6, <1>8, TailFits DEF q
    <2>2. TypeOK'
        BY <1>2, <1>5, <1>6, <1>8 DEF PipelineInv, TypeOK, QueryRecords, Requests, Replies
    <2>3. FailureIsKnown'
        <3>1. query[q].reply # "serialization" \/ query[q].pc = "dropped"
            BY <1>3 DEF Fits
        <3>2. CASE failure' = failure
            BY <1>3, <1>5, <1>6, <3>1, <3>2 DEF PipelineInv, FailureIsKnown
        <3>3. CASE failure' # failure
            <4>1. reply = "serialization" /\ Head(wire).what = "run"
                BY <1>5, <3>3
            <4>2. query[q].pc = "dropped" \/ query[q].pc = "running"
                BY <1>3, <4>1 DEF Fits
            <4>3. query[q].pc = "running" => query'[q].reply = "serialization"
                BY <1>4, <1>6, <4>1 DEF Waits
            <4> QED
                BY <1>3, <1>6, <4>2, <4>3 DEF FailureIsKnown
        <3> QED
            BY <3>2, <3>3
    <2> QED
        BY <1>5, <1>6, <2>1, <2>2, <2>3 DEF PipelineInv, CacheIsExact, PreparesAlone
<1> QED
    BY <1>7, <1>8

-------------------------------------------------------------------------------
(* The invariant is inductive.                                             *)
LEMMA PipelineInvHolds == Spec => []PipelineInv
<1>1. Init => PipelineInv
    BY InitPipelineInv
<1>2. PipelineInv /\ [Next]_vars => PipelineInv'
    <2> SUFFICES ASSUME PipelineInv, [Next]_vars PROVE PipelineInv'
        OBVIOUS
    <2>1. CASE Next
        BY <2>1, PollIInv, StartIInv, ReadIInv, AnswerIInv, DieIInv DEF Next, Server, Read
    <2>2. CASE UNCHANGED vars
        BY <2>2 DEF vars, PipelineInv, TypeOK, CacheIsExact, PreparesAlone, WireFits, FailureIsKnown
    <2> QED
        BY <2>1, <2>2
<1> QED
    BY <1>1, <1>2, PTL DEF Spec

(* The state keeps its types, and a lock is held only while the server works
   for its holder.                                                         *)
THEOREM PipelineTypeCorrect == Spec => []TypeOK
BY PipelineInvHolds, PTL DEF PipelineInv

(* A statement is in the cache exactly when its preparation was answered to
   a query that still waited, and it is prepared for the cache once, however
   many queries ask for it together.                                       *)
THEOREM CacheIsExactHolds == Spec => []CacheIsExact
BY PipelineInvHolds, PTL DEF PipelineInv

(* A failure to serialize that was the answer to a query has reached the
   manager once no query is left that waits, unless a future was dropped.  *)
THEOREM FailureIsNotedHolds == Spec => []FailureIsNoted
<1>1. PipelineInv => FailureIsNoted
    BY DEF PipelineInv, FailureIsKnown, FailureIsNoted
<1> QED
    BY <1>1, PipelineInvHolds, PTL

-------------------------------------------------------------------------------
(* A connection of the composed model behaves as it does alone, so that each
   of the theorems above holds of the model too: what the others do leaves
   its state as it is.                                                      *)
THEOREM EachAsAlone == MCSpec => Spec /\ RowsSpec /\ CacheSpec
<1>1. MCInit => Init /\ RowsInit /\ CacheInit
  BY DEF MCInit
<1>2. [MCNext]_<<vars, rowsVars, cacheVars, connection>> => [Next]_vars
  BY DEF MCNext
<1>3. [MCNext]_<<vars, rowsVars, cacheVars, connection>> => [RowsNext]_rowsVars
  BY DEF MCNext
<1>4. [MCNext]_<<vars, rowsVars, cacheVars, connection>> => [CacheNext]_cacheVars
  BY DEF MCNext
<1> QED BY <1>1, <1>2, <1>3, <1>4, PTL DEF MCSpec, Spec, RowsSpec, CacheSpec

-------------------------------------------------------------------------------
(***************************************************************************)
(* SyncConnectionWrapper.  What the invariants rest on: a future that is   *)
(* over has no task that could still run, on a runtime whose threads may   *)
(* block.                                                                  *)
(***************************************************************************)

(* No task is handed over before the binds of its call are collected.      *)
TaskFollows == \A f \in Calls : future[f] \in {"none", "binding"} => task[f] = "none"

(* A future that is over leaves no task behind.                            *)
OverIsDone == mayBlock => \A f \in Calls : future[f] = "over" => task[f] \in {"none", "done"}

(* No call holds the connection of a user who has not made any.            *)
FreshIsUnused == fresh => \A f \in Calls : future[f] # "binding"

WrapperInv == /\ WrapperTypeOK /\ TaskFollows /\ OverIsDone
        /\ HandedOutClean /\ FreshIsUnused

-------------------------------------------------------------------------------
(* A wrapper that was just built satisfies the invariant.                  *)
LEMMA InitWrapperInv == WrapperInit => WrapperInv
<1> SUFFICES ASSUME WrapperInit PROVE WrapperInv
    OBVIOUS
<1> USE DEF WrapperInit
<1>1. WrapperTypeOK
    <2>1. holder \in Calls \cup {0} /\ (holder # 0 => task[holder] = "running")
        OBVIOUS
    <2> QED
        BY <2>1 DEF WrapperTypeOK
<1>2. TaskFollows /\ OverIsDone
    BY DEF TaskFollows, OverIsDone
<1>3. HandedOutClean /\ FreshIsUnused
    BY DEF HandedOutClean, FreshIsUnused, Unfinished
<1> QED
    BY <1>1, <1>2, <1>3 DEF WrapperInv

(* The types of the state follow each step.                                *)
LEMMA WrapperNextType == WrapperInv /\ WrapperNext => WrapperTypeOK'
<1> SUFFICES ASSUME WrapperInv, WrapperNext PROVE WrapperTypeOK'
    OBVIOUS
<1> USE DEF WrapperInv, WrapperTypeOK
<1>1. ASSUME NEW f \in Calls, NEW o \in {"query", "batch", "begin", "close"}, Call(f, o)
      PROVE  WrapperTypeOK'
    <2>1. /\ task' \in [Calls -> {"none", "queued", "running", "done"}]
          /\ future' \in [Calls -> {"none", "binding", "pending", "dropping", "over"}]
          /\ op' \in [Calls -> {"query", "batch", "begin", "close"}]
          /\ collected' \in [Calls -> BOOLEAN]
        BY <1>1 DEF Call
    <2>2. holder' # 0 => task'[holder'] = "running"
        <3>1. holder' = holder /\ task[f] = "none"
            BY <1>1 DEF Call, TaskFollows
        <3>2. holder # 0 => holder # f
            BY <3>1
        <3> QED
            BY <1>1, <3>1, <3>2 DEF Call
    <2> QED
        BY <1>1, <2>1, <2>2 DEF Call
<1>2. ASSUME NEW f \in Calls, Await(f) \/ DropFuture(f) PROVE WrapperTypeOK'
    BY <1>2 DEF Await, DropFuture
<1>3. CASE GiveBack
    <2>1. depth' \in Nat /\ fresh' \in BOOLEAN /\ gone' \in BOOLEAN
        <3>1. CASE Unfinished # {} \/ poisoned
            BY <1>3, <3>1 DEF GiveBack
        <3>2. CASE ~(Unfinished # {} \/ poisoned)
            <4>1. depth' = (IF IsBroken THEN 0 ELSE depth)
                BY <1>3, <3>2 DEF GiveBack
            <4> QED
                BY <1>3, <3>2, <4>1 DEF GiveBack
        <3> QED
            BY <3>1, <3>2
    <2> QED
        BY <1>3, <2>1 DEF GiveBack, calls
<1>4. ASSUME NEW f \in Calls, Run(f) PROVE WrapperTypeOK'
    BY <1>4 DEF Run, CanLock
<1>5. ASSUME NEW f \in Calls, NEW outcome \in {"ok", "err", "panic"}, End(f, outcome)
      PROVE  WrapperTypeOK'
    <2>1. Depth(f) \in Nat
        BY DEF Depth
    <2>2. depth' \in Nat
        BY <1>5, <2>1 DEF End
    <2> QED
        BY <1>5, <2>2 DEF End, Calls
<1>6. ASSUME NEW f \in Calls, DropEnds(f) PROVE WrapperTypeOK'
    BY <1>6 DEF DropEnds
<1>7. ASSUME NEW f \in Calls, NEW outcome \in {"ok", "err", "panic"}, CollectBinds(f, outcome)
      PROVE  WrapperTypeOK'
    BY <1>7 DEF CollectBinds, CanLock
<1> QED
    BY <1>1, <1>2, <1>3, <1>4, <1>5, <1>6, <1>7 DEF WrapperNext, Threads, Blocked

(* Tasks and futures follow one another through each step.                 *)
LEMMA WrapperNextFutures == WrapperInv /\ WrapperNext => TaskFollows' /\ OverIsDone'
<1> SUFFICES ASSUME WrapperInv, WrapperNext PROVE TaskFollows' /\ OverIsDone'
    OBVIOUS
<1> USE DEF WrapperInv, WrapperTypeOK, TaskFollows, OverIsDone
<1>1. ASSUME NEW f \in Calls, NEW o \in {"query", "batch", "begin", "close"}, Call(f, o)
      PROVE  TaskFollows' /\ OverIsDone'
    BY <1>1 DEF Call
<1>2. ASSUME NEW f \in Calls, Await(f) \/ DropFuture(f)
      PROVE  TaskFollows' /\ OverIsDone'
    <2>1. CASE Await(f)
        BY <2>1 DEF Await
    <2>2. CASE DropFuture(f)
        <3>1. mayBlock /\ future'[f] = "over" => task[f] = "done"
            BY <2>2 DEF DropFuture, DropWaits
        <3> QED
            BY <2>2, <3>1 DEF DropFuture
    <2> QED
        BY <1>2, <2>1, <2>2
<1>3. CASE GiveBack
    BY <1>3 DEF GiveBack, calls
<1>4. ASSUME NEW f \in Calls, Run(f)
      PROVE  TaskFollows' /\ OverIsDone'
    BY <1>4 DEF Run
<1>5. ASSUME NEW f \in Calls, NEW outcome \in {"ok", "err", "panic"}, End(f, outcome)
      PROVE  TaskFollows' /\ OverIsDone'
    BY <1>5 DEF End
<1>6. ASSUME NEW f \in Calls, DropEnds(f)
      PROVE  TaskFollows' /\ OverIsDone'
    BY <1>6 DEF DropEnds
<1>7. ASSUME NEW f \in Calls, NEW outcome \in {"ok", "err", "panic"}, CollectBinds(f, outcome)
      PROVE  TaskFollows' /\ OverIsDone'
    BY <1>7 DEF CollectBinds
<1> QED
    BY <1>1, <1>2, <1>3, <1>4, <1>5, <1>6, <1>7 DEF WrapperNext, Threads, Blocked

(* A connection that was just handed out stays clean until it is used.     *)
LEMMA WrapperNextClean == WrapperInv /\ WrapperNext => HandedOutClean' /\ FreshIsUnused'
<1> SUFFICES ASSUME WrapperInv, WrapperNext PROVE HandedOutClean' /\ FreshIsUnused'
    OBVIOUS
<1> USE DEF WrapperInv, WrapperTypeOK, HandedOutClean, FreshIsUnused, Unfinished
<1>1. ASSUME NEW f \in Calls, NEW o \in {"query", "batch", "begin", "close"}, Call(f, o)
      PROVE  HandedOutClean' /\ FreshIsUnused'
    BY <1>1 DEF Call
<1>2. ASSUME NEW f \in Calls, Await(f) \/ DropFuture(f) PROVE HandedOutClean' /\ FreshIsUnused'
    BY <1>2 DEF Await, DropFuture
<1>3. CASE GiveBack
    <2>1. CASE Unfinished # {} \/ poisoned
        BY <1>3, <2>1 DEF GiveBack, calls
    <2>2. CASE ~(Unfinished # {} \/ poisoned)
        <3>1. depth' = 0
            BY <1>3, <2>2 DEF GiveBack, IsBroken
        <3> QED
            BY <1>3, <2>2, <3>1 DEF GiveBack, UserRuns, calls
    <2> QED
        BY <2>1, <2>2
<1>4. ASSUME NEW f \in Calls, Run(f) PROVE HandedOutClean' /\ FreshIsUnused'
    BY <1>4 DEF Run
<1>5. ASSUME NEW f \in Calls, NEW outcome \in {"ok", "err", "panic"}, End(f, outcome)
      PROVE  HandedOutClean' /\ FreshIsUnused'
    BY <1>5 DEF End
<1>6. ASSUME NEW f \in Calls, DropEnds(f) PROVE HandedOutClean' /\ FreshIsUnused'
    BY <1>6 DEF DropEnds
<1>7. ASSUME NEW f \in Calls, NEW outcome \in {"ok", "err", "panic"}, CollectBinds(f, outcome)
      PROVE  HandedOutClean' /\ FreshIsUnused'
    <2>1. ~fresh /\ fresh' = fresh
        BY <1>7 DEF CollectBinds
    <2> QED
        BY <1>7, <2>1 DEF CollectBinds
<1> QED
    BY <1>1, <1>2, <1>3, <1>4, <1>5, <1>6, <1>7 DEF WrapperNext, Threads, Blocked

(* The invariant is inductive.                                             *)
LEMMA WrapperInvHolds == WrapperSpec => []WrapperInv
<1>1. WrapperInit => WrapperInv
    BY InitWrapperInv
<1>2. WrapperInv /\ [WrapperNext]_wrapperVars => WrapperInv'
    <2>1. CASE WrapperNext
        BY <2>1, WrapperNextType, WrapperNextFutures, WrapperNextClean DEF WrapperInv
    <2>2. CASE UNCHANGED wrapperVars
        BY <2>2 DEF wrapperVars, calls, WrapperInv, WrapperTypeOK, TaskFollows, OverIsDone,
           HandedOutClean, FreshIsUnused, Unfinished
    <2> QED
        BY <2>1, <2>2
<1> QED
    BY <1>1, <1>2, PTL DEF WrapperSpec

-------------------------------------------------------------------------------
(* No user of a pool is given a connection with the transaction of another,
   or one on which a call of another still runs: is_broken needs the only
   reference to the connection, and reads the depth through it.            *)
THEOREM HandedOutCleanHolds == WrapperSpec => []HandedOutClean
BY WrapperInvHolds, PTL DEF WrapperInv

(* On a runtime whose threads may block, whoever has awaited or dropped all
   futures has the only reference to the connection: exclusive_connection
   does not panic for want of it.                                          *)
THEOREM ExclusiveWhenIdleHolds == WrapperSpec => []ExclusiveWhenIdle
<1>1. WrapperInv => ExclusiveWhenIdle
    BY DEF WrapperInv, WrapperTypeOK, TaskFollows, OverIsDone, ExclusiveWhenIdle, Unfinished, UserRuns
<1> QED
    BY <1>1, WrapperInvHolds, PTL

(* The state keeps its types, the lock is that of a task that runs, and the
   depth of the transaction within never goes below zero.                  *)
THEOREM WrapperTypeCorrect == WrapperSpec => []WrapperTypeOK
BY WrapperInvHolds, PTL DEF WrapperInv

===============================================================================
