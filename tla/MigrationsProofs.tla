--------------------------- MODULE MigrationsProofs ---------------------------
(***************************************************************************)
(* For every set of processes, versions and sources, on a database with or *)
(* without transactional DDL, however scripts interleave, fail, deadlock   *)
(* or are cut off by a crash: a DDL migration that runs in a transaction   *)
(* is in effect exactly when it is recorded (IInv); what is recorded has   *)
(* been applied, and redo in one transaction gives back the rows it has    *)
(* deleted (AppliedInv); nothing is missing below what is recorded, while  *)
(* nobody reverts (NothingBelow).                                          *)
(***************************************************************************)
EXTENDS Migrations, TLAPS, WellFoundedInduction

Protected == {v \in Locking : Transactional(v)}

(* What AppliedOnce says of DDL, with no condition on the commands.         *)
AppliedOnceDdl ==
    \A v \in Protected : schema[v] = IF v \in recorded THEN 1 ELSE 0

(* The script of v has run and its row is still to be written.             *)
Midway(p, v) == proc[p].pc = "record" /\ v = Task(p)

(* An object is locked by one process.                                     *)
LocksExclude == \A p, q \in Procs : p # q => txn[p].objs \cap txn[q].objs = {}

(* Nothing is open between the transactions of a command, and only redo has
   one around them all.                                                    *)
BetweenTransactions(p) ==
    \/ proc[p].pc = "idle"
    \/ proc[p].pc \in {"read", "script"} /\ ~proc[p].whole
    \/ proc[p].pc = "record" /\ Autocommits(p, Task(p))
NothingLeftOpen ==
    \A p \in Procs : /\ BetweenTransactions(p) => txn[p] = NoTxn
                     /\ proc[p].whole => proc[p].cmd = "redo"

(* Only the holder of its lock takes an effect away, and only what is there. *)
NothingBelowZero ==
    \A p \in Procs, v \in Versions :
        /\ txn[p].delta[v] < 0 => v \in txn[p].objs
        /\ Effect(p, v) >= 0

(* What a process has touched of a protected version, it has locked.       *)
TouchedIsLocked ==
    \A p \in Procs, v \in Protected :
        \/ v \in txn[p].objs
        \/ txn[p].delta[v] = 0 /\ v \notin txn[p].ins /\ v \notin txn[p].del /\ ~Midway(p, v)

(* A process sees script and row in step, but between the two.             *)
SeenInStep ==
    \A p \in Procs, v \in Protected :
        IF Midway(p, v)
        THEN IF proc[p].up THEN Effect(p, v) = 1 /\ v \notin Rows(p)
             ELSE Effect(p, v) = 0 /\ v \in Rows(p)
        ELSE Effect(p, v) = IF v \in Rows(p) THEN 1 ELSE 0

(* While nobody reverts, a process has a script pending exactly when it has
   its row pending, or is midway, and no two processes have one row.       *)
ForwardInStep ==
    asked \subseteq Forward =>
        /\ \A v \in Versions : Transactional(v) => schema[v] = IF v \in recorded THEN 1 ELSE 0
        /\ \A p \in Procs :
              /\ proc[p].up /\ ~proc[p].whole /\ proc[p].undone = {} /\ txn[p].del = {}
              /\ \A v \in Versions : Transactional(v) =>
                    /\ txn[p].delta[v] = IF v \in txn[p].ins \/ Midway(p, v) THEN 1 ELSE 0
                    /\ v \in txn[p].ins => v \notin recorded /\ \A q \in Procs \ {p} : v \notin txn[q].ins

(* The task that is recorded is a version.                                 *)
TaskIsVersion == \A p \in Procs : proc[p].pc = "record" => Task(p) \in Versions

IInv == /\ TypeOK /\ TaskIsVersion
        /\ LocksExclude /\ NothingLeftOpen /\ NothingBelowZero
        /\ TouchedIsLocked /\ SeenInStep /\ AppliedOnceDdl /\ ForwardInStep

-------------------------------------------------------------------------------
USE DEF Txn, Proc

LEMMA InitIInv == Init => IInv
  BY VersionsAssumption, MigrationsAssumption
  DEF Init, IInv, TypeOK, TaskIsVersion, LocksExclude, NothingLeftOpen, BetweenTransactions,
      NothingBelowZero, TouchedIsLocked, SeenInStep, AppliedOnceDdl, ForwardInStep, Idle,
      NoTxn, Rows, Effect, Midway, Protected, Commands, Forward

(* What a migration is does not change, and a process that takes no step is
   where it was.                                                           *)
LEMMA Same ==
  ASSUME UNCHANGED database
  PROVE  /\ \A v : Transactional(v)' <=> Transactional(v)
         /\ Protected' = Protected
         /\ Mysql' <=> Mysql
  BY DEF Transactional, Protected, Mysql

LEMMA Resting ==
  ASSUME NEW q, proc'[q] = proc[q], UNCHANGED database
  PROVE  /\ Task(q)' = Task(q)
         /\ \A v : Midway(q, v)' <=> Midway(q, v)
         /\ txn'[q] = txn[q] => (BetweenTransactions(q)' <=> BetweenTransactions(q))
  BY DEF Task, First, Last, Midway, BetweenTransactions, Autocommits, Mysql

(* A step that moves a process on, between two scripts, and touches no data. *)
LEMMA MovesOn ==
  ASSUME IInv, NEW p \in Procs, NEW r \in Proc,
         proc' = [proc EXCEPT ![p] = r], UNCHANGED <<recorded, schema, txn, database>>,
         asked' \subseteq Commands, started' \in Nat,
         proc[p].pc # "record", r.pc # "record", r.whole => r.cmd = "redo",
         r.pc = "idle" \/ (r.pc \in {"read", "script"} /\ ~r.whole) => txn[p] = NoTxn,
         asked' \subseteq Forward =>
            asked \subseteq Forward /\ r.up /\ ~r.whole /\ r.undone = {}
  PROVE  IInv'
  <1>1. TypeOK'
    BY DEF IInv, TypeOK
  <1>2. proc'[p] = r /\ \A q \in Procs \ {p} : proc'[q] = proc[q]
    BY DEF IInv, TypeOK
  <1>3. \A q \in Procs : \A v : Midway(q, v)' <=> Midway(q, v)
    <2>1. \A v : ~Midway(p, v) /\ ~Midway(p, v)'
      BY <1>2 DEF Midway
    <2> QED BY <1>2, <2>1, Resting
  <1>4. \A q \in Procs : Rows(q)' = Rows(q) /\ \A v : Effect(q, v)' = Effect(q, v)
    BY DEF Rows, Effect
  <1>5. TaskIsVersion'
    BY <1>2, Resting DEF IInv, TaskIsVersion
  <1>6. NothingLeftOpen'
    <2>1. BetweenTransactions(p)' => txn'[p] = NoTxn
      BY <1>2 DEF BetweenTransactions
    <2>2. \A q \in Procs \ {p} : BetweenTransactions(q)' <=> BetweenTransactions(q)
      BY <1>2, Resting
    <2>3. NoTxn' = NoTxn
      BY DEF NoTxn
    <2> QED BY <1>2, <2>1, <2>2, <2>3 DEF IInv, NothingLeftOpen
  <1>7. LocksExclude' /\ NothingBelowZero' /\ AppliedOnceDdl'
    BY <1>4, Same DEF IInv, LocksExclude, NothingBelowZero, AppliedOnceDdl
  <1>8. TouchedIsLocked'
    BY <1>3, Same DEF IInv, TouchedIsLocked
  <1>9. SeenInStep'
    <2>1. \A q \in Procs : \A v : Midway(q, v) => proc'[q] = proc[q]
      BY <1>2 DEF Midway
    <2> QED BY <1>3, <1>4, <2>1, Same DEF IInv, SeenInStep
  <1>10. ForwardInStep'
    BY <1>2, <1>3, Same DEF IInv, ForwardInStep
  <1> QED BY <1>1, <1>5, <1>6, <1>7, <1>8, <1>9, <1>10 DEF IInv

LEMMA StartStep ==
  ASSUME IInv, NEW p \in Procs, NEW c \in Commands, Start(p, c), UNCHANGED database
  PROVE  IInv'
  <1> DEFINE r == [cmd |-> c, pc |-> "read", up |-> c \in Forward, todo |-> {},
                   left |-> IF c \in {"revert", "redo"} THEN Number ELSE 1,
                   undone |-> {}, whole |-> c = "redo" /\ RedoInTransaction(p)]
  <1>1. proc' = [proc EXCEPT ![p] = r]
    BY DEF Start
  <1>2. r \in Proc
    BY MigrationsAssumption
  <1>3. proc[p].pc = "idle" /\ txn[p] = NoTxn
    BY DEF Start, IInv, NothingLeftOpen, BetweenTransactions
  <1>4. asked' = asked \cup {c} /\ started' = started + 1
    BY DEF Start
  <1>5. UNCHANGED <<recorded, schema, txn>>
    BY DEF Start
  <1>6. asked' \subseteq Commands /\ started' \in Nat
    BY <1>4 DEF IInv, TypeOK
  <1>7. c \in Forward => c # "redo"
    BY DEF Forward
  <1>8. asked' \subseteq Forward =>
          asked \subseteq Forward /\ r.up /\ ~r.whole /\ r.undone = {}
    BY <1>4, <1>7
  <1> HIDE DEF r
  <1>9. r.pc = "read" /\ (r.whole => r.cmd = "redo")
    BY DEF r
  <1> QED BY <1>1, <1>2, <1>3, <1>5, <1>6, <1>8, <1>9, MovesOn

(* Where a process goes on to.                                             *)
LEMMA GoesOnType ==
  ASSUME NEW q \in Proc
  PROVE  /\ GoesOn(q) \in Proc
         /\ GoesOn(q).pc \in {"idle", "read", "script", "commit"}
         /\ GoesOn(q).whole => q.whole /\ GoesOn(q).cmd = q.cmd
         /\ GoesOn(q).pc \in {"read", "script"} => GoesOn(q).whole = q.whole
         /\ GoesOn(q).pc = "idle" => ~q.whole
         /\ q.up /\ q.undone = {} => GoesOn(q).up /\ GoesOn(q).undone = {}
  <1>1. CASE q.todo # {}
    BY <1>1 DEF GoesOn
  <1>2. CASE q.todo = {} /\ q.left > 1
    <2> DEFINE r == [q EXCEPT !.pc = "read"]
               n == q.left - 1
    <2>1. n \in Nat
      BY <1>2
    <2>2. GoesOn(q) = [r EXCEPT !.left = n]
      BY <1>2 DEF GoesOn
    <2>3. /\ r \in Proc /\ r.pc = "read" /\ r.whole = q.whole /\ r.cmd = q.cmd
          /\ r.up = q.up /\ r.undone = q.undone
      OBVIOUS
    <2> HIDE DEF r, n
    <2> QED BY <2>1, <2>2, <2>3
  <1>3. CASE q.todo = {} /\ ~(q.left > 1) /\ q.undone # {}
    BY <1>3 DEF GoesOn, ToApply
  <1>4. CASE q.todo = {} /\ ~(q.left > 1) /\ q.undone = {} /\ q.whole
    BY <1>4 DEF GoesOn
  <1>5. CASE q.todo = {} /\ ~(q.left > 1) /\ q.undone = {} /\ ~q.whole
    BY <1>5 DEF GoesOn, Idle, Commands
  <1> QED BY <1>1, <1>2, <1>3, <1>4, <1>5

LEMMA RowsType ==
  ASSUME TypeOK, NEW p \in Procs
  PROVE  /\ Rows(p) \subseteq Versions
         /\ \A v \in Versions : Effect(p, v) \in Int
  BY DEF TypeOK, Rows, Effect

LEMMA ReadStep ==
  ASSUME IInv, NEW p \in Procs, Read(p), UNCHANGED database
  PROVE  IInv'
  <1> DEFINE q == [proc[p] EXCEPT !.todo = List(p)]
             r == IF q.todo = {} /\ q.cmd = "revert" THEN Idle ELSE GoesOn(q)
  <1>1. proc' = [proc EXCEPT ![p] = r] /\ UNCHANGED <<recorded, schema, txn, asked, started>>
    BY DEF Read
  <1>2. TypeOK /\ proc[p] \in Proc /\ proc[p].pc = "read"
    BY DEF IInv, TypeOK, Read
  <1>3. List(p) \subseteq Versions
    BY <1>2, RowsType, MigrationsAssumption DEF List, Lowest, Top
  <1>4. /\ q \in Proc /\ q.whole = proc[p].whole /\ q.cmd = proc[p].cmd
        /\ q.up = proc[p].up /\ q.undone = proc[p].undone
    BY <1>2, <1>3
  <1>5. Idle \in Proc /\ Idle.pc = "idle" /\ ~Idle.whole /\ Idle.up /\ Idle.undone = {}
    BY DEF Idle, Commands
  <1> HIDE DEF q
  <1>6. r \in Proc /\ r.pc # "record" /\ (r.whole => r.cmd = q.cmd /\ q.whole)
        /\ (q.up /\ q.undone = {} => r.up /\ r.undone = {})
    BY <1>4, <1>5, GoesOnType
  <1>7. r.pc = "idle" \/ (r.pc \in {"read", "script"} /\ ~r.whole) => ~q.whole
    <2>1. CASE q.todo = {} /\ q.cmd = "revert"
      BY <2>1, <1>4 DEF IInv, NothingLeftOpen
    <2>2. CASE ~(q.todo = {} /\ q.cmd = "revert")
      BY <2>2, <1>4, GoesOnType
    <2> QED BY <2>1, <2>2
  <1> HIDE DEF r
  <1>8. ~q.whole => txn[p] = NoTxn
    BY <1>2, <1>4 DEF IInv, NothingLeftOpen, BetweenTransactions
  <1>9. asked \subseteq Forward => q.up /\ ~q.whole /\ q.undone = {}
    BY <1>4 DEF IInv, ForwardInStep
  <1>10. q.whole => q.cmd = "redo"
    BY <1>4 DEF IInv, NothingLeftOpen
  <1>11. asked' \subseteq Commands /\ started' \in Nat
    BY <1>1, <1>2 DEF TypeOK
  <1> QED BY <1>1, <1>2, <1>6, <1>7, <1>8, <1>9, <1>10, <1>11, MovesOn

(* A command that is given up leaves nothing of its own, but for what a
   script that commits its statements one by one has already done.         *)
LEMMA AbandonStep ==
  ASSUME IInv, NEW p \in Procs, Abandon(p), UNCHANGED database,
         schema' \in [Versions -> Nat],
         \A v \in Versions : schema'[v] # schema[v] => ~Transactional(v)
            /\ \A q \in Procs \ {p} : schema'[v] + txn[q].delta[v] >= 0
  PROVE  IInv'
  <1>0. TypeOK
    BY DEF IInv
  <1>1. /\ proc'[p] = Idle /\ txn'[p] = NoTxn
        /\ \A q \in Procs \ {p} : proc'[q] = proc[q] /\ txn'[q] = txn[q]
    BY <1>0 DEF Abandon, Ended, TypeOK
  <1>2. UNCHANGED <<recorded, asked, started>>
    BY DEF Abandon
  <1>3. Idle \in Proc /\ NoTxn \in Txn /\ NoTxn' = NoTxn
    BY DEF Idle, Commands, NoTxn
  <1>4. TypeOK'
    BY <1>0, <1>2, <1>3 DEF TypeOK, Abandon, Ended
  <1>5. /\ \A v : ~Midway(p, v)'
        /\ \A q \in Procs \ {p} : \A v : Midway(q, v)' <=> Midway(q, v)
    BY <1>1, Resting DEF Midway, Idle
  <1>6. \A q \in Procs \ {p} : Rows(q)' = Rows(q)
    BY <1>1, <1>2 DEF Rows
  <1>7. Rows(p)' = recorded /\ \A v \in Versions : Effect(p, v)' = schema'[v]
    BY <1>1, <1>2, <1>4 DEF Rows, Effect, NoTxn, TypeOK
  <1>8. TaskIsVersion'
    BY <1>1, Resting DEF IInv, TaskIsVersion, Idle
  <1>9. LocksExclude'
    BY <1>1 DEF IInv, LocksExclude, NoTxn
  <1>10. NothingLeftOpen'
    <2>1. \A q \in Procs \ {p} : BetweenTransactions(q)' <=> BetweenTransactions(q)
      BY <1>1, Resting
    <2>2. ~Idle.whole
      BY DEF Idle
    <2> QED BY <1>1, <1>3, <2>1, <2>2 DEF IInv, NothingLeftOpen
  <1>11. NothingBelowZero'
    <2> SUFFICES ASSUME NEW q \in Procs, NEW v \in Versions
                 PROVE  (txn'[q].delta[v] < 0 => v \in txn'[q].objs) /\ Effect(q, v)' >= 0
      BY DEF NothingBelowZero
    <2>1. CASE q = p
      BY <2>1, <1>1, <1>7 DEF NoTxn
    <2>2. CASE q # p
      <3>1. Effect(q, v)' = schema'[v] + txn[q].delta[v]
        BY <2>2, <1>1 DEF Effect
      <3>2. schema[v] + txn[q].delta[v] >= 0
        BY DEF IInv, NothingBelowZero, Effect
      <3> QED BY <2>2, <3>1, <3>2, <1>1 DEF IInv, NothingBelowZero
    <2> QED BY <2>1, <2>2
  <1>12. TouchedIsLocked'
    <2>1. \A v \in Protected : v \in Versions
      BY MigrationsAssumption DEF Protected
    <2>2. \A v \in Versions : NoTxn.delta[v] = 0 /\ v \notin NoTxn.ins /\ v \notin NoTxn.del
      BY DEF NoTxn
    <2> QED BY <1>1, <1>5, <2>1, <2>2, Same DEF IInv, TouchedIsLocked
  <1>13. \A v \in Protected : v \in Versions /\ schema'[v] = schema[v]
    BY MigrationsAssumption DEF Protected
  <1>14. AppliedOnceDdl'
    BY <1>2, <1>13, Same DEF IInv, AppliedOnceDdl
  <1>15. SeenInStep'
    <2> SUFFICES ASSUME NEW q \in Procs, NEW v \in Protected
                 PROVE  IF Midway(q, v)'
                        THEN IF proc'[q].up THEN Effect(q, v)' = 1 /\ v \notin Rows(q)'
                             ELSE Effect(q, v)' = 0 /\ v \in Rows(q)'
                        ELSE Effect(q, v)' = IF v \in Rows(q)' THEN 1 ELSE 0
      BY Same DEF SeenInStep
    <2>1. CASE q = p
      BY <2>1, <1>2, <1>5, <1>7, <1>13, <1>14, Same DEF AppliedOnceDdl
    <2>2. CASE q # p
      <3>1. Effect(q, v)' = Effect(q, v)
        BY <2>2, <1>1, <1>13 DEF Effect
      <3> QED BY <2>2, <3>1, <1>1, <1>5, <1>6 DEF IInv, SeenInStep
    <2> QED BY <2>1, <2>2
  <1>16. ForwardInStep'
    <2>1. \A v \in Versions : NoTxn.delta[v] = 0 /\ v \notin NoTxn.ins
      BY DEF NoTxn
    <2>2. Idle.up /\ ~Idle.whole /\ Idle.undone = {} /\ NoTxn.del = {}
      BY DEF Idle, NoTxn
    <2> QED BY <1>1, <1>2, <1>5, <2>1, <2>2, Same DEF IInv, ForwardInStep
  <1> QED BY <1>4, <1>8, <1>9, <1>10, <1>11, <1>12, <1>14, <1>15, <1>16 DEF IInv

(* A script that commits its statements one by one: it is not one of the
   transactional ones, and takes away only what its process has locked.     *)
LEMMA AutocommitEffect ==
  ASSUME IInv, NEW p \in Procs, proc[p].pc = "script", Autocommits(p, Task(p)),
         Task(p) \in Versions, NeedsObject(p, Task(p)) => ~ObjectBusy(p, Task(p)),
         schema' = [schema EXCEPT ![Task(p)] = @ + Change(p, Task(p))]
  PROVE  /\ schema' \in [Versions -> Nat]
         /\ \A v \in Versions : schema'[v] # schema[v] => ~Transactional(v)
              /\ \A q \in Procs \ {p} : schema'[v] + txn[q].delta[v] >= 0
  <1> DEFINE t == Task(p)
  <1>1. TypeOK /\ t \in Versions
    BY DEF IInv
  <1>2. ~proc[p].whole /\ ~Transactional(t)
    BY DEF Autocommits, Transactional
  <1>3. txn[p] = NoTxn
    BY <1>2 DEF IInv, NothingLeftOpen, BetweenTransactions
  <1>4. Effect(p, t) = schema[t]
    BY <1>1, <1>3 DEF Effect, NoTxn, TypeOK
  <1>5. \A q \in Procs, v \in Versions :
          /\ txn[q].delta[v] \in Int /\ schema[v] \in Nat
          /\ schema[v] + txn[q].delta[v] >= 0
          /\ txn[q].delta[v] < 0 => v \in txn[q].objs
    BY <1>1 DEF IInv, TypeOK, NothingBelowZero, Effect
  <1>6. \/ proc[p].up /\ schema' = [schema EXCEPT ![t] = schema[t] + 1]
        \/ ~proc[p].up /\ schema' = [schema EXCEPT ![t] = 0]
    <2>1. Change(p, t) = IF proc[p].up THEN 1 ELSE -schema[t]
      BY <1>4 DEF Change
    <2>2. schema' = [schema EXCEPT ![t] = schema[t] + Change(p, t)]
      OBVIOUS
    <2> HIDE DEF t
    <2>3. schema[t] \in Int
      BY <1>1 DEF TypeOK
    <2>4. schema[t] + Change(p, t) = IF proc[p].up THEN schema[t] + 1 ELSE 0
      BY <2>1, <2>3
    <2> QED BY <2>2, <2>4
  <1>7. ~proc[p].up /\ schema[t] > 0 => \A q \in Procs \ {p} : t \notin txn[q].objs
    BY <1>4 DEF NeedsObject, ObjectBusy
  <1> HIDE DEF t
  <1>8. schema' \in [Versions -> Nat]
    BY <1>1, <1>6 DEF TypeOK
  <1>9. \A v \in Versions : schema'[v] # schema[v] => v = t
    BY <1>1, <1>6 DEF TypeOK
  <1>10. schema'[t] # schema[t] => \A q \in Procs \ {p} : schema'[t] + txn[q].delta[t] >= 0
    <2>1. CASE proc[p].up
      <3>1. schema'[t] = schema[t] + 1
        BY <2>1, <1>1, <1>6 DEF TypeOK
      <3> QED BY <3>1, <1>1, <1>5
    <2>2. CASE ~proc[p].up
      <3>1. schema'[t] = 0
        BY <2>2, <1>1, <1>6 DEF TypeOK
      <3> QED BY <3>1, <2>2, <1>1, <1>5, <1>7
    <2> QED BY <2>1, <2>2
  <1> QED BY <1>2, <1>8, <1>9, <1>10

LEMMA FailStep ==
  ASSUME IInv, NEW p \in Procs, UNCHANGED database,
         ScriptFails(p) \/ RecordFails(p) \/ Deadlock(p) \/ Crash(p)
  PROVE  IInv'
  <1>1. Abandon(p)
    BY DEF ScriptFails, RecordFails, Deadlock, Crash
  <1>2. TypeOK
    BY DEF IInv
  <1>3. CASE UNCHANGED schema
    BY <1>1, <1>2, <1>3, AbandonStep DEF TypeOK
  <1>4. CASE schema' # schema
    <2>1. /\ proc[p].pc = "script" /\ Autocommits(p, Task(p)) /\ Task(p) \in Versions
          /\ NeedsObject(p, Task(p)) => ~ObjectBusy(p, Task(p))
          /\ schema' = [schema EXCEPT ![Task(p)] = @ + Change(p, Task(p))]
      BY <1>4, MigrationsAssumption DEF ScriptFails, RecordFails, Deadlock, Crash
    <2> QED BY <2>1, <1>1, AutocommitEffect, AbandonStep
  <1> QED BY <1>3, <1>4

(* A script has run: its process is midway, and the others are where they were. *)
LEMMA ScriptMoves ==
  ASSUME TypeOK, NEW p \in Procs, Script(p), UNCHANGED database
  PROVE  /\ Task(p) \in Versions /\ proc[p].pc = "script"
         /\ UNCHANGED <<recorded, asked, started>>
         /\ proc' \in [Procs -> Proc]
         /\ \A q \in Procs \ {p} : proc'[q] = proc[q]
         /\ proc'[p].pc = "record" /\ proc'[p].cmd = proc[p].cmd /\ proc'[p].up = proc[p].up
         /\ proc'[p].whole = proc[p].whole /\ proc'[p].undone = proc[p].undone
         /\ Task(p)' = Task(p)
         /\ \A v : ~Midway(p, v) /\ (Midway(p, v)' <=> v = Task(p))
         /\ \A q \in Procs \ {p} : \A v : Midway(q, v)' <=> Midway(q, v)
  <1> DEFINE r == [proc[p] EXCEPT !.pc = "record"]
  <1>1. proc' = [proc EXCEPT ![p] = r]
        /\ proc[p].pc = "script" /\ UNCHANGED <<recorded, asked, started>>
    BY DEF Script
  <1>2. Task(p) \in Versions
    BY MigrationsAssumption DEF Script
  <1>3. /\ r \in Proc /\ r.pc = "record" /\ r.cmd = proc[p].cmd /\ r.up = proc[p].up
        /\ r.whole = proc[p].whole /\ r.undone = proc[p].undone /\ r.todo = proc[p].todo
    <2>1. proc[p] \in Proc
      BY DEF TypeOK
    <2> QED BY <2>1
  <1> HIDE DEF r
  <1>4. /\ proc'[p] = r /\ proc' \in [Procs -> Proc]
        /\ \A q \in Procs \ {p} : proc'[q] = proc[q]
    BY <1>1, <1>3 DEF TypeOK
  <1>5. Task(p)' = Task(p)
    <2>1. proc'[p].up = proc[p].up /\ proc'[p].todo = proc[p].todo
      BY <1>3, <1>4
    <2> QED BY <2>1 DEF Task
  <1>6. \A v : ~Midway(p, v) /\ (Midway(p, v)' <=> v = Task(p))
    BY <1>1, <1>3, <1>4, <1>5 DEF Midway
  <1> QED BY <1>1, <1>2, <1>3, <1>4, <1>5, <1>6, Resting

LEMMA ScriptAutocommits ==
  ASSUME IInv, NEW p \in Procs, Script(p), UNCHANGED database, Autocommits(p, Task(p))
  PROVE  IInv'
  <1> DEFINE t == Task(p)
  <1>1. TypeOK
    BY DEF IInv
  <1>2. /\ txn' = txn /\ (NeedsObject(p, t) => ~ObjectBusy(p, t))
        /\ schema' = [schema EXCEPT ![t] = @ + Change(p, t)]
    BY DEF Script, RunScript
  <1>3. /\ schema' \in [Versions -> Nat]
        /\ \A v \in Versions : schema'[v] # schema[v] => ~Transactional(v)
              /\ \A q \in Procs \ {p} : schema'[v] + txn[q].delta[v] >= 0
    BY <1>1, <1>2, ScriptMoves, AutocommitEffect
  <1>4. ~proc[p].whole /\ ~Transactional(t) /\ txn[p] = NoTxn
    BY <1>1, ScriptMoves DEF Autocommits, Transactional, IInv, NothingLeftOpen, BetweenTransactions
  <1>5. \A q \in Procs : Rows(q)' = Rows(q)
    BY <1>1, <1>2, ScriptMoves DEF Rows
  <1>6. \A v \in Protected : v \in Versions /\ Transactional(v) /\ schema'[v] = schema[v] /\ v # t
    BY <1>3, <1>4, MigrationsAssumption DEF Protected
  <1>7. TypeOK'
    BY <1>1, <1>2, <1>3, ScriptMoves DEF TypeOK
  <1>8. TaskIsVersion'
    BY <1>1, ScriptMoves, Resting DEF IInv, TaskIsVersion
  <1>9. LocksExclude'
    BY <1>2 DEF IInv, LocksExclude
  <1>10. NothingLeftOpen'
    <2>1. \A q \in Procs \ {p} : BetweenTransactions(q)' <=> BetweenTransactions(q)
      BY <1>1, <1>2, ScriptMoves, Resting
    <2>2. NoTxn' = NoTxn
      BY DEF NoTxn
    <2> QED BY <1>1, <1>2, <1>4, <2>1, <2>2, ScriptMoves DEF IInv, NothingLeftOpen
  <1>11. NothingBelowZero'
    <2>1. \A v \in Versions : schema'[v] + NoTxn.delta[v] >= 0 /\ ~(NoTxn.delta[v] < 0)
      BY <1>3 DEF NoTxn
    <2>2. \A q \in Procs, v \in Versions : schema'[v] + txn[q].delta[v] >= 0
      BY <1>3, <1>4, <2>1 DEF IInv, NothingBelowZero, Effect
    <2> QED BY <1>2, <2>2 DEF IInv, NothingBelowZero, Effect
  <1>12. TouchedIsLocked'
    BY <1>1, <1>2, <1>6, Same, ScriptMoves DEF IInv, TouchedIsLocked
  <1>13. SeenInStep'
    <2>1. \A q \in Procs, v \in Protected : Effect(q, v)' = Effect(q, v)
      BY <1>2, <1>6 DEF Effect
    <2> QED BY <1>1, <1>5, <1>6, <2>1, Same, ScriptMoves DEF IInv, SeenInStep
  <1>14. AppliedOnceDdl'
    BY <1>1, <1>6, Same, ScriptMoves DEF IInv, AppliedOnceDdl
  <1>15. ForwardInStep'
    BY <1>1, <1>2, <1>3, <1>4, Same, ScriptMoves DEF IInv, ForwardInStep
  <1> QED BY <1>7, <1>8, <1>9, <1>10, <1>11, <1>12, <1>13, <1>14, <1>15 DEF IInv

(* A script runs in a transaction: what it changes is locked, or added.     *)
LEMMA ScriptChanges ==
  ASSUME IInv, NEW p \in Procs, Script(p), UNCHANGED database, ~Autocommits(p, Task(p)),
         NEW t, t = Task(p)
  PROVE  /\ t \in Versions /\ UNCHANGED <<schema, recorded, asked>>
         /\ txn' \in [Procs -> Txn]
         /\ \A q \in Procs \ {p} : txn'[q] = txn[q]
         /\ txn'[p].ins = txn[p].ins /\ txn'[p].del = txn[p].del
         /\ txn'[p].objs = IF NeedsObject(p, t) THEN txn[p].objs \cup {t} ELSE txn[p].objs
         /\ NeedsObject(p, t) <=> t \in Locking \/ (~proc[p].up /\ Effect(p, t) > 0)
         /\ Effect(p, t) \in Nat /\ txn[p].delta[t] \in Int
         /\ txn'[p].delta[t] = txn[p].delta[t] + IF proc[p].up THEN 1 ELSE -Effect(p, t)
         /\ Effect(p, t)' = IF proc[p].up THEN Effect(p, t) + 1 ELSE 0
         /\ \A v \in Versions \ {t} : txn'[p].delta[v] = txn[p].delta[v]
  <1> DEFINE e == Effect(p, t)
             c == Change(p, t)
             n == [objs  |-> IF NeedsObject(p, t) THEN txn[p].objs \cup {t} ELSE txn[p].objs,
                   ins   |-> txn[p].ins,
                   del   |-> txn[p].del,
                   delta |-> [txn[p].delta EXCEPT ![t] = @ + c]]
  <1>1. TypeOK /\ t \in Versions /\ UNCHANGED <<schema, recorded, asked>>
    BY ScriptMoves DEF IInv, Script, RunScript
  <1>2. e \in Nat /\ c \in Int /\ c = IF proc[p].up THEN 1 ELSE -e
    BY <1>1, RowsType DEF IInv, NothingBelowZero, Change
  <1>3. txn' = [txn EXCEPT ![p] = n]
    BY DEF Script, RunScript
  <1>4. NeedsObject(p, t) <=> t \in Locking \/ (~proc[p].up /\ e > 0)
    BY DEF NeedsObject
  <1> HIDE DEF c
  <1>t. [txn[p].delta EXCEPT ![t] = @ + c] \in [Versions -> Int]
    BY <1>1, <1>2 DEF TypeOK
  <1>u. txn' \in [Procs -> Txn]
    BY <1>1, <1>3, <1>t DEF TypeOK
  <1>5. /\ \A q \in Procs \ {p} : txn'[q] = txn[q]
        /\ txn'[p].ins = txn[p].ins /\ txn'[p].del = txn[p].del
        /\ txn'[p].objs = IF NeedsObject(p, t) THEN txn[p].objs \cup {t} ELSE txn[p].objs
        /\ txn[p].delta[t] \in Int /\ txn'[p].delta[t] = txn[p].delta[t] + c
        /\ \A v \in Versions \ {t} : txn'[p].delta[v] = txn[p].delta[v]
    BY <1>1, <1>2, <1>3 DEF TypeOK
  <1>6. Effect(p, t)' = IF proc[p].up THEN e + 1 ELSE 0
    <2>1. Effect(p, t)' = schema[t] + (txn[p].delta[t] + c) /\ e = schema[t] + txn[p].delta[t]
      BY <1>1, <1>5 DEF Effect
    <2>2. schema[t] \in Int /\ txn[p].delta[t] \in Int
      BY <1>1 DEF TypeOK
    <2> HIDE DEF e
    <2> QED BY <2>1, <2>2, <1>2
  <1> QED BY <1>1, <1>2, <1>4, <1>5, <1>6, <1>u

LEMMA ScriptInTransaction ==
  ASSUME IInv, NEW p \in Procs, Script(p), UNCHANGED database, ~Autocommits(p, Task(p))
  PROVE  IInv'
  <1>0. PICK t : t = Task(p)
    OBVIOUS
  <1> DEFINE e == Effect(p, t)
             c == Change(p, t)
  <1>1. TypeOK /\ t \in Versions /\ proc[p].pc = "script"
    BY <1>0, ScriptMoves DEF IInv
  <1>2. e \in Nat /\ c \in Int /\ c = IF proc[p].up THEN 1 ELSE -e
    BY <1>1, RowsType DEF IInv, NothingBelowZero, Change
  <1>3. /\ schema' = schema
        /\ txn' = [txn EXCEPT ![p] =
              [objs  |-> IF NeedsObject(p, t) THEN txn[p].objs \cup {t} ELSE txn[p].objs,
               ins   |-> txn[p].ins,
               del   |-> txn[p].del,
               delta |-> [txn[p].delta EXCEPT ![t] = @ + c]]]
        /\ NeedsObject(p, t) => ~ObjectBusy(p, t)
        /\ CanRun(p, t)
    BY <1>0 DEF Script, RunScript
  <1>4. ~proc[p].whole => Transactional(t) /\ txn[p] = NoTxn
    BY <1>0, <1>1 DEF Autocommits, Transactional, IInv, NothingLeftOpen, BetweenTransactions
  <1>5. t \in Protected => t \in Locking
    BY DEF Protected
  <1>6. NeedsObject(p, t) <=> t \in Locking \/ (~proc[p].up /\ e > 0)
    BY DEF NeedsObject
  <1>7. t \in Locking => e = IF proc[p].up THEN 0 ELSE 1
    BY <1>3 DEF CanRun
  <1>9. /\ txn' \in [Procs -> Txn] /\ \A q \in Procs \ {p} : txn'[q] = txn[q]
        /\ txn'[p].ins = txn[p].ins /\ txn'[p].del = txn[p].del
        /\ txn'[p].objs = IF NeedsObject(p, t) THEN txn[p].objs \cup {t} ELSE txn[p].objs
        /\ txn'[p].delta[t] = txn[p].delta[t] + c
        /\ \A v \in Versions \ {t} : txn'[p].delta[v] = txn[p].delta[v]
    BY <1>0, <1>2, ScriptChanges
  <1>12. Effect(p, t)' = IF proc[p].up THEN e + 1 ELSE 0
    BY <1>0, ScriptChanges
  <1> HIDE DEF c
  <1>11. /\ \A q \in Procs : Rows(q)' = Rows(q)
         /\ \A q \in Procs \ {p} : \A v : Effect(q, v)' = Effect(q, v)
         /\ \A v \in Versions \ {t} : Effect(p, v)' = Effect(p, v)
    BY <1>1, <1>3, <1>9, ScriptMoves DEF Rows, Effect
  <1>13. /\ proc'[p].pc = "record" /\ proc'[p].up = proc[p].up
         /\ proc'[p].whole = proc[p].whole /\ proc'[p].cmd = proc[p].cmd
         /\ proc'[p].undone = proc[p].undone
         /\ Task(p)' = t
         /\ \A v : ~Midway(p, v) /\ (Midway(p, v)' <=> v = t)
         /\ \A q \in Procs \ {p} : proc'[q] = proc[q] /\ \A v : Midway(q, v)' <=> Midway(q, v)
         /\ UNCHANGED <<recorded, asked, started>> /\ proc' \in [Procs -> Proc]
    BY <1>0, <1>1, ScriptMoves
  <1> HIDE DEF e
  <1>14. TypeOK'
    BY <1>1, <1>3, <1>9, <1>13 DEF TypeOK
  <1>15. TaskIsVersion'
    BY <1>1, <1>13, Resting DEF IInv, TaskIsVersion
  <1>16. LocksExclude'
    BY <1>3, <1>9 DEF IInv, LocksExclude, ObjectBusy
  <1>17. NothingLeftOpen'
    <2>1. \A q \in Procs \ {p} : BetweenTransactions(q)' <=> BetweenTransactions(q)
      BY <1>9, <1>13, Resting
    <2>2. ~BetweenTransactions(p)'
      <3>1. ~Autocommits(p, Task(p))'
        BY <1>0, <1>13, Same DEF Autocommits
      <3> QED BY <3>1, <1>13 DEF BetweenTransactions
    <2>3. NoTxn' = NoTxn
      BY DEF NoTxn
    <2> QED BY <1>9, <1>13, <2>1, <2>2, <2>3 DEF IInv, NothingLeftOpen
  <1>18. NothingBelowZero'
    <2>1. txn'[p].delta[t] < 0 => t \in txn'[p].objs
      <3>1. schema[t] \in Nat /\ txn[p].delta[t] \in Int /\ e = schema[t] + txn[p].delta[t]
            /\ (txn[p].delta[t] < 0 => t \in txn[p].objs)
        BY <1>1 DEF TypeOK, e, Effect, IInv, NothingBelowZero
      <3> QED BY <3>1, <1>2, <1>6, <1>9
    <2> QED BY <2>1, <1>2, <1>9, <1>11, <1>12 DEF IInv, NothingBelowZero
  <1>19. TouchedIsLocked'
    BY <1>5, <1>6, <1>9, <1>13, Same, MigrationsAssumption DEF IInv, TouchedIsLocked, Protected
  <1>20. SeenInStep'
    <2> SUFFICES ASSUME NEW q \in Procs, NEW v \in Protected
                 PROVE  IF Midway(q, v)'
                        THEN IF proc'[q].up THEN Effect(q, v)' = 1 /\ v \notin Rows(q)'
                             ELSE Effect(q, v)' = 0 /\ v \in Rows(q)'
                        ELSE Effect(q, v)' = IF v \in Rows(q)' THEN 1 ELSE 0
      BY Same DEF SeenInStep
    <2>1. CASE q = p /\ v = t
      <3>1. e = IF v \in Rows(p) THEN 1 ELSE 0
        BY <2>1, <1>13 DEF IInv, SeenInStep, e
      <3> HIDE DEF e
      <3> QED BY <2>1, <3>1, <1>5, <1>7, <1>11, <1>12, <1>13
    <2>2. CASE ~(q = p /\ v = t)
      <3>1. v \in Versions
        BY MigrationsAssumption DEF Protected
      <3> QED BY <2>2, <3>1, <1>11, <1>13 DEF IInv, SeenInStep
    <2> QED BY <2>1, <2>2
  <1>21. AppliedOnceDdl'
    BY <1>3, <1>13, Same DEF IInv, AppliedOnceDdl
  <1>22. ForwardInStep'
    <2>1. asked \subseteq Forward => txn'[p].delta[t] = 1 /\ t \notin txn[p].ins /\ txn[p].del = {}
      <3> SUFFICES ASSUME asked \subseteq Forward
                   PROVE  txn'[p].delta[t] = 1 /\ t \notin txn[p].ins /\ txn[p].del = {}
        OBVIOUS
      <3>1. ~proc[p].whole /\ proc[p].up
        BY DEF IInv, ForwardInStep
      <3>2. txn[p] = NoTxn
        BY <3>1, <1>4
      <3> QED BY <3>1, <3>2, <1>1, <1>2, <1>9 DEF NoTxn
    <2> QED BY <2>1, <1>1, <1>3, <1>9, <1>13, Same DEF IInv, ForwardInStep
  <1> QED BY <1>14, <1>15, <1>16, <1>17, <1>18, <1>19, <1>20, <1>21, <1>22 DEF IInv

(* A row is recorded: its process goes on, and no other does.              *)
LEMMA RecordMoves ==
  ASSUME IInv, NEW p \in Procs, TaskDone(p, Task(p)), proc[p].pc = "record", UNCHANGED database
  PROVE  /\ proc' \in [Procs -> Proc] /\ proc'[p].pc # "record"
         /\ proc'[p].whole => proc[p].whole /\ proc'[p].cmd = proc[p].cmd
         /\ proc'[p].pc = "idle" \/ (proc'[p].pc \in {"read", "script"} /\ ~proc'[p].whole) =>
               Autocommits(p, Task(p))
         /\ proc[p].up /\ proc[p].undone = {} => proc'[p].up /\ proc'[p].undone = {}
         /\ \A v : (Midway(p, v) <=> v = Task(p)) /\ ~Midway(p, v)'
         /\ \A q \in Procs \ {p} : proc'[q] = proc[q] /\ \A v : Midway(q, v)' <=> Midway(q, v)
  <1>1. TypeOK /\ Task(p) \in Versions
    BY DEF IInv, TaskIsVersion
  <1> DEFINE redoes == proc[p].cmd = "redo" /\ ~proc[p].up
             todo == proc[p].todo \ {Task(p)}
             undone == IF redoes THEN proc[p].undone \cup {Task(p)} ELSE proc[p].undone
             q1 == [proc[p] EXCEPT !.todo = todo]
             q == [q1 EXCEPT !.undone = undone]
             q2 == [q EXCEPT !.pc = "commit"]
             r == IF q.whole \/ Autocommits(p, Task(p)) THEN GoesOn(q) ELSE q2
  <1>2. proc' = [proc EXCEPT ![p] = r]
    BY DEF TaskDone
  <1>3. todo \subseteq Versions /\ undone \subseteq Versions /\ (proc[p].up => undone = proc[p].undone)
    BY <1>1 DEF TypeOK
  <1> HIDE DEF todo, undone
  <1>4. /\ q1 \in Proc /\ q1.whole = proc[p].whole /\ q1.cmd = proc[p].cmd
        /\ q1.up = proc[p].up /\ q1.undone = proc[p].undone
    BY <1>1, <1>3 DEF TypeOK
  <1> HIDE DEF q1
  <1>5. /\ q \in Proc /\ q.whole = q1.whole /\ q.cmd = q1.cmd
        /\ q.up = q1.up /\ q.undone = undone
    BY <1>3, <1>4
  <1> HIDE DEF q
  <1>6. /\ q2 \in Proc /\ q2.pc = "commit" /\ q2.whole = q.whole /\ q2.cmd = q.cmd
        /\ q2.up = q.up /\ q2.undone = q.undone
    BY <1>5
  <1> HIDE DEF q2
  <1>7. /\ r \in Proc /\ r.pc # "record" /\ (r.whole => q.whole /\ r.cmd = q.cmd)
        /\ q.up /\ q.undone = {} => r.up /\ r.undone = {}
        /\ r.pc = "idle" \/ (r.pc \in {"read", "script"} /\ ~r.whole) => Autocommits(p, Task(p))
    <2>1. CASE q.whole \/ Autocommits(p, Task(p))
      BY <2>1, <1>5, GoesOnType
    <2>2. CASE ~(q.whole \/ Autocommits(p, Task(p)))
      BY <2>2, <1>6
    <2> QED BY <2>1, <2>2
  <1> HIDE DEF r
  <1>8. proc'[p] = r /\ proc' \in [Procs -> Proc] /\ \A o \in Procs \ {p} : proc'[o] = proc[o]
    BY <1>1, <1>2, <1>7 DEF TypeOK
  <1>9. \A v : (Midway(p, v) <=> v = Task(p)) /\ ~Midway(p, v)'
    BY <1>7, <1>8 DEF Midway
  <1>10. \A o \in Procs \ {p} : \A v : Midway(o, v)' <=> Midway(o, v)
    BY <1>8, Resting
  <1>11. proc[p].up /\ proc[p].undone = {} => proc'[p].up /\ proc'[p].undone = {}
    BY <1>3, <1>4, <1>5, <1>7, <1>8
  <1>12. proc'[p].whole => proc[p].whole /\ proc'[p].cmd = proc[p].cmd
    BY <1>4, <1>5, <1>7, <1>8
  <1> QED BY <1>7, <1>8, <1>9, <1>10, <1>11, <1>12

LEMMA RecordAutocommits ==
  ASSUME IInv, NEW p \in Procs, Record(p), UNCHANGED database, Autocommits(p, Task(p))
  PROVE  IInv'
  <1>0. PICK t : t = Task(p)
    OBVIOUS
  <1>1. /\ TypeOK /\ t \in Versions /\ proc[p].pc = "record" /\ TaskDone(p, t)
        /\ UNCHANGED <<schema, asked, started>>
    BY <1>0 DEF IInv, TaskIsVersion, Record
  <1>2. txn' = txn /\ (recorded' = recorded \cup {t} \/ recorded' = recorded \ {t})
    BY <1>0 DEF Record, InsertRow, DeleteRow
  <1>3. txn[p] = NoTxn /\ ~proc[p].whole /\ ~Transactional(t)
    BY <1>0, <1>1 DEF IInv, NothingLeftOpen, BetweenTransactions, Autocommits, Transactional
  <1>4. /\ proc' \in [Procs -> Proc] /\ proc'[p].pc # "record"
        /\ proc'[p].whole => proc[p].whole /\ proc'[p].cmd = proc[p].cmd
        /\ proc[p].up /\ proc[p].undone = {} => proc'[p].up /\ proc'[p].undone = {}
        /\ \A v : (Midway(p, v) <=> v = t) /\ ~Midway(p, v)'
        /\ \A q \in Procs \ {p} : proc'[q] = proc[q] /\ \A v : Midway(q, v)' <=> Midway(q, v)
    BY <1>0, <1>1, RecordMoves
  <1>5. \A v \in Protected : v # t /\ v \in Versions /\ (v \in recorded' <=> v \in recorded)
    BY <1>2, <1>3, MigrationsAssumption DEF Protected
  <1>6. \A q \in Procs : \A v : Effect(q, v)' = Effect(q, v)
    BY <1>1, <1>2 DEF Effect
  <1>7. TypeOK'
    BY <1>1, <1>2, <1>4 DEF TypeOK
  <1>8. TaskIsVersion'
    BY <1>4, Resting DEF IInv, TaskIsVersion
  <1>9. LocksExclude' /\ NothingBelowZero'
    BY <1>2, <1>6 DEF IInv, LocksExclude, NothingBelowZero
  <1>10. NothingLeftOpen'
    <2>1. \A q \in Procs \ {p} : BetweenTransactions(q)' <=> BetweenTransactions(q)
      BY <1>2, <1>4, Resting
    <2>2. NoTxn' = NoTxn
      BY DEF NoTxn
    <2> QED BY <1>2, <1>3, <1>4, <2>1, <2>2 DEF IInv, NothingLeftOpen
  <1>11. TouchedIsLocked'
    BY <1>2, <1>4, <1>5, Same DEF IInv, TouchedIsLocked
  <1>12. SeenInStep'
    <2>1. \A q \in Procs, v \in Protected : v \in Rows(q)' <=> v \in Rows(q)
      BY <1>2, <1>5 DEF Rows
    <2> QED BY <1>4, <1>5, <1>6, <2>1, Same DEF IInv, SeenInStep
  <1>13. AppliedOnceDdl'
    BY <1>1, <1>5, Same DEF IInv, AppliedOnceDdl
  <1>14. ForwardInStep'
    <2>1. \A v : Transactional(v) => v # t /\ (v \in recorded' <=> v \in recorded)
      BY <1>2, <1>3
    <2> QED BY <1>1, <1>2, <1>4, <2>1, Same DEF IInv, ForwardInStep
  <1> QED BY <1>7, <1>8, <1>9, <1>10, <1>11, <1>12, <1>13, <1>14 DEF IInv

(* A row is recorded in a transaction.                                      *)
LEMMA RecordWrites ==
  ASSUME IInv, NEW p \in Procs, Record(p), UNCHANGED database, ~Autocommits(p, Task(p)),
         NEW t, t = Task(p)
  PROVE  /\ UNCHANGED <<recorded, schema, asked>> /\ txn' \in [Procs -> Txn]
         /\ \A q \in Procs \ {p} : txn'[q] = txn[q]
         /\ txn'[p].objs = txn[p].objs /\ txn'[p].delta = txn[p].delta
         /\ proc[p].up => /\ txn'[p].ins = txn[p].ins \cup {t} /\ txn'[p].del = txn[p].del
                          /\ t \notin Rows(p) /\ ~InsertWaits(p, t)
         /\ \A v : v # t => /\ v \in txn'[p].ins <=> v \in txn[p].ins
                            /\ v \in txn'[p].del <=> v \in txn[p].del
         /\ t \in Rows(p)' <=> proc[p].up
  <1>1. TypeOK /\ t \in Versions /\ UNCHANGED <<schema, asked>>
    BY DEF IInv, TaskIsVersion, Record
  <1>2. CASE proc[p].up
    <2>1. txn' = [txn EXCEPT ![p] = [txn[p] EXCEPT !.ins = txn[p].ins \cup {t}]]
          /\ recorded' = recorded /\ t \notin Rows(p) /\ ~InsertWaits(p, t)
      BY <1>2 DEF Record, InsertRow
    <2> DEFINE ins == txn[p].ins \cup {t}
               n == [txn[p] EXCEPT !.ins = ins]
    <2>2. ins \subseteq Versions /\ txn[p] \in Txn
      BY <1>1 DEF TypeOK
    <2>3. /\ n \in Txn /\ n.ins = ins /\ n.del = txn[p].del /\ n.objs = txn[p].objs
          /\ n.delta = txn[p].delta
      BY <2>2
    <2> HIDE DEF n
    <2>4. /\ txn' \in [Procs -> Txn] /\ txn'[p] = n
          /\ \A q \in Procs \ {p} : txn'[q] = txn[q]
      BY <2>1, <2>3, <1>1 DEF TypeOK, n
    <2> QED BY <1>1, <1>2, <2>1, <2>3, <2>4 DEF Rows
  <1>3. CASE ~proc[p].up
    <2> DEFINE ins == txn[p].ins \ {t}
               del == txn[p].del \cup ({t} \cap recorded)
    <2>1. recorded' = recorded /\ txn' = IF t \in Rows(p)
             THEN [txn EXCEPT ![p] = [txn[p] EXCEPT !.ins = ins, !.del = del]]
             ELSE txn
      BY <1>3 DEF Record, DeleteRow
    <2>2. ins \subseteq Versions /\ del \subseteq Versions
      BY <1>1 DEF TypeOK
    <2>3. CASE t \in Rows(p)
      <3> DEFINE m == [txn[p] EXCEPT !.ins = ins]
                 n == [m EXCEPT !.del = del]
      <3>1. txn[p] \in Txn /\ txn' = [txn EXCEPT ![p] = n]
        BY <2>1, <2>3, <1>1 DEF TypeOK
      <3>2. m \in Txn /\ m.ins = ins /\ m.del = txn[p].del /\ m.objs = txn[p].objs
            /\ m.delta = txn[p].delta
        BY <3>1, <2>2
      <3> HIDE DEF m
      <3>3. n \in Txn /\ n.ins = m.ins /\ n.del = del /\ n.objs = m.objs /\ n.delta = m.delta
        BY <3>2, <2>2
      <3> HIDE DEF n
      <3>4. /\ txn' \in [Procs -> Txn] /\ txn'[p] = n
            /\ \A q \in Procs \ {p} : txn'[q] = txn[q]
        BY <3>1, <3>3, <1>1 DEF TypeOK
      <3> QED BY <1>1, <1>3, <2>1, <3>2, <3>3, <3>4 DEF Rows
    <2>4. CASE t \notin Rows(p)
      BY <1>1, <1>3, <2>1, <2>4 DEF TypeOK, Rows
    <2> QED BY <2>3, <2>4
  <1> QED BY <1>2, <1>3

LEMMA RecordInTransaction ==
  ASSUME IInv, NEW p \in Procs, Record(p), UNCHANGED database, ~Autocommits(p, Task(p))
  PROVE  IInv'
  <1>0. PICK t : t = Task(p)
    OBVIOUS
  <1>1. /\ TypeOK /\ t \in Versions /\ proc[p].pc = "record" /\ TaskDone(p, t)
        /\ UNCHANGED <<schema, asked, started>>
    BY <1>0 DEF IInv, TaskIsVersion, Record
  <1>2. /\ proc' \in [Procs -> Proc] /\ proc'[p].pc # "record"
        /\ proc'[p].whole => proc[p].whole /\ proc'[p].cmd = proc[p].cmd
        /\ ~(proc'[p].pc = "idle" \/ (proc'[p].pc \in {"read", "script"} /\ ~proc'[p].whole))
        /\ proc[p].up /\ proc[p].undone = {} => proc'[p].up /\ proc'[p].undone = {}
        /\ \A v : (Midway(p, v) <=> v = t) /\ ~Midway(p, v)'
        /\ \A q \in Procs \ {p} : proc'[q] = proc[q] /\ \A v : Midway(q, v)' <=> Midway(q, v)
    BY <1>0, <1>1, RecordMoves
  <1>3. /\ recorded' = recorded /\ txn' \in [Procs -> Txn]
        /\ \A q \in Procs \ {p} : txn'[q] = txn[q]
        /\ txn'[p].objs = txn[p].objs /\ txn'[p].delta = txn[p].delta
        /\ proc[p].up => /\ txn'[p].ins = txn[p].ins \cup {t} /\ txn'[p].del = txn[p].del
                         /\ t \notin Rows(p) /\ ~InsertWaits(p, t)
        /\ \A v : v # t => /\ v \in txn'[p].ins <=> v \in txn[p].ins
                           /\ v \in txn'[p].del <=> v \in txn[p].del
        /\ t \in Rows(p)' <=> proc[p].up
    BY <1>0, RecordWrites
  <1>4. /\ \A q \in Procs \ {p} : Rows(q)' = Rows(q)
        /\ \A v : v # t => (v \in Rows(p)' <=> v \in Rows(p))
        /\ \A q \in Procs : \A v : Effect(q, v)' = Effect(q, v)
    BY <1>1, <1>3 DEF Rows, Effect
  <1>5. TypeOK'
    BY <1>1, <1>2, <1>3 DEF TypeOK
  <1>6. TaskIsVersion'
    BY <1>2, Resting DEF IInv, TaskIsVersion
  <1>7. LocksExclude'
    BY <1>3 DEF IInv, LocksExclude
  <1>8. NothingBelowZero'
    BY <1>3, <1>4 DEF IInv, NothingBelowZero
  <1>9. NothingLeftOpen'
    <2>1. \A q \in Procs \ {p} : BetweenTransactions(q)' <=> BetweenTransactions(q)
      BY <1>2, <1>3, Resting
    <2>2. ~BetweenTransactions(p)'
      BY <1>2 DEF BetweenTransactions
    <2>3. NoTxn' = NoTxn
      BY DEF NoTxn
    <2> QED BY <1>2, <1>3, <2>1, <2>2, <2>3 DEF IInv, NothingLeftOpen
  <1>10. TouchedIsLocked'
    BY <1>2, <1>3, Same DEF IInv, TouchedIsLocked
  <1>11. SeenInStep'
    <2> SUFFICES ASSUME NEW q \in Procs, NEW v \in Protected
                 PROVE  IF Midway(q, v)'
                        THEN IF proc'[q].up THEN Effect(q, v)' = 1 /\ v \notin Rows(q)'
                             ELSE Effect(q, v)' = 0 /\ v \in Rows(q)'
                        ELSE Effect(q, v)' = IF v \in Rows(q)' THEN 1 ELSE 0
      BY Same DEF SeenInStep
    <2>1. CASE q = p /\ v = t
      BY <2>1, <1>2, <1>3, <1>4 DEF IInv, SeenInStep
    <2>2. CASE ~(q = p /\ v = t)
      BY <2>2, <1>2, <1>4 DEF IInv, SeenInStep
    <2> QED BY <2>1, <2>2
  <1>12. AppliedOnceDdl'
    BY <1>1, <1>3, Same DEF IInv, AppliedOnceDdl
  <1>13. ForwardInStep'
    <2> SUFFICES ASSUME asked \subseteq Forward
                 PROVE  ForwardInStep'
      BY <1>1 DEF ForwardInStep, Forward
    <2>1. proc[p].up /\ ~proc[p].whole /\ proc[p].undone = {} /\ txn[p].del = {}
      BY DEF IInv, ForwardInStep
    <2>2. t \notin recorded /\ \A q \in Procs \ {p} : t \notin txn[q].ins
      BY <2>1, <1>3 DEF Rows, InsertWaits
    <2>3. \A q \in Procs, v \in Versions : Transactional(v) =>
            /\ txn[q].delta[v] = IF v \in txn[q].ins \/ Midway(q, v) THEN 1 ELSE 0
            /\ v \in txn[q].ins => v \notin recorded /\ \A o \in Procs \ {q} : v \notin txn[o].ins
            /\ schema[v] = IF v \in recorded THEN 1 ELSE 0
      BY DEF IInv, ForwardInStep
    <2>4. \A q \in Procs : /\ proc'[q].up /\ ~proc'[q].whole /\ proc'[q].undone = {}
                          /\ txn'[q].del = {}
      BY <2>1, <1>2, <1>3 DEF IInv, ForwardInStep
    <2>5. txn'[p].ins = txn[p].ins \cup {t}
      BY <2>1, <1>3
    <2>6. \A v \in Versions : Transactional(v) =>
            txn'[p].delta[v] = IF v \in txn'[p].ins \/ Midway(p, v)' THEN 1 ELSE 0
      BY <2>3, <2>5, <1>2, <1>3
    <2>7. \A q \in Procs \ {p}, v \in Versions : Transactional(v) =>
            txn'[q].delta[v] = IF v \in txn'[q].ins \/ Midway(q, v)' THEN 1 ELSE 0
      BY <2>3, <1>2, <1>3
    <2>8. \A q \in Procs, v \in Versions : Transactional(v) /\ v \in txn'[q].ins =>
            v \notin recorded' /\ \A o \in Procs \ {q} : v \notin txn'[o].ins
      <3> SUFFICES ASSUME NEW q \in Procs, NEW v \in Versions, Transactional(v), v \in txn'[q].ins
                   PROVE  v \notin recorded /\ \A o \in Procs \ {q} : v \notin txn'[o].ins
        BY <1>3
      <3>1. \A o \in Procs : txn'[o].ins = IF o = p THEN txn[p].ins \cup {t} ELSE txn[o].ins
        BY <2>5, <1>3
      <3>2. CASE v = t
        BY <2>2, <3>1, <3>2
      <3>3. CASE v # t
        BY <2>3, <3>1, <3>3
      <3> QED BY <3>2, <3>3
    <2> QED BY <2>3, <2>4, <2>6, <2>7, <2>8, <1>1, <1>3, Same DEF ForwardInStep
  <1> QED BY <1>5, <1>6, <1>7, <1>8, <1>9, <1>10, <1>11, <1>12, <1>13 DEF IInv

LEMMA CommitStep ==
  ASSUME IInv, NEW p \in Procs, Commit(p), UNCHANGED database
  PROVE  IInv'
  <1>1. TypeOK /\ proc[p] \in Proc /\ proc[p].pc = "commit"
    BY DEF IInv, TypeOK, Commit
  <1> DEFINE r == IF proc[p].whole THEN Idle ELSE GoesOn(proc[p])
  <1>2. /\ recorded' = Rows(p) /\ schema' = [v \in Versions |-> Effect(p, v)]
        /\ proc' = [proc EXCEPT ![p] = r] /\ txn' = [txn EXCEPT ![p] = NoTxn]
        /\ UNCHANGED <<asked, started>>
    BY DEF Commit, Ended
  <1>3. /\ r \in Proc /\ r.pc # "record" /\ ~r.whole
        /\ ~proc[p].whole /\ proc[p].up /\ proc[p].undone = {} => r.up /\ r.undone = {}
    <2>1. Idle \in Proc /\ Idle.pc = "idle" /\ ~Idle.whole
      BY DEF Idle, Commands
    <2> QED BY <2>1, <1>1, GoesOnType
  <1> HIDE DEF r
  <1>4. NoTxn \in Txn /\ NoTxn' = NoTxn
    BY DEF NoTxn
  <1>5. /\ proc'[p] = r /\ txn'[p] = NoTxn
        /\ \A q \in Procs \ {p} : proc'[q] = proc[q] /\ txn'[q] = txn[q]
    BY <1>1, <1>2 DEF TypeOK
  <1>6. \A v \in Versions : schema'[v] = Effect(p, v) /\ Effect(p, v) \in Nat
    BY <1>1, <1>2, RowsType DEF IInv, NothingBelowZero
  <1>7. TypeOK'
    <2>1. schema' \in [Versions -> Nat]
      BY <1>2, <1>6
    <2> QED BY <2>1, <1>1, <1>2, <1>3, <1>4, RowsType DEF TypeOK
  <1>8. /\ \A v : ~Midway(p, v) /\ ~Midway(p, v)'
        /\ \A q \in Procs \ {p} : \A v : Midway(q, v)' <=> Midway(q, v)
    BY <1>1, <1>3, <1>5, Resting DEF Midway
  <1>9. \A q \in Procs, v \in Versions :
          /\ txn[q].delta[v] \in Int /\ schema[v] \in Nat
          /\ Effect(q, v) = schema[v] + txn[q].delta[v]
          /\ txn[q].delta[v] < 0 => v \in txn[q].objs
          /\ schema[v] + txn[q].delta[v] >= 0
    BY <1>1 DEF IInv, NothingBelowZero, Effect, TypeOK
  <1>10. \A q \in Procs \ {p}, v \in Versions : Effect(q, v)' = Effect(p, v) + txn[q].delta[v]
    BY <1>5, <1>6 DEF Effect
  <1>11. \A v \in Versions : Effect(p, v)' = Effect(p, v) /\ NoTxn.delta[v] = 0
    BY <1>5, <1>6 DEF Effect, NoTxn
  <1>12. Rows(p)' = Rows(p) /\ \A q \in Procs \ {p} : Rows(q)' = (Rows(p) \ txn[q].del) \cup txn[q].ins
    BY <1>2, <1>5 DEF Rows, NoTxn
  <1>13. TaskIsVersion'
    BY <1>3, <1>5, Resting DEF IInv, TaskIsVersion
  <1>14. LocksExclude'
    BY <1>5 DEF IInv, LocksExclude, NoTxn
  <1>15. NothingLeftOpen'
    <2>1. \A q \in Procs \ {p} : BetweenTransactions(q)' <=> BetweenTransactions(q)
      BY <1>5, Resting
    <2> QED BY <1>3, <1>4, <1>5, <2>1 DEF IInv, NothingLeftOpen
  <1>16. NothingBelowZero'
    <2> SUFFICES ASSUME NEW q \in Procs, NEW v \in Versions
                 PROVE  (txn'[q].delta[v] < 0 => v \in txn'[q].objs) /\ Effect(q, v)' >= 0
      BY DEF NothingBelowZero
    <2>1. CASE q = p
      BY <2>1, <1>5, <1>6, <1>11
    <2>2. CASE q # p
      <3>1. Effect(q, v)' = schema[v] + txn[p].delta[v] + txn[q].delta[v]
        BY <2>2, <1>9, <1>10
      <3>2. ~(v \in txn[p].objs /\ v \in txn[q].objs)
        BY <2>2 DEF IInv, LocksExclude
      <3> QED BY <2>2, <3>1, <3>2, <1>5, <1>9
    <2> QED BY <2>1, <2>2
  <1>17. TouchedIsLocked'
    <2>1. \A v \in Versions : v \notin NoTxn.ins /\ v \notin NoTxn.del
      BY DEF NoTxn
    <2>2. \A v \in Protected : v \in Versions
      BY MigrationsAssumption DEF Protected
    <2> QED BY <1>5, <1>8, <1>11, <2>1, <2>2, Same DEF IInv, TouchedIsLocked
  <1>18. AppliedOnceDdl'
    <2>1. \A v \in Protected : v \in Versions /\ Effect(p, v) = IF v \in Rows(p) THEN 1 ELSE 0
      BY <1>8, MigrationsAssumption DEF IInv, SeenInStep, Protected
    <2> QED BY <2>1, <1>2, <1>6, Same DEF AppliedOnceDdl
  <1>19. SeenInStep'
    <2> SUFFICES ASSUME NEW q \in Procs, NEW v \in Protected
                 PROVE  IF Midway(q, v)'
                        THEN IF proc'[q].up THEN Effect(q, v)' = 1 /\ v \notin Rows(q)'
                             ELSE Effect(q, v)' = 0 /\ v \in Rows(q)'
                        ELSE Effect(q, v)' = IF v \in Rows(q)' THEN 1 ELSE 0
      BY Same DEF SeenInStep
    <2>0. v \in Versions
      BY MigrationsAssumption DEF Protected
    <2>1. Effect(p, v) = IF v \in Rows(p) THEN 1 ELSE 0
      BY <1>8 DEF IInv, SeenInStep
    <2>2. CASE q = p
      BY <2>0, <2>1, <2>2, <1>8, <1>11, <1>12
    <2>3. CASE q # p /\ v \in txn[q].objs
      <3>1. v \notin txn[p].objs
        BY <2>3 DEF IInv, LocksExclude
      <3>2. txn[p].delta[v] = 0 /\ v \notin txn[p].ins /\ v \notin txn[p].del
        BY <3>1 DEF IInv, TouchedIsLocked
      <3>3. Effect(p, v) = schema[v] /\ (v \in Rows(p) <=> v \in recorded)
        BY <2>0, <3>2, <1>9 DEF Rows
      <3>4. Effect(q, v)' = Effect(q, v)
        BY <2>0, <2>3, <3>3, <1>9, <1>10
      <3>5. v \in Rows(q)' <=> v \in Rows(q)
        BY <2>3, <3>3, <1>12 DEF Rows
      <3> QED BY <2>3, <3>4, <3>5, <1>5, <1>8 DEF IInv, SeenInStep
    <2>4. CASE q # p /\ v \notin txn[q].objs
      <3>1. txn[q].delta[v] = 0 /\ v \notin txn[q].ins /\ v \notin txn[q].del /\ ~Midway(q, v)
        BY <2>4 DEF IInv, TouchedIsLocked
      <3>2. Effect(q, v)' = Effect(p, v)
        BY <2>0, <2>4, <3>1, <1>6, <1>10
      <3>3. v \in Rows(q)' <=> v \in Rows(p)
        BY <2>4, <3>1, <1>12
      <3> QED BY <2>1, <2>4, <3>1, <3>2, <3>3, <1>8
    <2> QED BY <2>2, <2>3, <2>4
  <1>20. ForwardInStep'
    <2> SUFFICES ASSUME asked \subseteq Forward
                 PROVE  ForwardInStep'
      BY <1>2 DEF ForwardInStep, Forward
    <2>1. \A q \in Procs : proc[q].up /\ ~proc[q].whole /\ proc[q].undone = {} /\ txn[q].del = {}
      BY DEF IInv, ForwardInStep
    <2>2. NoTxn.del = {} /\ NoTxn.ins = {}
      BY DEF NoTxn
    <2>3. recorded' = recorded \cup txn[p].ins
      BY <2>1, <1>2 DEF Rows
    <2>4. \A q \in Procs, v \in Versions : Transactional(v) =>
            /\ txn[q].delta[v] = IF v \in txn[q].ins \/ Midway(q, v) THEN 1 ELSE 0
            /\ v \in txn[q].ins => v \notin recorded /\ \A o \in Procs \ {q} : v \notin txn[o].ins
            /\ schema[v] = IF v \in recorded THEN 1 ELSE 0
      BY DEF IInv, ForwardInStep
    <2>5. \A v \in Versions : Transactional(v) => schema'[v] = IF v \in recorded' THEN 1 ELSE 0
      BY <2>3, <2>4, <1>6, <1>8, <1>9
    <2>6. \A q \in Procs : /\ proc'[q].up /\ ~proc'[q].whole /\ proc'[q].undone = {}
                          /\ txn'[q].del = {}
      BY <2>1, <2>2, <1>3, <1>5
    <2>7. \A q \in Procs, v \in Versions : Transactional(v) =>
            /\ txn'[q].delta[v] = IF v \in txn'[q].ins \/ Midway(q, v)' THEN 1 ELSE 0
            /\ v \in txn'[q].ins => v \notin recorded' /\ \A o \in Procs \ {q} : v \notin txn'[o].ins
      BY <2>2, <2>3, <2>4, <1>5, <1>8, <1>11
    <2> QED BY <2>5, <2>6, <2>7, Same DEF ForwardInStep
  <1> QED BY <1>7, <1>13, <1>14, <1>15, <1>16, <1>17, <1>18, <1>19, <1>20 DEF IInv

-------------------------------------------------------------------------------
LEMMA StepIInv == IInv /\ [Next]_vars => IInv'
  <1> SUFFICES ASSUME IInv, [Next]_vars PROVE IInv'
    OBVIOUS
  <1>1. CASE UNCHANGED vars
    <2> USE <1>1 DEF vars, IInv, Task, First, Last, Autocommits, Mysql, Transactional,
                     Protected, NoTxn, Rows, Effect, Midway
    <2>1. TypeOK' /\ TaskIsVersion' /\ LocksExclude'
      BY DEF TypeOK, TaskIsVersion, LocksExclude
    <2>2. NothingLeftOpen'
      BY DEF NothingLeftOpen, BetweenTransactions
    <2>3. NothingBelowZero' /\ AppliedOnceDdl'
      BY DEF NothingBelowZero, AppliedOnceDdl
    <2>4. TouchedIsLocked'
      BY DEF TouchedIsLocked
    <2>5. SeenInStep'
      BY DEF SeenInStep
    <2>6. ForwardInStep'
      BY DEF ForwardInStep
    <2> QED BY <2>1, <2>2, <2>3, <2>4, <2>5, <2>6
  <1>2. CASE Next
    <2>1. PICK p \in Procs : (\E c \in Commands : Start(p, c)) \/ Step(p) \/ Crash(p)
      BY <1>2 DEF Next
    <2>2. UNCHANGED database
      BY <1>2 DEF Next
    <2>3. CASE \E c \in Commands : Start(p, c)
      BY <2>2, <2>3, StartStep
    <2>4. CASE Read(p)
      BY <2>2, <2>4, ReadStep
    <2>5. CASE Script(p)
      BY <2>2, <2>5, ScriptAutocommits, ScriptInTransaction
    <2>6. CASE Record(p)
      BY <2>2, <2>6, RecordAutocommits, RecordInTransaction
    <2>7. CASE ScriptFails(p) \/ RecordFails(p) \/ Deadlock(p) \/ Crash(p)
      BY <2>2, <2>7, FailStep
    <2>8. CASE Commit(p)
      BY <2>2, <2>8, CommitStep
    <2> QED BY <2>1, <2>3, <2>4, <2>5, <2>6, <2>7, <2>8 DEF Step
  <1> QED BY <1>1, <1>2

LEMMA IInvGives == IInv => TypeOK /\ AppliedOnce
  <1> SUFFICES ASSUME IInv PROVE AppliedOnce
    BY DEF IInv
  <1> SUFFICES ASSUME NEW v \in Versions, Transactional(v),
                      v \in Locking \/ asked \subseteq Forward
               PROVE  schema[v] = IF v \in recorded THEN 1 ELSE 0
    BY DEF AppliedOnce
  <1>1. CASE v \in Locking
    BY <1>1 DEF IInv, AppliedOnceDdl, Protected
  <1>2. CASE v \notin Locking
    BY <1>2 DEF IInv, ForwardInStep
  <1> QED BY <1>1, <1>2

LEMMA SpecIInv == Spec => []IInv
  BY InitIInv, StepIInv, PTL DEF Spec

(* The shape of the table, of the open transactions and of the commands is
   kept by every step of every process, and no script is in effect a
   negative number of times.                                               *)
THEOREM TypeCorrect == Spec => []TypeOK
  BY SpecIInv, IInvGives, PTL

(* A migration that runs in a transaction is in effect exactly when the
   table records it: for every number of processes that run, revert and
   redo, every set of releases, and crashes, failures and deadlocks
   anywhere.                                                               *)
THEOREM AppliedOnceHolds == Spec => []AppliedOnce
  BY SpecIInv, IInvGives, PTL

-------------------------------------------------------------------------------
(* What is recorded has been applied, nothing is missing below it, and redo
   gives back what it has taken.                                            *)

(* A process that sees the row of a transactional migration sees its effect,
   but while it is reverting it; one that has the row of its own to insert has
   the effect of its own, or the lock.                                      *)
RowHasEffect(p, v) == v \in Rows(p) => Effect(p, v) >= 1 \/ (Midway(p, v) /\ ~proc[p].up)
AppliedMidway(p, v) == Midway(p, v) /\ proc[p].up => Effect(p, v) >= 1
InsertIsBacked(p, v) ==
    v \in txn[p].ins \/ (Midway(p, v) /\ proc[p].up) => txn[p].delta[v] >= 1 \/ v \in txn[p].objs
SeenIsApplied ==
    \A v \in Versions : Transactional(v) =>
        /\ v \in recorded => schema[v] >= 1
        /\ \A p \in Procs : RowHasEffect(p, v) /\ AppliedMidway(p, v) /\ InsertIsBacked(p, v)

(* While nobody reverts, the effect of the others is there before their row,
   and no transaction holds either.                                         *)
AppliedFirst ==
    asked \subseteq Forward =>
        \A v \in Versions : ~Transactional(v) =>
            /\ v \in recorded => schema[v] >= 1
            /\ \A p \in Procs : /\ Midway(p, v) => schema[v] >= 1
                                /\ v \notin txn[p].ins /\ txn[p].delta[v] = 0

(* While nobody reverts, what is below a version that is to be recorded is
   recorded, or to be recorded before it.                                   *)
GoesUp(q) == q.cmd \in Forward /\ (q.pc \in {"script", "record"} => q.todo # {})
NothingBelow ==
    asked \subseteq Forward =>
        /\ \A v \in recorded, w \in Versions : w < v => w \in recorded
        /\ \A p \in Procs :
              /\ GoesUp(proc[p])
              /\ proc[p].pc # "commit" => txn[p].ins = {}
              /\ \A v \in txn[p].ins, w \in Versions : w < v => w \in recorded
              /\ \A v \in proc[p].todo, w \in Versions :
                    w < v => w \in recorded \cup proc[p].todo \cup txn[p].ins

(* redo in one transaction applies again what it has deleted the row of.    *)
TakesTurns(q) == /\ q.up => q.left <= 1 /\ q.pc # "read"
                 /\ q.pc = "commit" => q.undone = {} /\ q.todo = {}
Owed(q, v) == v \in q.undone \/ (q.up /\ v \in q.todo)
RedoOwes ==
    \A p \in Procs : proc[p].whole =>
        TakesTurns(proc[p]) /\ \A v \in txn[p].del : v \in txn[p].ins \/ Owed(proc[p], v)

(* The steps, as these four see them.                                       *)

(* A command starts, or reads the table: no data, and nobody is midway.      *)
LEMMA Turns ==
  ASSUME IInv, NEW p \in Procs, (\E c \in Commands : Start(p, c)) \/ Read(p), UNCHANGED database
  PROVE  /\ UNCHANGED <<recorded, schema, txn>>
         /\ \A q \in Procs \ {p} : proc'[q] = proc[q]
         /\ \A q \in Procs : \A v : (Midway(q, v)' <=> Midway(q, v)) /\ (Midway(q, v) => q # p)
  <1>1. TypeOK
    BY DEF IInv
  <1>2. /\ UNCHANGED <<recorded, schema, txn>> /\ proc[p].pc # "record"
        /\ \A q \in Procs \ {p} : proc'[q] = proc[q]
    BY <1>1 DEF Start, Read, TypeOK
  <1>3. proc'[p].pc # "record"
    <2>1. CASE \E c \in Commands : Start(p, c)
      BY <2>1, <1>1 DEF Start, TypeOK
    <2>2. CASE Read(p)
      <3> DEFINE q == [proc[p] EXCEPT !.todo = List(p)]
      <3>1. proc[p] \in Proc /\ List(p) \subseteq Versions
        BY <1>1, RowsType, MigrationsAssumption DEF TypeOK, List, Lowest, Top
      <3>2. q \in Proc
        BY <3>1
      <3>3. GoesOn(q).pc # "record"
        BY <3>2, GoesOnType
      <3> HIDE DEF q
      <3>4. Idle.pc # "record"
        BY DEF Idle
      <3>5. proc' = [proc EXCEPT ![p] = IF q.todo = {} /\ q.cmd = "revert" THEN Idle ELSE GoesOn(q)]
        BY <2>2 DEF Read, q
      <3> QED BY <1>1, <3>3, <3>4, <3>5 DEF TypeOK
    <2> QED BY <2>1, <2>2
  <1>4. \A v : ~Midway(p, v) /\ ~Midway(p, v)'
    BY <1>2, <1>3 DEF Midway
  <1>5. \A q \in Procs \ {p} : \A v : Midway(q, v)' <=> Midway(q, v)
    BY <1>2, Resting
  <1> QED BY <1>2, <1>4, <1>5

(* A command fails or crashes: nothing of its own is left, but for what a
   script that commits its statements one by one has done.                  *)
LEMMA Quits ==
  ASSUME IInv, NEW p \in Procs, UNCHANGED database,
         ScriptFails(p) \/ RecordFails(p) \/ Deadlock(p) \/ Crash(p)
  PROVE  /\ UNCHANGED <<recorded, asked>>
         /\ proc'[p] = Idle /\ txn'[p] = NoTxn
         /\ \A q \in Procs \ {p} : proc'[q] = proc[q] /\ txn'[q] = txn[q]
         /\ \A q \in Procs : \A v : (Midway(q, v)' => Midway(q, v)) /\ (Midway(q, v)' => q # p)
         /\ \A v \in Versions : /\ schema[v] \in Nat /\ schema'[v] \in Nat
                                /\ Transactional(v) => schema'[v] = schema[v]
                                /\ proc[p].up => schema'[v] >= schema[v]
  <1>1. TypeOK
    BY DEF IInv
  <1>2. Abandon(p)
    BY DEF ScriptFails, RecordFails, Deadlock, Crash
  <1>3. /\ proc'[p] = Idle /\ txn'[p] = NoTxn /\ UNCHANGED <<recorded, asked>>
        /\ \A q \in Procs \ {p} : proc'[q] = proc[q] /\ txn'[q] = txn[q]
    BY <1>1, <1>2 DEF Abandon, Ended, TypeOK
  <1>4. \A q \in Procs : \A v : (Midway(q, v)' => Midway(q, v)) /\ (Midway(q, v)' => q # p)
    BY <1>3, Resting DEF Midway, Idle
  <1>5. \A v \in Versions : /\ schema[v] \in Nat /\ schema'[v] \in Nat
                            /\ Transactional(v) => schema'[v] = schema[v]
                            /\ proc[p].up => schema'[v] >= schema[v]
    <2>1. CASE UNCHANGED schema
      BY <2>1, <1>1 DEF TypeOK
    <2>2. CASE schema' # schema
      <3>1. PICK t : t = Task(p)
        OBVIOUS
      <3>2. /\ proc[p].pc = "script" /\ Autocommits(p, t) /\ t \in Versions
            /\ NeedsObject(p, t) => ~ObjectBusy(p, t)
            /\ schema' = [schema EXCEPT ![t] = @ + Change(p, t)]
        BY <2>2, <3>1, MigrationsAssumption DEF ScriptFails, RecordFails, Deadlock, Crash
      <3>3. /\ schema' \in [Versions -> Nat]
            /\ \A v \in Versions : Transactional(v) => schema'[v] = schema[v]
        BY <3>1, <3>2, AutocommitEffect
      <3>4. proc[p].up => Change(p, t) = 1
        BY DEF Change
      <3>5. ASSUME NEW v \in Versions, proc[p].up PROVE schema'[v] >= schema[v]
        <4>1. schema' = [schema EXCEPT ![t] = @ + 1]
          BY <3>2, <3>4, <3>5
        <4> QED BY <4>1, <1>1, <3>2 DEF TypeOK
      <3> QED BY <1>1, <3>3, <3>5 DEF TypeOK
    <2> QED BY <2>1, <2>2
  <1> QED BY <1>3, <1>4, <1>5

(* A transaction is committed: its process goes on with nothing open, and
   the others see what it did under what they did themselves.               *)
LEMMA Commits ==
  ASSUME IInv, NEW p \in Procs, Commit(p), UNCHANGED database
  PROVE  /\ recorded' = Rows(p) /\ UNCHANGED asked
         /\ proc[p] \in Proc /\ proc'[p] = IF proc[p].whole THEN Idle ELSE GoesOn(proc[p])
         /\ txn'[p] = NoTxn
         /\ \A q \in Procs \ {p} : proc'[q] = proc[q] /\ txn'[q] = txn[q]
         /\ \A v : ~Midway(p, v) /\ ~Midway(p, v)'
         /\ \A q \in Procs \ {p} : \A v : Midway(q, v)' <=> Midway(q, v)
         /\ \A v \in Versions : /\ schema'[v] = schema[v] + txn[p].delta[v]
                                /\ schema[v] \in Nat /\ schema'[v] \in Nat
                                /\ \A q \in Procs : txn[q].delta[v] \in Int
  <1> DEFINE r == IF proc[p].whole THEN Idle ELSE GoesOn(proc[p])
  <1>1. TypeOK /\ proc[p] \in Proc /\ proc[p].pc = "commit"
    BY DEF IInv, TypeOK, Commit
  <1>2. r.pc # "record"
    <2>1. Idle.pc = "idle"
      BY DEF Idle
    <2> QED BY <2>1, <1>1, GoesOnType
  <1>3. /\ recorded' = Rows(p) /\ schema' = [v \in Versions |-> Effect(p, v)] /\ UNCHANGED asked
        /\ proc' = [proc EXCEPT ![p] = r] /\ txn' = [txn EXCEPT ![p] = NoTxn]
    BY DEF Commit, Ended
  <1> HIDE DEF r
  <1>4. /\ proc'[p] = r /\ txn'[p] = NoTxn
        /\ \A q \in Procs \ {p} : proc'[q] = proc[q] /\ txn'[q] = txn[q]
    BY <1>1, <1>3 DEF TypeOK
  <1>5. \A v : ~Midway(p, v) /\ ~Midway(p, v)'
    BY <1>1, <1>2, <1>4 DEF Midway
  <1>6. \A q \in Procs \ {p} : \A v : Midway(q, v)' <=> Midway(q, v)
    BY <1>4, Resting
  <1>7. \A v \in Versions : /\ schema'[v] = schema[v] + txn[p].delta[v]
                            /\ schema[v] \in Nat /\ schema'[v] \in Nat
                            /\ \A q \in Procs : txn[q].delta[v] \in Int
    BY <1>1, <1>3 DEF IInv, NothingBelowZero, Effect, TypeOK
  <1> QED BY <1>1, <1>3, <1>4, <1>5, <1>6, <1>7 DEF r

LEMMA SeenIsAppliedStep ==
  ASSUME IInv, SeenIsApplied, NEW p \in Procs, UNCHANGED database,
         (\E c \in Commands : Start(p, c)) \/ Step(p) \/ Crash(p)
  PROVE  SeenIsApplied'
  <1>0. TypeOK
    BY DEF IInv
  <1> SUFFICES ASSUME NEW v \in Versions, Transactional(v)
               PROVE  /\ v \in recorded' => schema'[v] >= 1
                      /\ \A q \in Procs : RowHasEffect(q, v)' /\ AppliedMidway(q, v)' /\ InsertIsBacked(q, v)'
    BY Same DEF SeenIsApplied
  <1>a. /\ v \in recorded => schema[v] >= 1
        /\ \A q \in Procs : RowHasEffect(q, v) /\ AppliedMidway(q, v) /\ InsertIsBacked(q, v)
    BY DEF SeenIsApplied
  <1>b. schema[v] \in Nat /\ \A q \in Procs : txn[q].delta[v] \in Int /\ Effect(q, v) = schema[v] + txn[q].delta[v]
    BY <1>0 DEF TypeOK, Effect
  (* Another process that has written nothing, seen from q.                 *)
  <1>c. ASSUME NEW q \in Procs, proc'[q] = proc[q], txn'[q] = txn[q], recorded' = recorded,
               schema'[v] = schema[v]
        PROVE  RowHasEffect(q, v)' /\ AppliedMidway(q, v)' /\ InsertIsBacked(q, v)'
    <2>1. Rows(q)' = Rows(q) /\ Effect(q, v)' = Effect(q, v)
      BY <1>c DEF Rows, Effect
    <2>2. Midway(q, v)' <=> Midway(q, v)
      BY <1>c, Resting
    <2> QED BY <1>a, <1>c, <2>1, <2>2 DEF RowHasEffect, AppliedMidway, InsertIsBacked
  <1>1. CASE (\E c \in Commands : Start(p, c)) \/ Read(p)
    <2>1. /\ UNCHANGED <<recorded, schema, txn>>
          /\ \A q \in Procs \ {p} : proc'[q] = proc[q]
          /\ \A q \in Procs : \A w : (Midway(q, w)' <=> Midway(q, w)) /\ (Midway(q, w) => q # p)
      BY <1>1, Turns
    <2>2. Rows(p)' = Rows(p) /\ Effect(p, v)' = Effect(p, v) /\ ~Midway(p, v) /\ ~Midway(p, v)'
      BY <2>1 DEF Rows, Effect
    <2>3. RowHasEffect(p, v)' /\ AppliedMidway(p, v)' /\ InsertIsBacked(p, v)'
      BY <1>a, <2>1, <2>2 DEF RowHasEffect, AppliedMidway, InsertIsBacked
    <2> QED BY <1>a, <1>c, <2>1, <2>3
  <1>2. CASE Script(p)
    <2>0. PICK t : t = Task(p)
      OBVIOUS
    <2>1. /\ t \in Versions /\ recorded' = recorded /\ proc'[p].up = proc[p].up
          /\ \A q \in Procs \ {p} : proc'[q] = proc[q]
          /\ \A w : ~Midway(p, w) /\ (Midway(p, w)' <=> w = t)
      BY <1>0, <1>2, <2>0, ScriptMoves
    <2>2. CASE Autocommits(p, t)
      <3>1. /\ txn' = txn /\ (NeedsObject(p, t) => ~ObjectBusy(p, t)) /\ proc[p].pc = "script"
            /\ schema' = [schema EXCEPT ![t] = @ + Change(p, t)]
        BY <1>2, <2>0, <2>2 DEF Script, RunScript
      <3>2. schema'[v] = schema[v] /\ v # t
        <4>1. \A w \in Versions : schema'[w] # schema[w] => ~Transactional(w)
          BY <2>0, <2>1, <2>2, <3>1, AutocommitEffect
        <4>2. ~Transactional(t)
          BY <2>2 DEF Autocommits, Transactional
        <4> QED BY <4>1, <4>2
      <3>3. Rows(p)' = Rows(p) /\ Effect(p, v)' = Effect(p, v) /\ ~Midway(p, v) /\ ~Midway(p, v)'
        BY <2>1, <3>1, <3>2 DEF Rows, Effect
      <3>4. RowHasEffect(p, v)' /\ AppliedMidway(p, v)' /\ InsertIsBacked(p, v)'
        BY <1>a, <3>1, <3>3 DEF RowHasEffect, AppliedMidway, InsertIsBacked
      <3> QED BY <1>a, <1>c, <2>1, <3>1, <3>2, <3>4
    <2>3. CASE ~Autocommits(p, t)
      <3>1. /\ UNCHANGED <<schema, recorded, asked>>
            /\ \A q \in Procs \ {p} : txn'[q] = txn[q]
            /\ txn'[p].ins = txn[p].ins /\ txn'[p].del = txn[p].del
            /\ txn[p].objs \subseteq txn'[p].objs
            /\ ~proc[p].up /\ Effect(p, t) > 0 => t \in txn'[p].objs
            /\ Effect(p, t) \in Nat /\ txn[p].delta[t] \in Int
            /\ Effect(p, t)' = IF proc[p].up THEN Effect(p, t) + 1 ELSE 0
            /\ proc[p].up => txn'[p].delta[t] = txn[p].delta[t] + 1
            /\ \A w \in Versions \ {t} : txn'[p].delta[w] = txn[p].delta[w]
        BY <1>2, <2>0, <2>3, ScriptChanges
      <3>2. Rows(p)' = Rows(p)
        BY <3>1 DEF Rows
      <3>3. ~Midway(p, v)
        BY <2>1
      <3>4. RowHasEffect(p, v)'
        <4>1. CASE v = t
          BY <4>1, <3>1, <2>1 DEF RowHasEffect
        <4>2. CASE v # t
          <5>1. Effect(p, v)' = Effect(p, v)
            BY <4>2, <3>1 DEF Effect
          <5> QED BY <5>1, <3>2, <3>3, <1>a DEF RowHasEffect
        <4> QED BY <4>1, <4>2
      <3>5. AppliedMidway(p, v)'
        BY <2>1, <3>1 DEF AppliedMidway
      <3>6. InsertIsBacked(p, v)'
        <4>1. CASE v = t /\ proc[p].up
          <5>1. txn[p].delta[t] < 0 => t \in txn[p].objs
            BY <2>1 DEF IInv, NothingBelowZero
          <5> QED BY <4>1, <5>1, <3>1 DEF InsertIsBacked
        <4>2. CASE v = t /\ ~proc[p].up
          <5>1. t \in txn[p].ins => t \in txn'[p].objs
            <6> SUFFICES ASSUME t \in txn[p].ins PROVE Effect(p, t) > 0
              BY <4>2, <3>1
            <6>1. t \in Rows(p)
              BY DEF Rows
            <6> QED BY <6>1, <4>2, <3>3, <3>1, <1>a DEF RowHasEffect
          <5> QED BY <4>2, <5>1, <2>1, <3>1 DEF InsertIsBacked
        <4>3. CASE v # t
          BY <4>3, <2>1, <3>1, <1>a DEF InsertIsBacked
        <4> QED BY <4>1, <4>2, <4>3
      <3> QED BY <1>a, <1>c, <2>1, <3>1, <3>4, <3>5, <3>6
    <2> QED BY <2>2, <2>3
  <1>3. CASE Record(p)
    <2>0. PICK t : t = Task(p)
      OBVIOUS
    <2>1. proc[p].pc = "record" /\ TaskDone(p, t) /\ t \in Versions /\ UNCHANGED schema
      BY <1>3, <2>0 DEF Record, IInv, TaskIsVersion
    <2>2. /\ \A w : (Midway(p, w) <=> w = t) /\ ~Midway(p, w)'
          /\ \A q \in Procs \ {p} : proc'[q] = proc[q]
      BY <2>0, <2>1, RecordMoves
    <2>3. CASE Autocommits(p, t)
      <3>1. txn' = txn /\ (recorded' = recorded \cup {t} \/ recorded' = recorded \ {t})
        BY <1>3, <2>0, <2>3 DEF Record, InsertRow, DeleteRow
      <3>2. v # t
        BY <2>3 DEF Autocommits, Transactional
      <3>3. \A q \in Procs : (v \in Rows(q)' <=> v \in Rows(q)) /\ Effect(q, v)' = Effect(q, v)
        BY <2>1, <3>1, <3>2 DEF Rows, Effect
      <3>4. \A q \in Procs : Midway(q, v)' <=> Midway(q, v)
        BY <2>2, <3>2, Resting
      <3>5. \A q \in Procs : Midway(q, v) => proc'[q] = proc[q]
        BY <2>2, <3>2
      <3>6. \A q \in Procs : RowHasEffect(q, v)' /\ AppliedMidway(q, v)' /\ InsertIsBacked(q, v)'
        BY <1>a, <3>1, <3>3, <3>4, <3>5 DEF RowHasEffect, AppliedMidway, InsertIsBacked
      <3> QED BY <1>a, <2>1, <3>1, <3>2, <3>6
    <2>4. CASE ~Autocommits(p, t)
      <3>1. /\ UNCHANGED <<recorded, schema>>
            /\ \A q \in Procs \ {p} : txn'[q] = txn[q]
            /\ txn'[p].objs = txn[p].objs /\ txn'[p].delta = txn[p].delta
            /\ \A w : w # t => /\ w \in txn'[p].ins <=> w \in txn[p].ins
                               /\ w \in txn'[p].del <=> w \in txn[p].del
            /\ t \in Rows(p)' <=> proc[p].up
        BY <1>3, <2>0, <2>4, RecordWrites
      <3>2. Effect(p, v)' = Effect(p, v)
        BY <3>1 DEF Effect
      <3>3. RowHasEffect(p, v)' /\ InsertIsBacked(p, v)'
        <4>1. CASE v = t
          <5>1. v \in Rows(p)' => Effect(p, v) >= 1 /\ (txn[p].delta[v] >= 1 \/ v \in txn[p].objs)
            BY <4>1, <3>1, <2>2, <1>a DEF AppliedMidway, InsertIsBacked
          <5>2. v \in txn'[p].ins => v \in Rows(p)'
            BY DEF Rows
          <5> QED BY <5>1, <5>2, <3>1, <3>2, <2>2 DEF RowHasEffect, InsertIsBacked
        <4>2. CASE v # t
          <5>1. v \in Rows(p)' <=> v \in Rows(p)
            BY <4>2, <3>1 DEF Rows
          <5> QED BY <4>2, <5>1, <3>1, <3>2, <2>2, <1>a DEF RowHasEffect, InsertIsBacked
        <4> QED BY <4>1, <4>2
      <3>4. AppliedMidway(p, v)'
        BY <2>2 DEF AppliedMidway
      <3> QED BY <1>a, <1>c, <2>2, <3>1, <3>3, <3>4
    <2> QED BY <2>3, <2>4
  <1>4. CASE ScriptFails(p) \/ RecordFails(p) \/ Deadlock(p) \/ Crash(p)
    <2>1. /\ recorded' = recorded /\ txn'[p] = NoTxn /\ schema'[v] = schema[v] /\ ~Midway(p, v)'
          /\ \A q \in Procs \ {p} : proc'[q] = proc[q] /\ txn'[q] = txn[q]
      BY <1>4, Quits
    <2>2. /\ Rows(p)' = recorded /\ Effect(p, v)' = schema[v] + NoTxn.delta[v]
          /\ NoTxn.delta[v] = 0 /\ v \notin NoTxn.ins
      BY <2>1 DEF Rows, Effect, NoTxn
    <2>3. RowHasEffect(p, v)' /\ AppliedMidway(p, v)' /\ InsertIsBacked(p, v)'
      BY <1>a, <1>b, <2>1, <2>2 DEF RowHasEffect, AppliedMidway, InsertIsBacked
    <2> QED BY <1>a, <1>c, <2>1, <2>3
  <1>5. CASE Commit(p)
    <2>1. /\ recorded' = Rows(p) /\ txn'[p] = NoTxn
          /\ \A q \in Procs \ {p} : proc'[q] = proc[q] /\ txn'[q] = txn[q]
          /\ ~Midway(p, v) /\ ~Midway(p, v)'
          /\ \A q \in Procs \ {p} : Midway(q, v)' <=> Midway(q, v)
          /\ schema'[v] = schema[v] + txn[p].delta[v] /\ schema'[v] \in Nat
      BY <1>5, Commits
    <2>2. v \in Rows(p) => schema'[v] >= 1
      BY <1>a, <1>b, <2>1 DEF RowHasEffect
    <2>3. RowHasEffect(p, v)' /\ AppliedMidway(p, v)' /\ InsertIsBacked(p, v)'
      <3>1. /\ Rows(p)' = Rows(p) /\ Effect(p, v)' = schema'[v] + NoTxn.delta[v]
            /\ NoTxn.delta[v] = 0 /\ v \notin NoTxn.ins
        BY <2>1 DEF Rows, Effect, NoTxn
      <3> QED BY <3>1, <2>1, <2>2 DEF RowHasEffect, AppliedMidway, InsertIsBacked
    <2>4. ASSUME NEW q \in Procs \ {p}
          PROVE  RowHasEffect(q, v)' /\ AppliedMidway(q, v)' /\ InsertIsBacked(q, v)'
      <3>1. /\ Effect(q, v)' = schema'[v] + txn[q].delta[v]
            /\ Rows(q)' = (Rows(p) \ txn[q].del) \cup txn[q].ins
        BY <2>1 DEF Effect, Rows
      <3>2. Effect(q, v)' = Effect(q, v) + txn[p].delta[v]
        BY <3>1, <2>1, <1>b
      <3>3. v \in txn[q].objs => v \notin txn[p].objs
        BY DEF IInv, LocksExclude
      <3>4. v \in txn[q].objs => txn[p].delta[v] >= 0 /\ (v \in txn[p].ins => txn[p].delta[v] >= 1)
        BY <3>3, <1>a, <1>b DEF IInv, NothingBelowZero, InsertIsBacked
      <3>5. /\ Effect(q, v) >= 0 /\ Effect(q, v) \in Int /\ txn[p].delta[v] \in Int
            /\ txn[q].delta[v] < 0 => v \in txn[q].objs
        BY <1>b DEF IInv, NothingBelowZero
      <3>6. txn[q].delta[v] >= 1 => Effect(q, v)' >= 1
        BY <3>1, <2>1, <1>b
      <3>7. AppliedMidway(q, v)'
        <4> SUFFICES ASSUME Midway(q, v), proc[q].up PROVE Effect(q, v)' >= 1
          BY <2>1, <2>4 DEF AppliedMidway
        <4>1. Effect(q, v) >= 1 /\ (txn[q].delta[v] >= 1 \/ v \in txn[q].objs)
          BY <1>a DEF AppliedMidway, InsertIsBacked
        <4> QED BY <4>1, <3>2, <3>4, <3>5, <3>6
      <3>8. RowHasEffect(q, v)'
        <4> SUFFICES ASSUME v \in Rows(q)', ~(Midway(q, v) /\ ~proc[q].up) PROVE Effect(q, v)' >= 1
          BY <2>1, <2>4 DEF RowHasEffect
        <4>1. v \in Rows(q) => Effect(q, v) >= 1
          BY <1>a DEF RowHasEffect
        <4>2. CASE v \in txn[q].ins
          <5>1. v \in Rows(q) /\ (txn[q].delta[v] >= 1 \/ v \in txn[q].objs)
            BY <4>2, <1>a DEF Rows, InsertIsBacked
          <5> QED BY <5>1, <4>1, <3>2, <3>4, <3>5, <3>6
        <4>3. CASE v \notin txn[q].ins
          <5>1. v \in Rows(p) /\ v \notin txn[q].del
            BY <4>3, <3>1
          <5>2. CASE txn[q].delta[v] >= 0
            BY <5>1, <5>2, <2>1, <2>2, <3>1, <1>b
          <5>3. CASE txn[q].delta[v] < 0
            <6>1. txn[p].delta[v] >= 0 /\ (v \in txn[p].ins => txn[p].delta[v] >= 1)
              BY <5>3, <3>4, <3>5
            <6>2. v \notin txn[p].ins => v \in Rows(q)
              BY <5>1 DEF Rows
            <6> QED BY <6>1, <6>2, <4>1, <3>2, <3>5
          <5> QED BY <5>2, <5>3, <1>b
        <4> QED BY <4>2, <4>3
      <3>9. InsertIsBacked(q, v)'
        BY <1>a, <2>1, <2>4 DEF InsertIsBacked
      <3> QED BY <3>7, <3>8, <3>9
    <2> QED BY <2>1, <2>2, <2>3, <2>4
  <1> QED BY <1>1, <1>2, <1>3, <1>4, <1>5 DEF Step

(* Of commands that only apply: which transaction a script or a row is in.  *)
LEMMA OnlyForward ==
  ASSUME IInv, NEW p \in Procs, asked \subseteq Forward, NEW t, t = Task(p)
  PROVE  /\ proc[p].up /\ ~proc[p].whole /\ proc[p].undone = {} /\ txn[p].del = {}
         /\ Autocommits(p, t) <=> ~Transactional(t)
         /\ Change(p, t) = 1
         /\ proc[p].pc \in {"idle", "read", "script"} \/ (proc[p].pc = "record" /\ Autocommits(p, t)) =>
               txn[p] = NoTxn
  BY DEF IInv, ForwardInStep, Autocommits, Transactional, Change, NothingLeftOpen, BetweenTransactions

LEMMA AppliedFirstStep ==
  ASSUME IInv, AppliedFirst, NEW p \in Procs, UNCHANGED database,
         (\E c \in Commands : Start(p, c)) \/ Step(p) \/ Crash(p)
  PROVE  AppliedFirst'
  <1>0. TypeOK
    BY DEF IInv
  <1>1. asked' \subseteq Forward => asked \subseteq Forward
    BY DEF Start, Step, Read, Script, ScriptFails, Record, RecordFails, Commit, Deadlock, Crash, Abandon
  <1> SUFFICES ASSUME asked \subseteq Forward, NEW v \in Versions, ~Transactional(v)
               PROVE  /\ v \in recorded' => schema'[v] >= 1
                      /\ \A q \in Procs : /\ Midway(q, v)' => schema'[v] >= 1
                                          /\ v \notin txn'[q].ins /\ txn'[q].delta[v] = 0
    BY <1>1, Same DEF AppliedFirst
  <1>a. /\ v \in recorded => schema[v] >= 1
        /\ \A q \in Procs : /\ Midway(q, v) => schema[v] >= 1
                            /\ v \notin txn[q].ins /\ txn[q].delta[v] = 0
    BY DEF AppliedFirst
  <1>b. PICK t : t = Task(p)
    OBVIOUS
  <1>c. /\ proc[p].up /\ ~proc[p].whole /\ txn[p].del = {}
        /\ Autocommits(p, t) <=> ~Transactional(t)
        /\ Change(p, t) = 1
    BY <1>b, OnlyForward
  <1>d. schema[v] \in Nat /\ v \notin NoTxn.ins /\ NoTxn.delta[v] = 0
    BY <1>0 DEF TypeOK, NoTxn
  <1>2. CASE (\E c \in Commands : Start(p, c)) \/ Read(p)
    BY <1>2, <1>a, Turns
  <1>3. CASE Script(p)
    <2>1. /\ t \in Versions /\ recorded' = recorded
          /\ \A w : ~Midway(p, w) /\ (Midway(p, w)' <=> w = t)
          /\ \A q \in Procs \ {p} : \A w : Midway(q, w)' <=> Midway(q, w)
      BY <1>0, <1>3, <1>b, ScriptMoves
    <2>2. CASE Autocommits(p, t)
      <3>1. txn' = txn /\ schema' = [schema EXCEPT ![t] = @ + 1]
        BY <1>3, <1>b, <1>c, <2>2 DEF Script, RunScript
      <3>2. schema'[v] >= schema[v] /\ (v = t => schema'[v] >= 1)
        BY <1>0, <2>1, <3>1 DEF TypeOK
      <3>3. schema[v] >= 1 => schema'[v] >= 1
        BY <1>0, <3>1, <2>1 DEF TypeOK
      <3> QED BY <1>a, <2>1, <3>1, <3>2, <3>3
    <2>3. CASE ~Autocommits(p, t)
      <3>1. /\ UNCHANGED schema
            /\ \A q \in Procs \ {p} : txn'[q] = txn[q]
            /\ txn'[p].ins = txn[p].ins
            /\ \A w \in Versions \ {t} : txn'[p].delta[w] = txn[p].delta[w]
        BY <1>3, <1>b, <2>3, ScriptChanges
      <3>2. v # t
        BY <1>c, <2>3
      <3> QED BY <1>a, <2>1, <3>1, <3>2
    <2> QED BY <2>2, <2>3
  <1>4. CASE Record(p)
    <2>1. proc[p].pc = "record" /\ TaskDone(p, t) /\ UNCHANGED schema
      BY <1>4, <1>b DEF Record
    <2>2. /\ \A w : (Midway(p, w) <=> w = t) /\ ~Midway(p, w)'
          /\ \A q \in Procs \ {p} : \A w : Midway(q, w)' <=> Midway(q, w)
      BY <1>b, <2>1, RecordMoves
    <2>3. CASE Autocommits(p, t)
      <3>1. txn' = txn /\ recorded' = recorded \cup {t}
        BY <1>4, <1>b, <1>c, <2>3 DEF Record, InsertRow
      <3> QED BY <1>a, <2>1, <2>2, <3>1
    <2>4. CASE ~Autocommits(p, t)
      <3>1. /\ recorded' = recorded /\ txn'[p].delta = txn[p].delta
            /\ \A q \in Procs \ {p} : txn'[q] = txn[q]
            /\ \A w : w # t => (w \in txn'[p].ins <=> w \in txn[p].ins)
        BY <1>4, <1>b, <2>4, RecordWrites
      <3>2. v # t
        BY <1>c, <2>4
      <3> QED BY <1>a, <2>1, <2>2, <3>1, <3>2
    <2> QED BY <2>3, <2>4
  <1>5. CASE ScriptFails(p) \/ RecordFails(p) \/ Deadlock(p) \/ Crash(p)
    <2>1. /\ recorded' = recorded /\ txn'[p] = NoTxn
          /\ \A q \in Procs \ {p} : txn'[q] = txn[q]
          /\ \A q \in Procs : Midway(q, v)' => Midway(q, v)
          /\ schema'[v] \in Nat /\ schema'[v] >= schema[v]
      BY <1>5, <1>c, Quits
    <2>2. schema[v] >= 1 => schema'[v] >= 1
      BY <2>1, <1>d
    <2> QED BY <1>a, <1>d, <2>1, <2>2
  <1>6. CASE Commit(p)
    <2>1. /\ recorded' = Rows(p) /\ txn'[p] = NoTxn
          /\ \A q \in Procs \ {p} : txn'[q] = txn[q]
          /\ \A q \in Procs : Midway(q, v)' => Midway(q, v)
          /\ schema'[v] = schema[v] + txn[p].delta[v]
      BY <1>6, Commits
    <2>2. (v \in Rows(p) <=> v \in recorded) /\ schema'[v] = schema[v]
      BY <2>1, <1>a, <1>c, <1>d DEF Rows
    <2> QED BY <1>a, <1>d, <2>1, <2>2
  <1> QED BY <1>2, <1>3, <1>4, <1>5, <1>6 DEF Step

(* Where a process goes on to, of its list.                                 *)
LEMMA GoesOnList ==
  ASSUME NEW q \in Proc
  PROVE  /\ GoesOn(q).pc = "script" => GoesOn(q).todo # {}
         /\ GoesOn(q).cmd \in {q.cmd, "run"}
         /\ q.undone = {} => GoesOn(q).todo = q.todo
         /\ GoesOn(q).pc = "commit" => q.whole /\ GoesOn(q).undone = {} /\ GoesOn(q).todo = {}
         /\ (q.up => q.left <= 1) /\ GoesOn(q).whole =>
               /\ TakesTurns(GoesOn(q))
               /\ \A v : Owed(q, v) => Owed(GoesOn(q), v)
  <1>1. CASE q.todo # {}
    <2>1. GoesOn(q) = [q EXCEPT !.pc = "script"]
      BY <1>1 DEF GoesOn
    <2> QED BY <1>1, <2>1 DEF TakesTurns, Owed
  <1>2. CASE q.todo = {} /\ q.left > 1
    <2> DEFINE r == [q EXCEPT !.pc = "read"]
               n == q.left - 1
    <2>1. GoesOn(q) = [r EXCEPT !.left = n]
      BY <1>2 DEF GoesOn
    <2>2. /\ r \in Proc /\ r.pc = "read" /\ r.whole = q.whole /\ r.cmd = q.cmd
          /\ r.up = q.up /\ r.undone = q.undone /\ r.todo = q.todo
      OBVIOUS
    <2>3. q.left \in Nat
      OBVIOUS
    <2> HIDE DEF r, n
    <2>4. /\ GoesOn(q).pc = "read" /\ GoesOn(q).whole = q.whole /\ GoesOn(q).cmd = q.cmd
          /\ GoesOn(q).up = q.up /\ GoesOn(q).undone = q.undone /\ GoesOn(q).todo = q.todo
      BY <2>1, <2>2
    <2>5. (q.up => q.left <= 1) => ~q.up
      BY <1>2, <2>3
    <2> QED BY <1>2, <2>4, <2>5 DEF TakesTurns, Owed
  <1>3. CASE q.todo = {} /\ ~(q.left > 1) /\ q.undone # {}
    <2> DEFINE r1 == [q EXCEPT !.pc = "script"]
               r2 == [r1 EXCEPT !.up = TRUE]
               r3 == [r2 EXCEPT !.todo = q.undone]
    <2>1. GoesOn(q) = [r3 EXCEPT !.undone = {}]
      BY <1>3 DEF GoesOn, ToApply
    <2>2. /\ r3 \in Proc /\ r3.pc = "script" /\ r3.up /\ r3.todo = q.undone /\ r3.left = q.left
          /\ r3.cmd = q.cmd
      OBVIOUS
    <2> HIDE DEF r3
    <2>3. /\ GoesOn(q).pc = "script" /\ GoesOn(q).up /\ GoesOn(q).todo = q.undone
          /\ GoesOn(q).left = q.left /\ GoesOn(q).undone = {} /\ GoesOn(q).cmd = q.cmd
      BY <2>1, <2>2
    <2>4. q.left \in Nat
      OBVIOUS
    <2>5. q.left <= 1
      BY <1>3, <2>4
    <2> QED BY <1>3, <2>3, <2>5 DEF TakesTurns, Owed
  <1>4. CASE q.todo = {} /\ ~(q.left > 1) /\ q.undone = {} /\ q.whole
    <2>1. GoesOn(q) = [q EXCEPT !.pc = "commit"]
      BY <1>4 DEF GoesOn
    <2> QED BY <1>4, <2>1 DEF TakesTurns, Owed
  <1>5. CASE q.todo = {} /\ ~(q.left > 1) /\ q.undone = {} /\ ~q.whole
    <2>1. GoesOn(q) = Idle
      BY <1>5 DEF GoesOn
    <2> QED BY <1>5, <2>1 DEF Idle
  <1> QED BY <1>1, <1>2, <1>3, <1>4, <1>5

(* The first of a set of numbers.                                           *)
LEMMA Smallest ==
  ASSUME NEW S \in SUBSET Nat, S # {}
  PROVE  First(S) \in S /\ \A w \in S : First(S) <= w
  <1> DEFINE R == {ss \in Nat \X Nat : ss[1] < ss[2]}
  <1>1. IsWellFoundedOn(R, Nat)
    BY NatLessThanWellFounded DEF OpToRel
  <1>2. \A x, y \in Nat : y < x => <<y, x>> \in R
    OBVIOUS
  <1> HIDE DEF R
  <1>3. PICK x \in S : \A y \in S : ~(<<y, x>> \in R)
    BY <1>1, WFMin
  <1>4. ASSUME NEW y \in S PROVE x <= y
    <2>1. ~(y < x)
      BY <1>2, <1>3
    <2> QED BY <2>1
  <1> QED BY <1>4 DEF First

(* A task is done: what is left of the list, and where it goes on to.       *)
TaskLeft(p, t, q) ==
    /\ q.todo = proc[p].todo \ {t}
    /\ q.undone = IF proc[p].cmd = "redo" /\ ~proc[p].up THEN proc[p].undone \cup {t}
                  ELSE proc[p].undone
    /\ q.cmd = proc[p].cmd /\ q.up = proc[p].up /\ q.whole = proc[p].whole
    /\ q.left = proc[p].left
    /\ q.whole \/ Autocommits(p, t) => proc'[p] = GoesOn(q)
    /\ ~(q.whole \/ Autocommits(p, t)) =>
          proc'[p].pc = "commit" /\ proc'[p].todo = q.todo /\ proc'[p].cmd = q.cmd /\ ~proc'[p].whole

LEMMA TaskLeaves ==
  ASSUME TypeOK, NEW p \in Procs, NEW t, TaskDone(p, t), t \in Versions
  PROVE  \E q \in Proc : TaskLeft(p, t, q)
  <1> DEFINE redoes == proc[p].cmd = "redo" /\ ~proc[p].up
             todo == proc[p].todo \ {t}
             undone == IF redoes THEN proc[p].undone \cup {t} ELSE proc[p].undone
             q1 == [proc[p] EXCEPT !.todo = todo]
             q == [q1 EXCEPT !.undone = undone]
             q2 == [q EXCEPT !.pc = "commit"]
             r == IF q.whole \/ Autocommits(p, t) THEN GoesOn(q) ELSE q2
  <1>1. proc' = [proc EXCEPT ![p] = r]
    BY DEF TaskDone
  <1>2. todo \subseteq Versions /\ undone \subseteq Versions
    BY DEF TypeOK
  <1>u. undone = IF redoes THEN proc[p].undone \cup {t} ELSE proc[p].undone
    OBVIOUS
  <1> HIDE DEF undone
  <1>3. /\ q1 \in Proc /\ q1.whole = proc[p].whole /\ q1.cmd = proc[p].cmd /\ q1.up = proc[p].up
        /\ q1.left = proc[p].left /\ q1.todo = todo
    BY <1>2 DEF TypeOK
  <1> HIDE DEF q1
  <1>4. /\ q \in Proc /\ q.whole = q1.whole /\ q.cmd = q1.cmd /\ q.up = q1.up
        /\ q.left = q1.left /\ q.todo = q1.todo /\ q.undone = undone
    BY <1>2, <1>3
  <1> HIDE DEF q
  <1>5. q2.pc = "commit" /\ q2.todo = q.todo /\ q2.cmd = q.cmd /\ q2.whole = q.whole
    BY <1>4
  <1>6. proc'[p] = r
    BY <1>1 DEF TypeOK
  <1> HIDE DEF q2
  <1>7. /\ q.whole \/ Autocommits(p, t) => proc'[p] = GoesOn(q)
        /\ ~(q.whole \/ Autocommits(p, t)) =>
              /\ proc'[p].pc = "commit" /\ proc'[p].todo = q.todo /\ proc'[p].cmd = q.cmd
              /\ ~proc'[p].whole
    BY <1>5, <1>6
  <1>8. TaskLeft(p, t, q)
    BY <1>u, <1>3, <1>4, <1>7 DEF TaskLeft
  <1> QED BY <1>4, <1>8

LEMMA NothingBelowStep ==
  ASSUME Prefixes, IInv, NothingBelow, NEW p \in Procs, UNCHANGED database,
         (\E c \in Commands : Start(p, c)) \/ Step(p) \/ Crash(p)
  PROVE  NothingBelow'
  <1>0. TypeOK
    BY DEF IInv
  <1>1. asked' \subseteq Forward => asked \subseteq Forward
    BY DEF Start, Step, Read, Script, ScriptFails, Record, RecordFails, Commit, Deadlock, Crash, Abandon
  <1> SUFFICES ASSUME asked \subseteq Forward, asked' \subseteq Forward
               PROVE  NothingBelow'
    BY <1>1 DEF NothingBelow
  <1> DEFINE Below(q) == /\ proc[q].pc # "commit" => txn[q].ins = {}
                         /\ \A v \in txn[q].ins, w \in Versions : w < v => w \in recorded
                         /\ \A v \in proc[q].todo, w \in Versions :
                              w < v => w \in recorded \cup proc[q].todo \cup txn[q].ins
  <1>a. /\ \A v \in recorded, w \in Versions : w < v => w \in recorded
        /\ \A q \in Procs : GoesUp(proc[q]) /\ Below(q)
    BY DEF NothingBelow
  <1>b. SUFFICES /\ \A v \in recorded', w \in Versions : w < v => w \in recorded'
                 /\ recorded \subseteq recorded'
                 /\ \A q \in Procs \ {p} : proc'[q] = proc[q] /\ txn'[q] = txn[q]
                 /\ GoesUp(proc'[p]) /\ Below(p)'
    <2> SUFFICES ASSUME \A v \in recorded', w \in Versions : w < v => w \in recorded',
                        recorded \subseteq recorded',
                        \A q \in Procs \ {p} : proc'[q] = proc[q] /\ txn'[q] = txn[q],
                        GoesUp(proc'[p]), Below(p)'
                 PROVE  NothingBelow'
      OBVIOUS
    <2>1. ASSUME NEW q \in Procs PROVE GoesUp(proc'[q]) /\ Below(q)'
      <3>1. CASE q # p
        BY <3>1, <1>a
      <3>2. CASE q = p
        BY <3>2
      <3> QED BY <3>1, <3>2
    <2>2. \A q \in Procs : GoesUp(proc[q])'
      BY <2>1 DEF GoesUp
    <2> HIDE DEF GoesUp
    <2> QED BY <2>1, <2>2 DEF NothingBelow
  <1>c. PICK t : t = Task(p)
    OBVIOUS
  <1>d. /\ proc[p].up /\ ~proc[p].whole /\ proc[p].undone = {} /\ txn[p].del = {}
        /\ proc[p].pc \in {"idle", "read", "script"} \/ (proc[p].pc = "record" /\ Autocommits(p, t)) =>
              txn[p] = NoTxn
    BY <1>c, OnlyForward
  <1>e. NoTxn.ins = {} /\ proc[p] \in Proc /\ proc[p].todo \subseteq Versions
    BY <1>0 DEF NoTxn, TypeOK
  <1>f. Idle.pc = "idle" /\ Idle.todo = {} /\ Idle.cmd \in Forward
    BY DEF Idle, Forward
  <1>g. "run" \in Forward
    BY DEF Forward
  <1>2. CASE \E c \in Commands : Start(p, c)
    <2>0. PICK c \in Commands : Start(p, c)
      BY <1>2
    <2>1. /\ UNCHANGED <<recorded, txn>> /\ c \in asked' /\ proc[p].pc = "idle"
          /\ proc'[p].cmd = c /\ proc'[p].pc = "read" /\ proc'[p].todo = {}
          /\ \A q \in Procs \ {p} : proc'[q] = proc[q]
      BY <1>0, <2>0 DEF Start, TypeOK
    <2> QED BY <2>1, <1>a, <1>d, <1>e DEF GoesUp
  <1>3. CASE Read(p)
    <2> DEFINE q == [proc[p] EXCEPT !.todo = List(p)]
               r == IF q.todo = {} /\ q.cmd = "revert" THEN Idle ELSE GoesOn(q)
    <2>1. /\ proc' = [proc EXCEPT ![p] = r] /\ UNCHANGED <<recorded, schema, txn>>
          /\ proc[p].pc = "read"
      BY <1>3 DEF Read
    <2>2. List(p) \subseteq Versions
      BY <1>0, RowsType, MigrationsAssumption DEF List, Lowest, Top
    <2>3. q \in Proc /\ q.todo = List(p) /\ q.cmd = proc[p].cmd /\ q.undone = proc[p].undone /\ q.whole = proc[p].whole
      BY <1>e, <2>2
    <2>4. txn[p] = NoTxn /\ Rows(p) = recorded
      BY <2>1, <1>d, <1>e DEF Rows
    <2>5. \A v \in List(p), w \in Versions : w < v => w \in recorded \cup List(p)
      <3> SUFFICES ASSUME NEW v \in List(p), NEW w \in Versions, w < v, w \notin recorded
                   PROVE  w \in List(p)
        OBVIOUS
      <3>1. CASE proc[p].cmd = "run"
        <4>1. List(p) = Source[p] \ recorded
          BY <3>1, <2>4 DEF List
        <4> QED BY <4>1 DEF Prefixes
      <3>2. CASE proc[p].cmd = "next"
        <4>1. List(p) = Lowest(Source[p] \ recorded)
          BY <3>2, <2>4 DEF List
        <4>2. v \in Source[p] /\ \A x \in Source[p] \ recorded : v <= x
          BY <4>1 DEF Lowest
        <4>3. w \in Source[p] \ recorded
          BY <4>2 DEF Prefixes
        <4>4. v \in Nat /\ w \in Nat
          BY <2>2, VersionsAssumption
        <4> QED BY <4>2, <4>3, <4>4
      <3> QED BY <3>1, <3>2, <1>a DEF GoesUp, Forward
    <2> HIDE DEF q
    <2>6. GoesOn(q).pc # "record"
      BY <2>3, GoesOnType
    <2>7. /\ r.pc # "record" /\ (r.pc = "script" => r.todo # {}) /\ r.todo = q.todo
          /\ r.cmd \in {q.cmd, "run"}
      <3>1. CASE q.todo = {} /\ q.cmd = "revert"
        BY <3>1, <1>f DEF Idle
      <3>2. CASE ~(q.todo = {} /\ q.cmd = "revert")
        BY <3>2, <2>3, <2>6, <1>d, GoesOnList
      <3> QED BY <3>1, <3>2
    <2> HIDE DEF r
    <2>8. proc'[p] = r /\ \A o \in Procs \ {p} : proc'[o] = proc[o]
      BY <1>0, <2>1 DEF TypeOK
    <2>9. GoesUp(proc'[p])
      BY <2>3, <2>7, <2>8, <1>a, <1>g DEF GoesUp
    <2>10. Below(p)'
      BY <2>1, <2>3, <2>4, <2>5, <2>7, <2>8, <1>e
    <2> QED BY <2>1, <2>8, <2>9, <2>10, <1>a
  <1>4. CASE Script(p)
    <2>1. /\ recorded' = recorded /\ proc[p].pc = "script" /\ proc'[p].pc = "record"
          /\ proc'[p].cmd = proc[p].cmd /\ \A q \in Procs \ {p} : proc'[q] = proc[q]
      BY <1>0, <1>4, ScriptMoves
    <2>2. proc'[p].todo = proc[p].todo
      BY <1>0, <1>4 DEF Script, TypeOK
    <2>3. txn'[p].ins = txn[p].ins /\ \A q \in Procs \ {p} : txn'[q] = txn[q]
      <3>1. CASE Autocommits(p, t)
        BY <1>4, <1>c, <3>1 DEF Script, RunScript
      <3>2. CASE ~Autocommits(p, t)
        BY <1>4, <1>c, <3>2, ScriptChanges
      <3> QED BY <3>1, <3>2
    <2>4. GoesUp(proc'[p]) /\ Below(p)'
      BY <2>1, <2>2, <2>3, <1>a DEF GoesUp
    <2> QED BY <2>1, <2>3, <2>4, <1>a
  <1>5. CASE Record(p)
    <2>1. proc[p].pc = "record" /\ TaskDone(p, t) /\ t \in Versions
      BY <1>5, <1>c DEF Record, IInv, TaskIsVersion
    <2>2. /\ proc[p].todo # {} /\ txn[p].ins = {}
          /\ \A v \in proc[p].todo, w \in Versions : w < v => w \in recorded \cup proc[p].todo
      BY <2>1, <1>a DEF GoesUp
    <2>3. t \in proc[p].todo /\ \A w \in proc[p].todo : t <= w
      <3>1. t = First(proc[p].todo)
        BY <1>c, <1>d DEF Task
      <3>2. proc[p].todo \in SUBSET Nat
        BY <1>e, VersionsAssumption
      <3> QED BY <3>1, <3>2, <2>2, Smallest
    <2>4. \A w \in Versions : w < t => w \in recorded
      <3> SUFFICES ASSUME NEW w \in Versions, w < t PROVE w \notin proc[p].todo
        BY <2>2, <2>3
      <3>1. t \in Nat /\ w \in Nat
        BY <2>1, VersionsAssumption
      <3> QED BY <2>3, <3>1
    <2>5. PICK q \in Proc :
            /\ q.todo = proc[p].todo \ {t} /\ q.undone = {} /\ q.cmd = proc[p].cmd /\ ~q.whole
            /\ Autocommits(p, t) => proc'[p] = GoesOn(q)
            /\ ~Autocommits(p, t) => proc'[p].pc = "commit" /\ proc'[p].todo = q.todo /\ proc'[p].cmd = q.cmd
      <3>1. PICK q \in Proc : TaskLeft(p, t, q)
        BY <1>0, <2>1, TaskLeaves
      <3> QED BY <3>1, <1>d DEF TaskLeft
    <2>6. proc'[p].pc # "record" /\ \A o \in Procs \ {p} : proc'[o] = proc[o]
      BY <1>c, <2>1, RecordMoves
    <2>7. /\ proc'[p].todo = proc[p].todo \ {t} /\ GoesUp(proc'[p])
          /\ proc'[p].pc = "commit" => ~Autocommits(p, t)
      <3>1. CASE Autocommits(p, t)
        BY <3>1, <2>5, <2>6, <1>a, <1>g, GoesOnList DEF GoesUp
      <3>2. CASE ~Autocommits(p, t)
        BY <3>2, <2>5, <1>a DEF GoesUp
      <3> QED BY <3>1, <3>2
    <2>8. CASE Autocommits(p, t)
      <3>1. txn' = txn /\ recorded' = recorded \cup {t}
        BY <1>5, <1>c, <1>d, <2>8 DEF Record, InsertRow
      <3>2. Below(p)'
        BY <3>1, <2>2, <2>7
      <3>3. \A v \in recorded', w \in Versions : w < v => w \in recorded'
        BY <3>1, <2>4, <1>a
      <3> QED BY <3>1, <3>2, <3>3, <2>6, <2>7
    <2>9. CASE ~Autocommits(p, t)
      <3>1. /\ recorded' = recorded /\ txn'[p].ins = {t}
            /\ \A o \in Procs \ {p} : txn'[o] = txn[o]
        BY <1>5, <1>c, <1>d, <2>2, <2>9, RecordWrites
      <3>2. proc'[p].pc = "commit"
        BY <2>5, <2>9
      <3>3. Below(p)'
        BY <3>1, <3>2, <2>2, <2>4, <2>7
      <3> QED BY <3>1, <3>3, <2>6, <2>7, <1>a
    <2> QED BY <2>8, <2>9
  <1>6. CASE ScriptFails(p) \/ RecordFails(p) \/ Deadlock(p) \/ Crash(p)
    <2>1. /\ recorded' = recorded /\ txn'[p] = NoTxn /\ proc'[p] = Idle
          /\ \A q \in Procs \ {p} : proc'[q] = proc[q] /\ txn'[q] = txn[q]
      BY <1>6, Quits
    <2>2. GoesUp(proc'[p]) /\ Below(p)'
      BY <2>1, <1>e, <1>f DEF GoesUp
    <2> QED BY <2>1, <2>2, <1>a
  <1>7. CASE Commit(p)
    <2>1. /\ recorded' = Rows(p) /\ txn'[p] = NoTxn /\ proc'[p] = GoesOn(proc[p])
          /\ \A q \in Procs \ {p} : proc'[q] = proc[q] /\ txn'[q] = txn[q]
      BY <1>7, <1>d, Commits
    <2>2. recorded' = recorded \cup txn[p].ins
      BY <2>1, <1>d DEF Rows
    <2>3. proc'[p].pc # "record" /\ proc'[p].todo = proc[p].todo
      BY <2>1, <1>d, <1>e, GoesOnType, GoesOnList
    <2>4. GoesUp(proc'[p])
      BY <2>1, <2>3, <1>a, <1>e, <1>g, GoesOnList DEF GoesUp
    <2>5. Below(p)'
      BY <2>1, <2>2, <2>3, <1>a, <1>e
    <2>6. \A v \in recorded', w \in Versions : w < v => w \in recorded'
      BY <2>2, <1>a
    <2> QED BY <2>1, <2>2, <2>4, <2>5, <2>6
  <1> QED BY <1>2, <1>3, <1>4, <1>5, <1>6, <1>7 DEF Step

LEMMA RedoOwesStep ==
  ASSUME IInv, RedoOwes, NEW p \in Procs, UNCHANGED database,
         (\E c \in Commands : Start(p, c)) \/ Step(p) \/ Crash(p)
  PROVE  /\ RedoOwes'
         /\ proc[p].whole => recorded \subseteq recorded'
         /\ \A q \in Procs \ {p} : proc'[q] = proc[q]
  <1>0. TypeOK
    BY DEF IInv
  <1>a. /\ proc[p].whole => /\ TakesTurns(proc[p]) /\ proc[p].cmd = "redo"
                            /\ \A v \in txn[p].del : v \in txn[p].ins \/ Owed(proc[p], v)
        /\ proc[p] \in Proc
    BY <1>0 DEF RedoOwes, IInv, NothingLeftOpen, TypeOK
  <1>b. SUFFICES /\ \A q \in Procs \ {p} : proc'[q] = proc[q] /\ txn'[q] = txn[q]
                 /\ proc[p].whole => recorded \subseteq recorded'
                 /\ proc'[p].whole => /\ TakesTurns(proc'[p])
                                      /\ \A v \in txn'[p].del : v \in txn'[p].ins \/ Owed(proc'[p], v)
    <2> SUFFICES ASSUME \A q \in Procs \ {p} : proc'[q] = proc[q] /\ txn'[q] = txn[q],
                        proc'[p].whole => /\ TakesTurns(proc'[p])
                                          /\ \A v \in txn'[p].del : v \in txn'[p].ins \/ Owed(proc'[p], v)
                 PROVE  RedoOwes'
      OBVIOUS
    <2>1. ASSUME NEW q \in Procs, proc'[q].whole
          PROVE  TakesTurns(proc'[q]) /\ \A v \in txn'[q].del : v \in txn'[q].ins \/ Owed(proc'[q], v)
      <3>1. CASE q = p
        BY <2>1, <3>1
      <3>2. CASE q # p
        BY <2>1, <3>2 DEF RedoOwes
      <3> QED BY <3>1, <3>2
    <2> QED BY <2>1 DEF RedoOwes, TakesTurns, Owed
  <1>c. PICK t : t = Task(p)
    OBVIOUS
  <1>1. CASE \E c \in Commands : Start(p, c)
    <2>0. PICK c \in Commands : Start(p, c)
      BY <1>1
    <2>1. /\ UNCHANGED <<recorded, txn>> /\ proc[p].pc = "idle"
          /\ proc'[p].pc = "read" /\ (proc'[p].up <=> c \in Forward)
          /\ (proc'[p].whole => c = "redo")
          /\ \A q \in Procs \ {p} : proc'[q] = proc[q]
      BY <1>0, <2>0 DEF Start, TypeOK
    <2>2. txn[p] = NoTxn /\ NoTxn.del = {}
      BY <2>1 DEF IInv, NothingLeftOpen, BetweenTransactions, NoTxn
    <2> QED BY <2>1, <2>2 DEF TakesTurns, Forward
  <1>2. CASE Read(p)
    <2> DEFINE q == [proc[p] EXCEPT !.todo = List(p)]
               r == IF q.todo = {} /\ q.cmd = "revert" THEN Idle ELSE GoesOn(q)
    <2>1. /\ proc' = [proc EXCEPT ![p] = r] /\ UNCHANGED <<recorded, schema, txn>>
          /\ proc[p].pc = "read"
      BY <1>2 DEF Read
    <2>2. List(p) \subseteq Versions
      BY <1>0, RowsType, MigrationsAssumption DEF List, Lowest, Top
    <2>3. /\ q \in Proc /\ q.cmd = proc[p].cmd /\ q.undone = proc[p].undone
          /\ q.whole = proc[p].whole /\ q.up = proc[p].up
      BY <1>a, <2>2
    <2>4. proc'[p] = r /\ \A o \in Procs \ {p} : proc'[o] = proc[o]
      BY <1>0, <2>1 DEF TypeOK
    <2> HIDE DEF q
    <2>5. ASSUME proc'[p].whole
          PROVE  TakesTurns(proc'[p]) /\ \A v \in txn'[p].del : v \in txn'[p].ins \/ Owed(proc'[p], v)
      <3>1. r = GoesOn(q)
        BY <2>4, <2>5 DEF Idle
      <3>2. q.whole
        BY <2>3, <2>4, <2>5, <3>1, GoesOnType
      <3>3. ~q.up
        BY <2>1, <2>3, <3>2, <1>a DEF TakesTurns
      <3>4. \A v : Owed(proc[p], v) => Owed(q, v)
        BY <2>3, <3>3 DEF Owed
      <3>5. TakesTurns(GoesOn(q)) /\ \A v : Owed(q, v) => Owed(GoesOn(q), v)
        BY <2>3, <2>4, <2>5, <3>1, <3>3, GoesOnList
      <3> QED BY <2>1, <2>3, <2>4, <3>1, <3>2, <3>4, <3>5, <1>a
    <2> QED BY <2>1, <2>4, <2>5
  <1>3. CASE Script(p)
    <2>1. /\ recorded' = recorded /\ \A q \in Procs \ {p} : proc'[q] = proc[q]
          /\ proc'[p].pc = "record" /\ proc'[p].up = proc[p].up
          /\ proc'[p].whole = proc[p].whole /\ proc'[p].undone = proc[p].undone
      BY <1>0, <1>3, ScriptMoves
    <2>2. proc'[p].todo = proc[p].todo /\ proc'[p].left = proc[p].left
      BY <1>0, <1>3 DEF Script, TypeOK
    <2>3. /\ txn'[p].ins = txn[p].ins /\ txn'[p].del = txn[p].del
          /\ \A q \in Procs \ {p} : txn'[q] = txn[q]
      <3>1. CASE Autocommits(p, t)
        BY <1>3, <1>c, <3>1 DEF Script, RunScript
      <3>2. CASE ~Autocommits(p, t)
        BY <1>3, <1>c, <3>2, ScriptChanges
      <3> QED BY <3>1, <3>2
    <2> QED BY <2>1, <2>2, <2>3, <1>a DEF TakesTurns, Owed
  <1>4. CASE Record(p)
    <2>1. proc[p].pc = "record" /\ TaskDone(p, t) /\ t \in Versions
      BY <1>4, <1>c DEF Record, IInv, TaskIsVersion
    <2>2. \A o \in Procs \ {p} : proc'[o] = proc[o]
      BY <1>c, <2>1, RecordMoves
    <2>3. PICK q \in Proc : TaskLeft(p, t, q)
      BY <1>0, <2>1, TaskLeaves
    <2>4. proc'[p].whole => q.whole
      BY <2>3, GoesOnType DEF TaskLeft
    <2>5. CASE ~proc[p].whole
      <3>1. \A o \in Procs \ {p} : txn'[o] = txn[o]
        <4>1. CASE Autocommits(p, t)
          BY <1>4, <1>c, <4>1 DEF Record, InsertRow, DeleteRow
        <4>2. CASE ~Autocommits(p, t)
          BY <1>4, <1>c, <4>2, RecordWrites
        <4> QED BY <4>1, <4>2
      <3> QED BY <2>2, <2>3, <2>4, <2>5, <3>1 DEF TaskLeft
    <2>6. CASE proc[p].whole
      <3>1. ~Autocommits(p, t)
        BY <2>6 DEF Autocommits
      <3>2. /\ recorded' = recorded /\ \A o \in Procs \ {p} : txn'[o] = txn[o]
            /\ proc[p].up => txn'[p].ins = txn[p].ins \cup {t} /\ txn'[p].del = txn[p].del
            /\ \A v : v # t => /\ v \in txn'[p].ins <=> v \in txn[p].ins
                               /\ v \in txn'[p].del <=> v \in txn[p].del
        BY <1>4, <1>c, <3>1, RecordWrites
      <3>3. proc'[p] = GoesOn(q) /\ q.up = proc[p].up /\ (q.up => q.left <= 1)
        BY <2>3, <2>6, <1>a DEF TaskLeft, TakesTurns
      <3>4. \A v \in txn'[p].del : v \in txn'[p].ins \/ Owed(q, v)
        <4> SUFFICES ASSUME NEW v \in txn'[p].del PROVE v \in txn'[p].ins \/ Owed(q, v)
          OBVIOUS
        <4>1. CASE v = t
          BY <4>1, <2>3, <2>6, <3>2, <1>a DEF TaskLeft, Owed
        <4>2. CASE v # t
          <5>1. v \in txn[p].ins \/ Owed(proc[p], v)
            BY <4>2, <2>6, <3>2, <1>a
          <5>2. Owed(proc[p], v) => Owed(q, v)
            BY <4>2, <2>3 DEF TaskLeft, Owed
          <5> QED BY <4>2, <5>1, <5>2, <3>2
        <4> QED BY <4>1, <4>2
      <3>5. GoesOn(q).whole => TakesTurns(GoesOn(q)) /\ \A v : Owed(q, v) => Owed(GoesOn(q), v)
        BY <3>3, GoesOnList
      <3> QED BY <2>2, <3>2, <3>3, <3>4, <3>5
    <2> QED BY <2>5, <2>6
  <1>5. CASE ScriptFails(p) \/ RecordFails(p) \/ Deadlock(p) \/ Crash(p)
    <2>1. /\ recorded' = recorded /\ proc'[p] = Idle
          /\ \A q \in Procs \ {p} : proc'[q] = proc[q] /\ txn'[q] = txn[q]
      BY <1>5, Quits
    <2> QED BY <2>1 DEF Idle
  <1>6. CASE Commit(p)
    <2>1. /\ recorded' = Rows(p) /\ proc'[p] = IF proc[p].whole THEN Idle ELSE GoesOn(proc[p])
          /\ \A q \in Procs \ {p} : proc'[q] = proc[q] /\ txn'[q] = txn[q]
      BY <1>6, Commits
    <2>2. ~proc'[p].whole
      BY <2>1, <1>a, GoesOnType DEF Idle
    <2>3. proc[p].whole => recorded \subseteq recorded'
      <3> SUFFICES ASSUME proc[p].whole, NEW v \in txn[p].del PROVE v \in txn[p].ins
        BY <2>1 DEF Rows
      <3>1. proc[p].pc = "commit"
        BY <1>6 DEF Commit
      <3> QED BY <3>1, <1>a DEF TakesTurns, Owed
    <2> QED BY <2>1, <2>2, <2>3
  <1> QED BY <1>1, <1>2, <1>3, <1>4, <1>5, <1>6 DEF Step

-------------------------------------------------------------------------------
AppliedInv == SeenIsApplied /\ AppliedFirst /\ RedoOwes

LEMMA InitApplied == Init => AppliedInv /\ NothingBelow
  <1> SUFFICES ASSUME Init PROVE AppliedInv /\ NothingBelow
    OBVIOUS
  <1>1. /\ recorded = {} /\ \A p \in Procs : proc[p] = Idle /\ txn[p] = NoTxn
        /\ NoTxn.ins = {} /\ NoTxn.del = {} /\ \A v \in Versions : NoTxn.delta[v] = 0
    BY DEF Init, NoTxn
  <1>2. Idle.pc = "idle" /\ ~Idle.whole /\ Idle.todo = {} /\ Idle.cmd \in Forward
    BY DEF Idle, Forward
  <1>3. \A p \in Procs : Rows(p) = {} /\ \A v : ~Midway(p, v)
    BY <1>1, <1>2 DEF Rows, Midway
  <1>4. SeenIsApplied
    BY <1>1, <1>3 DEF SeenIsApplied, RowHasEffect, AppliedMidway, InsertIsBacked
  <1>5. AppliedFirst
    BY <1>1, <1>3 DEF AppliedFirst
  <1>6. RedoOwes
    BY <1>1, <1>2 DEF RedoOwes
  <1>7. NothingBelow
    BY <1>1, <1>2 DEF NothingBelow, GoesUp
  <1> QED BY <1>4, <1>5, <1>6, <1>7 DEF AppliedInv

LEMMA AppliedUnchanged ==
  ASSUME UNCHANGED vars
  PROVE  /\ SeenIsApplied' <=> SeenIsApplied
         /\ AppliedFirst' <=> AppliedFirst
         /\ RedoOwes' <=> RedoOwes
         /\ NothingBelow' <=> NothingBelow
  <1> USE DEF vars
  <1>1. /\ \A v : Transactional(v)' <=> Transactional(v)
        /\ \A q : Rows(q)' = Rows(q)
        /\ \A q, v : (Midway(q, v)' <=> Midway(q, v)) /\ Effect(q, v)' = Effect(q, v)
    BY DEF Transactional, Mysql, Rows, Midway, Effect, Task, First, Last
  <1>2. SeenIsApplied' <=> SeenIsApplied
    BY <1>1 DEF SeenIsApplied, RowHasEffect, AppliedMidway, InsertIsBacked
  <1>3. AppliedFirst' <=> AppliedFirst
    BY <1>1 DEF AppliedFirst
  <1>4. RedoOwes' <=> RedoOwes
    BY DEF RedoOwes, TakesTurns, Owed
  <1>5. NothingBelow' <=> NothingBelow
    BY DEF NothingBelow, GoesUp
  <1> QED BY <1>2, <1>3, <1>4, <1>5

LEMMA StepApplied ==
  ASSUME IInv, AppliedInv, [Next]_vars
  PROVE  /\ AppliedInv'
         /\ \A p \in Procs : proc[p].whole => recorded \subseteq recorded' \/ proc'[p] = proc[p]
  <1>1. CASE UNCHANGED vars
    <2>1. recorded' = recorded
      BY <1>1 DEF vars
    <2> QED BY <1>1, <2>1, AppliedUnchanged DEF AppliedInv
  <1>2. CASE Next
    <2>1. PICK p \in Procs : (\E c \in Commands : Start(p, c)) \/ Step(p) \/ Crash(p)
      BY <1>2 DEF Next
    <2>2. UNCHANGED database
      BY <1>2 DEF Next
    <2>3. SeenIsApplied' /\ AppliedFirst'
      BY <2>1, <2>2, SeenIsAppliedStep, AppliedFirstStep DEF AppliedInv
    <2>4. /\ RedoOwes' /\ (proc[p].whole => recorded \subseteq recorded')
          /\ \A q \in Procs \ {p} : proc'[q] = proc[q]
      BY <2>1, <2>2, RedoOwesStep DEF AppliedInv
    <2> QED BY <2>3, <2>4 DEF AppliedInv
  <1> QED BY <1>1, <1>2

LEMMA StepNothingBelow ==
  ASSUME Prefixes, IInv, NothingBelow, [Next]_vars
  PROVE  NothingBelow'
  <1>1. CASE UNCHANGED vars
    BY <1>1, AppliedUnchanged
  <1>2. CASE Next
    <2>1. PICK p \in Procs : (\E c \in Commands : Start(p, c)) \/ Step(p) \/ Crash(p)
      BY <1>2 DEF Next
    <2>2. UNCHANGED database
      BY <1>2 DEF Next
    <2> QED BY <2>1, <2>2, NothingBelowStep
  <1> QED BY <1>1, <1>2

LEMMA SpecApplied == Spec => []AppliedInv
  <1>1. Init => AppliedInv
    BY InitApplied
  <1>2. IInv /\ AppliedInv /\ [Next]_vars => AppliedInv'
    BY StepApplied
  <1> QED BY <1>1, <1>2, SpecIInv, PTL DEF Spec

(* What the table records has been applied: every migration that runs in a
   transaction, whoever reverts at the same time, and while nobody reverts the
   others too, wherever a process crashes between a script and its row.      *)
THEOREM RecordedIsAppliedHolds == Spec => []RecordedIsApplied
  <1>1. IInv /\ AppliedInv => RecordedIsApplied
    <2> SUFFICES ASSUME AppliedInv, IInv, NEW v \in recorded, Transactional(v) \/ asked \subseteq Forward
                 PROVE  schema[v] >= 1
      BY DEF RecordedIsApplied
    <2>1. v \in Versions
      BY DEF IInv, TypeOK
    <2> QED BY <2>1 DEF AppliedInv, SeenIsApplied, AppliedFirst
  <1> QED BY <1>1, SpecIInv, SpecApplied, PTL

(* Processes that only apply, each with a prefix of the versions, leave no
   hole in the table, however their commands interleave, fail and crash.     *)
THEOREM NoHolesHolds == ASSUME Prefixes PROVE Spec => []NoHoles
  <1>1. Init => NothingBelow
    BY InitApplied
  <1>2. IInv /\ NothingBelow /\ [Next]_vars => NothingBelow'
    BY StepNothingBelow
  <1>3. NothingBelow => NoHoles
    BY DEF NothingBelow, NoHoles
  <1> QED BY <1>1, <1>2, <1>3, SpecIInv, PTL DEF Spec

(* redo in one transaction deletes no row that it does not insert again in the
   same COMMIT.                                                              *)
THEOREM RedoKeepsHolds == Spec => RedoKeeps
  <1>1. IInv /\ AppliedInv /\ [Next]_vars =>
          [\A p \in Procs : proc[p].whole => recorded \subseteq recorded' \/ proc'[p] = proc[p]]_vars
    BY StepApplied
  <1> QED BY <1>1, SpecIInv, SpecApplied, PTL DEF Spec, RedoKeeps

===============================================================================
