------------------ MODULE MCAnsiAsyncTransactionManagerProofs ------------------
(***************************************************************************)
(* What TLC checks of MCAnsiAsyncTransactionManager, for every bound and   *)
(* fault of the PostgreSQL of its configuration and for the databases of   *)
(* its instances: each keeps the invariant of the module that models it,   *)
(* and the properties follow.                                              *)
(***************************************************************************)
EXTENDS MCAnsiAsyncTransactionManager, AnsiAsyncTransactionManagerProofs

(* What the configuration gives the instance of PostgreSQL.                 *)
OnPg == Dialect = "Pg" /\ Pool # "mobc" /\ CancelWhole

(* Of each database, the invariant of the module that models it.            *)
MCInv == /\ database \in {"Pg", "Turso", "Mysql"}
         /\ database = "Pg"    => UndoInv /\ StaleInv
         /\ database = "Turso" => Turso!UndoInv /\ Turso!StaleInv
         /\ database = "Mysql" => Mysql!AsyncInv /\ Mysql!Tidy

LEMMA InitLikeTurso == Init => Turso!Init
BY DEF Init, NewConn, NoCall, FreshSession, NoTransaction, Turso!Init, Turso!NewConn,
       Turso!NoCall, Turso!FreshSession, Turso!NoTransaction

LEMMA InitLikeMysql == Init => Mysql!Init
BY DEF Init, NewConn, NoCall, FreshSession, NoTransaction, Mysql!Init, Mysql!NewConn,
       Mysql!NoCall, Mysql!FreshSession, Mysql!NoTransaction

LEMMA InitMCInv ==
    ASSUME MCInit
    PROVE  MCInv
<1>1. Init /\ database \in {"Pg", "Turso", "Mysql"}
  BY DEF MCInit
<1>2. UndoInv /\ StaleInv
  BY <1>1, InitUndoInv, InitStaleInv
<1>3. Turso!UndoInv /\ Turso!StaleInv
  BY <1>1, InitLikeTurso, Turso!InitUndoInv, Turso!InitStaleInv, BoundsAssumption
     DEF Turso!FaultKinds
<1>4. Mysql!AsyncInv /\ Mysql!Tidy
  BY <1>1, InitLikeMysql, Mysql!InitAsyncInv, BoundsAssumption DEF Mysql!FaultKinds
<1> QED BY <1>1, <1>2, <1>3, <1>4 DEF MCInv

LEMMA NextMCInv ==
    ASSUME OnPg, MCInv, [MCNext]_<<vars, database>>
    PROVE  MCInv'
<1>1. database' = database
  BY DEF MCNext
<1>2. ASSUME database = "Pg" PROVE UndoInv' /\ StaleInv'
  <2>1. UndoInv /\ StaleInv /\ [Next]_vars /\ Undoes
    BY <1>2 DEF MCInv, MCNext, OnPg, Undoes
  <2>2. AsyncInv /\ Pool # "mobc" /\ CancelWhole
    BY <2>1 DEF UndoInv, OnPg
  <2> QED BY <2>1, <2>2, NextUndoInv, NextStaleInv
<1>3. ASSUME database = "Turso" PROVE Turso!UndoInv' /\ Turso!StaleInv'
  <2>1. Turso!UndoInv /\ Turso!StaleInv /\ [Turso!Next]_vars
    BY <1>3 DEF MCInv, MCNext
  <2>2. [Turso!Next]_(Turso!vars) /\ Turso!Undoes
    BY <2>1 DEF vars, Turso!vars, Turso!Undoes
  <2>3. Turso!UndoInv'
    BY <2>1, <2>2, Turso!NextUndoInv, BoundsAssumption DEF Turso!FaultKinds
  <2>4. Turso!StaleInv'
    BY <2>1, <2>2, Turso!NextStaleInv, BoundsAssumption DEF Turso!FaultKinds, Turso!UndoInv
  <2> QED BY <2>3, <2>4
<1>4. ASSUME database = "Mysql" PROVE Mysql!AsyncInv' /\ Mysql!Tidy'
  <2>1. Mysql!AsyncInv /\ Mysql!Tidy /\ [Mysql!Next]_vars
    BY <1>4 DEF MCInv, MCNext
  <2>2. [Mysql!Next]_(Mysql!vars) /\ Mysql!Guarded
    BY <2>1 DEF vars, Mysql!vars, Mysql!Guarded
  <2> QED BY <2>1, <2>2, Mysql!NextAsyncInv, BoundsAssumption DEF Mysql!FaultKinds
<1> QED BY <1>1, <1>2, <1>3, <1>4 DEF MCInv

(* The invariant holds in every reachable state of the model.               *)
THEOREM MCInvHolds ==
    ASSUME OnPg
    PROVE  MCSpec => []MCInv
<1>1. MCInit => MCInv
  BY InitMCInv
<1>2. MCInv /\ [MCNext]_<<vars, database>> => MCInv'
  BY NextMCInv
<1> QED BY <1>1, <1>2, PTL DEF MCSpec

-------------------------------------------------------------------------------
(* What the invariants of the instances say in the terms of the model.      *)

LEMMA MCInvSays ==
    ASSUME OnPg, MCInv
    PROVE  CleanWhenIdleOnServers /\ KeptIsDurableOnTurso /\ UndoneOffMysql /\ NoStaleCommitOffMysql
<1>1. ASSUME database = "Pg" PROVE CleanWhenIdle /\ DroppedIsUndone /\ CancelledIsUndone
  BY <1>1, UndoInvSays DEF MCInv, UndoInv, Tidy, Idle, Quiet, CleanWhenIdle
<1>2. ASSUME database = "Turso" PROVE KeptIsDurable /\ DroppedIsUndone /\ CancelledIsUndone
  <2>1. Turso!KeptIsDurable /\ Turso!DroppedIsUndone /\ Turso!CancelledIsUndone
    BY <1>2, Turso!UndoInvSays, BoundsAssumption DEF MCInv, Turso!FaultKinds
  <2> QED BY <2>1 DEF KeptIsDurable, DroppedIsUndone, CancelledIsUndone, FateIs, Turso!KeptIsDurable,
                      Turso!DroppedIsUndone, Turso!CancelledIsUndone, Turso!FateIs
<1>3. ASSUME database = "Mysql" PROVE CleanWhenIdle
  <2>1. Mysql!Tidy
    BY <1>3 DEF MCInv
  <2> QED BY <2>1 DEF CleanWhenIdle, NoCall, Mysql!Tidy, Mysql!Idle, Mysql!Quiet, Mysql!CutOff,
                      Mysql!NoCall
<1>4. database # "Mysql" => NoStaleCommit
  BY DEF MCInv, StaleInv, NoStaleCommit, Turso!StaleInv, Turso!NoStaleCommit
<1> QED BY <1>1, <1>2, <1>3, <1>4 DEF MCInv, CleanWhenIdleOnServers, KeptIsDurableOnTurso,
                                      UndoneOffMysql, NoStaleCommitOffMysql

(* PostgreSQL, with whole tasks dropped, and MySQL, a debug build with any
   suffix of the closures dropped: the manager that believes that no
   transaction is open, with no statement cut off, is right.                *)
THEOREM CleanWhenIdleOnServersHolds ==
    ASSUME OnPg
    PROVE  MCSpec => []CleanWhenIdleOnServers
BY MCInvHolds, MCInvSays, PTL

(* Turso: Ok from the outermost transaction() means committed.              *)
THEOREM KeptIsDurableOnTursoHolds ==
    ASSUME OnPg
    PROVE  MCSpec => []KeptIsDurableOnTurso
BY MCInvHolds, MCInvSays, PTL

(* PostgreSQL and Turso: an Err means undone, and so does a task that is
   dropped before it commits.                                               *)
THEOREM UndoneOffMysqlHolds ==
    ASSUME OnPg
    PROVE  MCSpec => []UndoneOffMysql
BY MCInvHolds, MCInvSays, PTL

(* PostgreSQL and Turso: nobody works with the is_commit of a commit that was
   dropped.                                                                 *)
THEOREM NoStaleCommitOffMysqlHolds ==
    ASSUME OnPg
    PROVE  MCSpec => []NoStaleCommitOffMysql
BY MCInvHolds, MCInvSays, PTL

(* All three databases: who takes a connection from the pool gets one without
   an open transaction, but for a test transaction.                         *)
THEOREM MCHandedOutCleanHolds ==
    ASSUME OnPg
    PROVE  MCSpec => HandedOutClean
<1>1. MCInv /\ [MCNext]_<<vars, database>> => [HandsOutClean]_vars
  <2> SUFFICES ASSUME OnPg, MCInv, [MCNext]_<<vars, database>> PROVE [HandsOutClean]_vars
    OBVIOUS
  <2>1. CASE database = "Pg"
    <3>1. AsyncInv /\ Tidy /\ [Next]_vars /\ Pool # "mobc"
      BY <2>1 DEF MCInv, UndoInv, MCNext, OnPg
    <3> QED BY <3>1, HandsOut
  <2>2. CASE database = "Turso"
    <3>1. Turso!AsyncInv /\ Turso!Tidy /\ [Turso!Next]_(Turso!vars)
      BY <2>2 DEF MCInv, Turso!UndoInv, MCNext, vars, Turso!vars
    <3>2. [Turso!HandsOutClean]_(Turso!vars)
      BY <3>1, Turso!HandsOut, BoundsAssumption DEF Turso!FaultKinds
    <3> QED BY <3>2 DEF HandsOutClean, NoTransaction, vars, Turso!HandsOutClean, Turso!NoTransaction,
                        Turso!vars
  <2>3. CASE database = "Mysql"
    <3>1. Mysql!AsyncInv /\ Mysql!Tidy /\ [Mysql!Next]_(Mysql!vars)
      BY <2>3 DEF MCInv, MCNext, vars, Mysql!vars
    <3>2. [Mysql!HandsOutClean]_(Mysql!vars)
      BY <3>1, Mysql!HandsOut, BoundsAssumption DEF Mysql!FaultKinds
    <3> QED BY <3>2 DEF HandsOutClean, NoTransaction, vars, Mysql!HandsOutClean, Mysql!NoTransaction,
                        Mysql!vars
  <2> QED BY <2>1, <2>2, <2>3 DEF MCInv
<1> QED BY <1>1, MCInvHolds, PTL DEF MCSpec, HandedOutClean

===============================================================================
