-------------------- MODULE MCAnsiTransactionManagerProofs --------------------
(***************************************************************************)
(* What TLC checks of MCAnsiTransactionManager, for every bound: each of   *)
(* its databases keeps the invariant of the instance that models it, and   *)
(* the properties follow.                                                  *)
(***************************************************************************)
EXTENDS MCAnsiTransactionManager, AnsiTransactionManagerProofs

(* Of each database, the invariant of the module that models it.            *)
MCInv == /\ database \in {"Pg", "Mysql", "Sqlite", "FullSqlite", "Pool"}
         /\ database = "Pg"         => LevelsInv
         /\ database = "Sqlite"     => Sqlite!LevelsInv /\ Sqlite!SqliteInv
         /\ database = "FullSqlite" => FullSqlite!SqliteInv
         /\ database = "Mysql"      => Mysql!MysqlInv
         /\ database = "Pool"       => Pool!PoolAliveInv

LEMMA InitLikeSqlite == Init => Sqlite!Init
BY DEF Init, FreshSession, NoTransaction, Sqlite!Init, Sqlite!FreshSession, Sqlite!NoTransaction

LEMMA InitLikeFullSqlite == Init => FullSqlite!Init
BY DEF Init, FreshSession, NoTransaction, FullSqlite!Init, FullSqlite!FreshSession,
       FullSqlite!NoTransaction

LEMMA InitLikeMysql == Init => Mysql!Init
BY DEF Init, FreshSession, NoTransaction, Mysql!Init, Mysql!FreshSession, Mysql!NoTransaction

LEMMA InitOfPool == Pool!Init => Init
BY DEF Init, FreshSession, NoTransaction, Pool!Init, Pool!FreshSession, Pool!NoTransaction

LEMMA InitMCInv ==
    ASSUME MCInit
    PROVE  MCInv
<1>1. Pool!PoolInit /\ Pool!Init /\ Init
  BY InitOfPool DEF MCInit, Pool!PoolInit
<1>2. LevelsInv
  BY <1>1, InitLevelsInv
<1>3. Sqlite!LevelsInv /\ Sqlite!SqliteInv
  BY <1>1, InitLikeSqlite, Sqlite!InitLevelsInv, Sqlite!InitSqliteInv, BoundsAssumption
     DEF Sqlite!FaultKinds, Sqlite!Vias
<1>4. Mysql!MysqlInv
  BY <1>1, InitLikeMysql, Mysql!InitMysqlInv, BoundsAssumption
     DEF Mysql!FaultKinds, Mysql!Vias
<1>5. Pool!PoolAliveInv
  BY <1>1, Pool!InitPoolAliveInv, BoundsAssumption
     DEF Pool!FaultKinds, Pool!Vias
<1>6. FullSqlite!SqliteInv
  BY <1>1, InitLikeFullSqlite, FullSqlite!InitSqliteInv, BoundsAssumption
     DEF FullSqlite!FaultKinds, FullSqlite!Vias
<1> QED BY <1>2, <1>3, <1>4, <1>5, <1>6 DEF MCInit, MCInv

LEMMA NextMCInv ==
    ASSUME Dialect = "Pg", MCInv, [MCNext]_<<vars, database, place, customizer>>
    PROVE  MCInv'
<1>1. database' = database
  BY DEF MCNext
<1>2. ASSUME database = "Pg" PROVE LevelsInv'
  <2>1. LevelsInv /\ [Next]_vars /\ Obedient
    BY <1>2 DEF MCInv, MCNext, Obedient
  <2> QED BY <2>1, NextLevelsInv
<1>3. ASSUME database = "Sqlite" PROVE Sqlite!LevelsInv' /\ Sqlite!SqliteInv'
  <2>1. Sqlite!LevelsInv /\ Sqlite!SqliteInv /\ [Sqlite!Next]_vars
    BY <1>3 DEF MCInv, MCNext
  <2>2. [Sqlite!Next]_(Sqlite!vars) /\ Sqlite!Obedient
    BY <2>1 DEF vars, Sqlite!vars, Sqlite!Obedient
  <2>3. Sqlite!LevelsInv'
    BY <2>1, <2>2, Sqlite!NextLevelsInv, BoundsAssumption DEF Sqlite!FaultKinds, Sqlite!Vias
  <2>4. Sqlite!SqliteInv'
    BY <2>1, <2>2, Sqlite!NextSqliteInv, BoundsAssumption DEF Sqlite!FaultKinds, Sqlite!Vias
  <2> QED BY <2>3, <2>4
<1>4. ASSUME database = "Mysql" PROVE Mysql!MysqlInv'
  <2>1. Mysql!MysqlInv /\ [Mysql!Next]_vars
    BY <1>4 DEF MCInv, MCNext
  <2>2. [Mysql!Next]_(Mysql!vars)
    BY <2>1 DEF vars, Mysql!vars
  <2> QED BY <2>1, <2>2, Mysql!NextMysqlInv, BoundsAssumption
          DEF Mysql!FaultKinds, Mysql!Vias
<1>5. ASSUME database = "Pool" PROVE Pool!PoolAliveInv'
  <2>1. Pool!PoolAliveInv /\ [Pool!PoolNext]_<<vars, place, customizer>>
    BY <1>5 DEF MCInv, MCNext
  <2>2. [Pool!PoolNext]_<<Pool!vars, Pool!pool>>
    BY <2>1 DEF vars, Pool!vars, Pool!pool
  <2> QED BY <2>1, <2>2, Pool!NextPoolAliveInv, BoundsAssumption
          DEF Pool!FaultKinds, Pool!Vias
<1>6. ASSUME database = "FullSqlite" PROVE FullSqlite!SqliteInv'
  <2>1. FullSqlite!SqliteInv /\ [FullSqlite!Next]_vars
    BY <1>6 DEF MCInv, MCNext
  <2>2. [FullSqlite!Next]_(FullSqlite!vars)
    BY <2>1 DEF vars, FullSqlite!vars
  <2> QED BY <2>1, <2>2, FullSqlite!NextSqliteInv, BoundsAssumption
          DEF FullSqlite!FaultKinds, FullSqlite!Vias
<1> QED BY <1>1, <1>2, <1>3, <1>4, <1>5, <1>6 DEF MCInv

(* The invariant holds in every reachable state of the model.               *)
THEOREM MCInvHolds ==
    ASSUME Dialect = "Pg"
    PROVE  MCSpec => []MCInv
<1>1. MCInit => MCInv
  BY InitMCInv
<1>2. MCInv /\ [MCNext]_<<vars, database, place, customizer>> => MCInv'
  BY NextMCInv
<1> QED BY <1>1, <1>2, PTL DEF MCSpec

-------------------------------------------------------------------------------
(* What the invariants of the instances say in the terms of the model.      *)

(* A manager that believes that no transaction is open is right.             *)
LEMMA CleanSays ==
    ASSUME MCInv
    PROVE  CleanWhenIdle
<1>1. CASE database = "Pg"
  BY <1>1, LevelsInvTypes DEF MCInv, IInv
<1>2. CASE database = "Sqlite"
  <2>1. Sqlite!CleanWhenIdle
    BY <1>2, Sqlite!LevelsInvTypes, BoundsAssumption
       DEF MCInv, Sqlite!IInv, Sqlite!FaultKinds, Sqlite!Vias
  <2> QED BY <2>1 DEF CleanWhenIdle, Clean, Sqlite!CleanWhenIdle, Sqlite!Clean
<1>3. CASE database = "Mysql"
  <2>1. Mysql!CleanWhenIdle
    BY <1>3, Mysql!MysqlTypes, BoundsAssumption
       DEF MCInv, Mysql!IInv, Mysql!FaultKinds, Mysql!Vias
  <2> QED BY <2>1 DEF CleanWhenIdle, Clean, Mysql!CleanWhenIdle, Mysql!Clean
<1>4. CASE database = "Pool"
  <2>1. Pool!CleanWhenIdle
    BY <1>4, Pool!PoolTypesHold, BoundsAssumption
       DEF MCInv, Pool!PoolAliveInv, Pool!IInv, Pool!FaultKinds, Pool!Vias
  <2> QED BY <2>1 DEF CleanWhenIdle, Clean, Pool!CleanWhenIdle, Pool!Clean
<1>5. CASE database = "FullSqlite"
  <2>1. FullSqlite!CleanWhenIdle
    BY <1>5 DEF MCInv, FullSqlite!SqliteInv, FullSqlite!IInv
  <2> QED BY <2>1 DEF CleanWhenIdle, Clean, FullSqlite!CleanWhenIdle, FullSqlite!Clean
<1> QED BY <1>1, <1>2, <1>3, <1>4, <1>5 DEF MCInv

LEMMA MysqlSays ==
    ASSUME MCInv, database = "Mysql"
    PROVE  /\ DepthCoversScopes /\ (conn.session.txn # "lost" => DepthIsScopes)
           /\ NoSilentAutocommit /\ SavepointsHoldOuterWork
<1>1. /\ Mysql!DepthCoversScopes /\ (conn.session.txn # "lost" => Mysql!DepthIsScopes)
      /\ Mysql!NoSilentAutocommit /\ Mysql!SavepointsHoldOuterWork
  BY Mysql!MysqlFollows, BoundsAssumption DEF MCInv, Mysql!FaultKinds, Mysql!Vias
<1>2. /\ DepthCoversScopes /\ (conn.session.txn # "lost" => DepthIsScopes)
      /\ NoSilentAutocommit
  BY <1>1 DEF DepthCoversScopes, DepthIsScopes, NoSilentAutocommit, IsOpen,
              Mysql!DepthCoversScopes, Mysql!DepthIsScopes, Mysql!NoSilentAutocommit, Mysql!IsOpen
<1>3. SavepointsHoldOuterWork
  BY <1>1 DEF SavepointsHoldOuterWork, InOrder, IsOpen, SavesAt, Newest, WroteUpTo,
              Mysql!SavepointsHoldOuterWork, Mysql!InOrder, Mysql!IsOpen, Mysql!SavesAt,
              Mysql!Newest, Mysql!WroteUpTo
<1> QED BY <1>2, <1>3

LEMMA SqliteSays ==
    ASSUME MCInv, database = "Sqlite"
    PROVE  DroppedIsUndone /\ PendingIsNotDurable
<1>1. Sqlite!DroppedIsUndone /\ Sqlite!PendingIsNotDurable
  BY Sqlite!LevelsUndo, BoundsAssumption DEF MCInv, Sqlite!FaultKinds, Sqlite!Vias
<1> QED BY <1>1 DEF DroppedIsUndone, PendingIsNotDurable, FateIs, Sqlite!DroppedIsUndone,
                    Sqlite!PendingIsNotDurable, Sqlite!FateIs

LEMMA SqliteCoversSays ==
    ASSUME MCInv, database \in {"Sqlite", "FullSqlite"}
    PROVE  DepthCoversScopes
<1>1. CASE database = "Sqlite"
  <2>1. Sqlite!DepthCoversScopes
    BY <1>1, Sqlite!SqliteCovers, BoundsAssumption DEF MCInv, Sqlite!FaultKinds, Sqlite!Vias
  <2> QED BY <2>1 DEF DepthCoversScopes, IsOpen, Sqlite!DepthCoversScopes, Sqlite!IsOpen
<1>2. CASE database = "FullSqlite"
  <2>1. FullSqlite!DepthCoversScopes
    BY <1>2, FullSqlite!SqliteCovers, BoundsAssumption
       DEF MCInv, FullSqlite!FaultKinds, FullSqlite!Vias
  <2> QED BY <2>1 DEF DepthCoversScopes, IsOpen, FullSqlite!DepthCoversScopes, FullSqlite!IsOpen
<1> QED BY <1>1, <1>2

LEMMA PoolSays ==
    ASSUME MCInv
    PROVE  PoolIsClean
BY Pool!PoolInvIsClean, BoundsAssumption
   DEF MCInv, Pool!PoolAliveInv, Pool!FaultKinds, Pool!Vias, PoolIsClean

LEMMA PgSays ==
    ASSUME Dialect = "Pg", MCInv, database = "Pg"
    PROVE  /\ DepthIsScopes /\ NoSilentAutocommit /\ WorkIsPending /\ SavepointsHoldOuterWork
           /\ KeptIsDurable /\ DroppedIsUndone /\ PendingIsNotDurable
BY LevelsFollow, LevelsUndo DEF MCInv

LEMMA MCInvSays ==
    ASSUME Dialect = "Pg", MCInv
    PROVE  /\ DepthFollowsScopes /\ NoSilentAutocommitOnServers /\ LevelsHoldTheirWork
           /\ PoolIsClean /\ KeptIsDurableOnPg /\ DroppedIsUndoneOffMysql
<1>1. DepthFollowsScopes
  BY PgSays, MysqlSays, SqliteCoversSays DEF DepthFollowsScopes
<1>2. NoSilentAutocommitOnServers
  BY PgSays, MysqlSays DEF NoSilentAutocommitOnServers
<1>3. LevelsHoldTheirWork
  BY PgSays, MysqlSays DEF LevelsHoldTheirWork
<1>4. KeptIsDurableOnPg
  BY PgSays DEF KeptIsDurableOnPg
<1>5. DroppedIsUndoneOffMysql
  BY PgSays, SqliteSays DEF DroppedIsUndoneOffMysql
<1> QED BY <1>1, <1>2, <1>3, <1>4, <1>5, PoolSays

-------------------------------------------------------------------------------
(* Whichever database: when the manager believes that no transaction is open,
   the server has none.                                                      *)
THEOREM CleanHolds ==
    ASSUME Dialect = "Pg"
    PROVE  MCSpec => []CleanWhenIdle
BY MCInvHolds, CleanSays, PTL

(* PostgreSQL, and MySQL while the connection stands: the depth is that of the
   closures, after a ROLLBACK TO that failed too; SQLite, also when it rolls
   back on its own: the depth covers them.                                   *)
THEOREM DepthFollowsScopesHolds ==
    ASSUME Dialect = "Pg"
    PROVE  MCSpec => []DepthFollowsScopes
BY MCInvHolds, MCInvSays, PTL

(* PostgreSQL and MySQL, after deadlocks too: no statement commits on its own
   while the manager takes the transaction to be in order.                   *)
THEOREM NoSilentAutocommitHolds ==
    ASSUME Dialect = "Pg"
    PROVE  MCSpec => []NoSilentAutocommitOnServers
BY MCInvHolds, MCInvSays, PTL

(* PostgreSQL and MySQL: the newest savepoint of a level holds the work below
   it; PostgreSQL: a COMMIT makes what the running closures wrote durable.   *)
THEOREM LevelsHoldTheirWorkHolds ==
    ASSUME Dialect = "Pg"
    PROVE  MCSpec => []LevelsHoldTheirWork
BY MCInvHolds, MCInvSays, PTL

(* PostgreSQL in a pool: nobody is handed the transaction of another, nothing
   of a test pool becomes durable, and no connection that broke is kept.     *)
THEOREM PoolIsCleanHolds ==
    ASSUME Dialect = "Pg"
    PROVE  MCSpec => []PoolIsClean
BY MCInvHolds, MCInvSays, PTL

(* PostgreSQL: Ok means committed.                                           *)
THEOREM KeptIsDurableHolds ==
    ASSUME Dialect = "Pg"
    PROVE  MCSpec => []KeptIsDurableOnPg
BY MCInvHolds, MCInvSays, PTL

(* PostgreSQL and SQLite: Err means undone.                                  *)
THEOREM DroppedIsUndoneHolds ==
    ASSUME Dialect = "Pg"
    PROVE  MCSpec => []DroppedIsUndoneOffMysql
BY MCInvHolds, MCInvSays, PTL

-------------------------------------------------------------------------------
LEMMA PromiseIsNested ==
    /\ Promise!NestedInit <=> Nested!NestedInit
    /\ (Nested!NestedNext => Promise!NestedNext)
    /\ (UNCHANGED Nested!nestedVars => UNCHANGED Promise!nestedVars)
BY DEF Stack, Promise!NestedInit, Nested!NestedInit, Nested!NestedNext, Promise!NestedNext,
       Nested!nestedVars, Promise!nestedVars, Nested!Open, Nested!Put, Nested!Doom, Nested!Keep,
       Nested!Drop, Nested!Break, Nested!Depth, Nested!Top, Nested!Outer, Promise!Open,
       Promise!Put, Promise!Doom, Promise!Keep, Promise!Drop, Promise!Break, Promise!Depth,
       Promise!Top, Promise!Outer

(* Every behaviour over PostgreSQL is one that NestedTransaction allows.     *)
THEOREM KeepsThePromiseHolds ==
    ASSUME Dialect = "Pg"
    PROVE  MCSpec => KeepsThePromise
<1>1. MCInit => Promise!NestedInit
  BY InitOfPool, InitNested, PromiseIsNested DEF MCInit, Pool!PoolInit
<1>2. MCInv /\ [MCNext]_<<vars, database, place, customizer>>
         => [database = "Pg" => Promise!NestedNext]_(Promise!nestedVars)
  <2> SUFFICES ASSUME MCInv, [MCNext]_<<vars, database, place, customizer>>, database = "Pg"
               PROVE  Promise!NestedNext \/ UNCHANGED Promise!nestedVars
    OBVIOUS
  <2>1. LevelsInv /\ [Next]_vars
    BY DEF MCInv, MCNext
  <2>2. NestedStep
    BY <2>1, NextNested
  <2> QED BY <2>2, PromiseIsNested DEF NestedStep
<1> QED BY <1>1, <1>2, MCInvHolds, PTL DEF MCSpec, KeepsThePromise

===============================================================================
