# Diesel: transactions, connections, pools and migrations in TLA+

This directory holds TLA+ models of the parts of this repository whose
correctness depends on the order of events: the transaction managers, the
connections that feed them, the pools that pass connections on, the statement
caches, and the migrations that several processes run on one database.  TLC
checks the models on small instances; TLAPS proves the invariants that matter
most, and their inductive strengthenings, for every value of the constants.

Paths below are relative to `src/`; `TM` is
`diesel/src/connection/transaction_manager.rs` and `ATM` is
`diesel/src/connection/async_transaction_manager.rs`.

## 1. The system

Diesel is an ORM and query builder.  Nearly all of its lines are types and
conversions that the Rust compiler checks; the state lives in the connections.

| Component | State | Operations | Interacts with | What makes it correct |
|---|---|---|---|---|
| Transaction manager (`TM`) | status: in error, or depth, rollback flag, test flag | begin, begin with custom SQL, commit, rollback, `transaction()` | sends SQL with `batch_execute`, has its status changed by the hook of the connection | depth and savepoints match the closures; Ok means committed, Err means undone; never idle over an open transaction |
| Hooks (`update_transaction_manager_status` of each connection) | none | look at the reply to a statement | write the status of the manager | the status is never better than the server's |
| Asynchronous manager (`ATM`) | the same status, `is_broken`, `is_commit` | the same, each an await | futures may be dropped at each await | a cancelled transaction reaches nobody else |
| Pools (`pooled_connection/*`, `r2d2.rs`) | the idle connections | test, hand out, give back, customize | `is_broken`, `ping` | nobody is handed an open transaction, after a panic too |
| PostgreSQL connection (`pg/connection`) | libpq handle, statement cache, metadata cache | execute, load, row-by-row cursor, COPY, batch, notifications | the manager through the hook; libpq's state | results are read to the end before the next statement, no call hangs, failures are reported |
| SQLite connection | handle, statement, current row | execute, load, rows that outlive steps | the manager; SQLite's one current row | a row keeps its values, statements are left reset |
| Turso connection | handle, admission sets | execute, load, batch | the manager; Turso's cache, which never evicts | what is compiled for good is bounded |
| MySQL connection | handle, statement cache | execute, load, batch | the manager | deadlocks reach the manager |
| Asynchronous PostgreSQL connection (`pg/async_connection`) | client, driver task, three mutexes | pipelined statements over a shared reference | the driver, tokio-postgres | statements and status changes do not cross, no query waits for ever |
| Sync wrapper (`sync_connection_wrapper`) | the connection behind a mutex | blocking tasks behind futures | a synchronous connection, a pool of threads | no call meets a connection still in use, every call ends |
| Async wrapper (`async_connection_wrapper.rs`) | a connection, a runtime | each call blocks on one future | an asynchronous connection | as the connection behind it |
| Statement cache (`connection/statement_cache`) | map from key to statement, counter of names | look up, prepare, replace | the connection | names agree with the server, nothing that failed is kept |
| Migrations (`diesel_migrations`, commands of `diesel_cli`) | the table of versions | run, run next, revert, revert all, redo | `transaction()`, other processes | each version recorded exactly when applied |
| `diesel migration generate` | the directory of migrations | lock, list, create | other processes | versions are unique |
| CLI text generation, schema and view inference | none | generate text | a connection | no state: outside of this project |
| Query builder, expressions, types, derives | none | build SQL, convert values | the compiler | no state: outside of this project |

What is hard here:

* the server is a second party with a state of its own, and the managers only
  mirror it: a reply may mean that a transaction is open, aborted or gone, and
  each database has its own rules (a COMMIT that fails ends the transaction on
  PostgreSQL and leaves it open on SQLite; a deadlock ends it on MySQL);
* transactions nest, and the savepoint names are reused at every level;
* a connection breaks during COMMIT, and nobody knows what happened;
* the future of an asynchronous call is dropped while the statement is on its
  way, and no clean-up code runs; a closure panics and none runs either;
* a pool hands the connection to a caller who had no part in any of this;
* libpq refuses a statement until the results of the one before are all read,
  and there are seven ways for a call to end early;
* several queries share one connection, two locks and one queue;
* two processes migrate one database, and each may crash between two statements.

`PROJECT.json` lists each hazard at its line, with the properties that cover it.

## 2. Modules

```
SqlSession                     the database (external)
  TransactionManagerStatus     status, SQL, hooks: shared by both managers
    AnsiTransactionManager     + TransactionScopes     (synchronous)
      R2d2Pool                                         (pool, panics, tests)
      MCAnsiTransactionManager + NestedTransaction     (refinement), R2d2Pool
    AnsiAsyncTransactionManager + TransactionScopes    (asynchronous, pools)
      MCAnsiAsyncTransactionManager
PgStatements                   libpq, the cache of statements
AsyncPgPipeline   SqliteRows   TursoStatementCache
      MCConnections            the three, one at a time
SyncConnectionWrapper
Migrations                     MCMigrations
MigrationGenerate

TransactionProofs                     answers, closures, fates: for both managers
  AnsiTransactionManagerProofs        the manager, per database, and R2d2Pool
    MCAnsiTransactionManagerProofs    what run `tm` checks, the refinement
  AnsiAsyncTransactionManagerProofs   the asynchronous manager and its pools
    MCAnsiAsyncTransactionManagerProofs   what run `async` checks
MigrationsProofs  PgStatementsProofs
MCConnectionsProofs                   pipeline, rows, Turso's cache, the wrapper
```

A proof module extends the modules it is about.  `MCAnsiTransactionManager` takes its
instances for MySQL, SQLite and the pool of the proof module, so that the lemmas can
be used of each; so does `MCAnsiAsyncTransactionManager` for Turso and MySQL.

An MC module that holds several databases or connections picks one in its first
state, and never leaves it: the behaviours are those of each, side by side.
Definitions called *mistake* are plausible errors in the definition that follows
them; no specification uses them, and each breaks one of the properties.

**SqlSession** is the server, which is not part of the repository: a session
has a transaction state, a savepoint stack, the uncommitted writes and the
durable ones, and `Answers(s, stmt)` is the set of replies a statement may get,
with the session after it.  `Dialect` picks the database and `Faults` the
failures it may show: a failing statement, a serialization failure or deadlock,
a refused COMMIT, a transaction the database abandons on its own, a broken
connection (before or after the statement ran).

**TransactionManagerStatus** is `TransactionManagerStatus` of `TM` with what
each call makes of a reply (`AfterBegin`, `AfterExit`, `AfterRollback`) and the
hooks of the synchronous connections.  PostgreSQL's hook asks libpq for the
transaction state; MySQL's looks for a serialization failure, and does not run
for `batch_execute`; SQLite has none.  COPY, and a load whose statement fails to
prepare, do not reach PostgreSQL's hook (the "copy" route of a statement).

**TransactionScopes** is what the callers believe: the stack of closures inside
`transaction()`, what each wrote, and the *fate* of every write: pending, kept
(the outermost `transaction()` returned Ok), swallowed (it did, though a
statement of its closure had failed), dropped (a `transaction()` around it
returned Err), cancelled (its future was dropped, or it panicked), auto (written
outside), or unknown (the connection broke while it was being committed).  This state is not
in the program: it is what the properties compare the database with.

**AnsiTransactionManager** is `AnsiTransactionManager` of `TM`.  Every call
borrows the connection mutably for its whole length, so a call is one step with
all the statements it sends: `CommitTransaction` includes the rollback that a
failed commit starts.  The nondeterminism is the server's.  Actions:

| Action | Code |
|---|---|
| `Begin` | start of `transaction()`: `begin_transaction`, closure runs only on Ok |
| `BeginSqlTransaction` | `begin_transaction_sql` (transaction builders, immediate and exclusive transactions) |
| `BeginTestTransaction` | `Connection::begin_test_transaction` |
| `Statement` | execute, load or COPY with its hook, inside or outside of closures |
| `CloseOk` | the innermost closure returned Ok: `commit_transaction` |
| `CloseErr` | it returned Err: `rollback_transaction` |

The closure is free: after any failure it may go on, return Ok or return Err.
`test_transaction` is `transaction()` with a closure that returns Err, and needs
no action of its own.

**NestedTransaction** is what `Connection::transaction` promises, without SQL: a
stack of closures whose writes go to the closure around them or to the database
on Ok, and vanish, alone, on Err.  `MCAnsiTransactionManager` shows that the
manager over PostgreSQL, with all its faults, implements it: the stack is that of
the closures, `doomed` is the aborted state.

**R2d2Pool** is one connection of an r2d2 pool.  `Acquire` is `on_acquire` of
`TestCustomizer` or of none, `CheckOut` is `is_valid`, `CheckIn` asks `has_broken`
(a thread that panics, or `is_broken_transaction_manager`), `Use` is the manager
behind `PoolTransactionManager`, `Caught(k)` a panic that unwinds the closures
from the k-th on and is caught around it, so that `transaction()` sends nothing
for them.  A connection that is not kept is replaced by a new one.

**AnsiAsyncTransactionManager** is `ATM` with one connection and its pool.  A
call is two steps, the request and the reply; between them, and between any two
statements, `Cancel(k)` drops the k innermost closures with the call they wait
for.  `EnterBlock` and `LeaveBlock` are `critical_transaction_block`; `Panic` is
its `debug_assert!` in a debug build.  A failed commit starts a second await
(`repair`), which may be cancelled too.  `GiveBack` and `Get` are the pool: bb8
asks `is_broken` when a connection comes back, deadpool when it goes out, mobc
never; `Verified` sends a test query.  `CancelWhole` says what is dropped: the
whole task, which loses the connection too, or any suffix of its closures, after
which the rest of the task goes on with the same connection.

**PgStatements** is `PgConnection` over libpq's asynchronous interface
(`pg/connection/{mod,cursor,copy,result}.rs`, `stmt/mod.rs`) with the generic
statement cache (`connection/statement_cache/mod.rs`).  One variable is the call
that runs, with its position; `async`, `coming` and `chunks` are libpq: whether a
command is open, the results still to be read, the COPY data still to be read;
`cache`, `counter` and `prepared` are the cache, the number of the next name, and
what the server has prepared.  `StartQuery`, `CollectBindsFails`, `TextRefused`,
`FindStatement`, `Prepare`, `Send`, `FirstResult` are common to execute, load, row-by-row load, COPY
TO and COPY FROM; `Drain`, `CursorNew`, `Next1`, `DropCursor`, `Dropping`,
`FillBuf`, `DropBuffer`, `Written`, `Finish`, `CopyResult` are how each of them
ends; `BatchExecute` is `PQexec`, which reads everything itself.  The connection
may break at any step (`Lose`), and the server may fail any statement, before or
after rows.

**SyncConnectionWrapper** is `sync_connection_wrapper/mod.rs` behind a pool.  A call
has a `task`, which runs on a thread of the blocking pool, and a `future`, which the
user holds; they end independently.  `Call` and `CollectBinds` are the part before
the task is handed over, `Run` and `End` the task, `Await`, `Drop` and `DropEnds` the
future, `GiveBack` the pool's `is_broken`, which needs the only reference.  Binds and
tasks may panic, and poison the mutex.  `mayBlock = FALSE` is a runtime with one
thread, whose threads must not block in the drop of a future.

**AsyncPgPipeline** is several queries over one `&AsyncPgConnection`
(`pg/async_connection/mod.rs`).  A query is a future: `Start`, then `LookUp` and
`FoundTypes` under the lock on the metadata cache, `FindStatement` and `Prepared`
under the lock on the statement cache, `Returns` with the hook; `Ends` is
`drive_future` when the connection ends, `Drop` the future dropped at an await,
`ReadRows` the stream of a load.  The server answers the requests of the `wire` in
order (`Answer`), or the connection breaks (`Die`).

**SqliteRows** is a load on a `SqliteConnection`: SQLite's statement with its one
current row, the iterator, and the rows that the caller keeps.  `FirstNext`,
`OwnedNext` and `DuplicatedNext` are `next()` of `StatementIterator` in its three
cases (not started, the last row gone, the last row still held and therefore copied
before the step), `DropIterator`, `DropRow`, `Borrow` and `Return` what a caller does
with iterator, rows and fields; a statement is released by the last of its owners.

**TursoStatementCache** is `StatementCache` of `turso/connection.rs`, which decides
what goes to Turso's cache.  `Disabled`, `Hit`, `OnProbation`, `RefusedAtCap` and
`Admitted` are the branches of `admit`; `Sight` is `recurs` of a text that does not;
`Compiles` and `NeverCompiles` are the future of the call; `learnt` and `slots` count,
for the properties, how often a family was put on probation and how many texts it
was granted.

**MCConnections** checks these three, one at a time.

**Migrations** is `diesel_migrations/src/migration_harness.rs` with the commands run,
revert and redo of `diesel_cli/src/migrations/mod.rs`, by several processes on one
PostgreSQL or MySQL.  A command is a loop: `Read` the table of versions, then for each
version of its list `Script`, `Record` and, in a transaction of its own, `Commit`.
Redo on PostgreSQL is one transaction when every migration it reverts asks for one.
Between any two statements other processes run, or the process crashes (`Crash`);
a statement waits for the locks of other transactions, and the server ends a
deadlock (`Deadlock`).  The effect of a script is a count per version; scripts are
DDL, which locks, or row changes, which do not.

**MigrationGenerate** is `diesel migration generate` by several processes in one
directory: lock, list, create.

## 3. Properties

Synchronous managers (`AnsiTransactionManager`, `R2d2Pool`; run `tm`):

* `CleanWhenIdle`: when the manager believes that no transaction is open, the
  server has none.  Proved.
* `DepthFollowsScopes`: the depth is that of the closures on PostgreSQL, and on MySQL
  while the connection stands; it is never behind them on MySQL without a connection
  and on SQLite, where a refused COMMIT leaves a level too many, and where a full disk
  may end the transaction under the manager.  Whatever failed, ROLLBACK TO included.
  Proved.
* `LevelsHoldTheirWork`: in an orderly transaction, the work a COMMIT would make
  durable is exactly that of the running closures (PostgreSQL), and the newest
  savepoint of each name holds the work of the levels below it (MySQL as well).  Proved.
* `KeptIsDurableOnPg`, `DroppedIsUndoneOffMysql`: what the result of `transaction()`
  says of each write is true of the database, and nothing of a running closure is
  durable.  Proved.
* `NoSilentAutocommitOnServers`: statements do not commit by themselves while the
  manager takes its transaction to be in order.  Proved.
* `PoolIsClean`: a connection that waits in an r2d2 pool has no open transaction,
  after caught panics too, and is not one that broke, in a COMMIT or a query; with
  `TestCustomizer` nothing becomes durable.  Proved.
* `KeepsThePromise`: the refinement of `NestedTransaction`.  Proved.

Asynchronous manager (`AnsiAsyncTransactionManager`; run `async`):

* `HandedOutClean` (action property): no caller is handed a connection with an
  open transaction, a test transaction excepted.  Proved of each manager and pool that
  someone guards.
* `CleanWhenIdleOnServers`: as above, unless `is_broken` is up.  Proved.
* `KeptIsDurableOnTurso`, `UndoneOffMysql`: as above; what a cancelled task wrote
  never becomes durable through the next caller's commit.  Proved.
* `NoStaleCommitOffMysql`: `is_commit`, which has PostgreSQL's hook ignore a
  serialization failure, is up for the holder of a connection only while a commit of
  its own is in flight.  A commit that is dropped leaves it up (`ATM`, `is_commit` is
  taken down after the await); what keeps it from the next transaction is that
  `is_broken` is up too, and that the pool asks.  Proved.

PostgreSQL statements (`PgStatements`; run `pg_statements`):

* `NamesAgree`: what the cache names, the server has prepared, under that name and
  for that statement, and the next name was never used.  Proved.
* `ReadyForNext`: however a call ends, the next statement can be sent, but for what
  a COPY TO or an empty query leaves.  Proved.
* `OkIsDone`, `ReportedOnce`: an Ok was not failed by the server; each StartQuery has
  its FinishQuery (with the exceptions the definition names).  Both proved.
* `EveryCallReturns` (liveness): no call hangs, and neither of its two panics happens.

Connections (`MCConnections`; run `connections`):

* `CacheIsExact`, `FailureIsNoted` (both proved): with queries pipelined and dropped
  at will, a statement is cached exactly when its preparation was answered, once; a
  failure to serialize reaches the manager.  `EveryQueryEnds` (liveness): no query
  waits for ever for a lock or for an answer of a connection that has ended.
* `RowsKeep`, `StaysUnderFields`, `LeftReset` (all proved): a SQLite row reads its own
  values for as long as it lives, the statement does not move under a field, and is
  left reset and unbound.
* `Bounded`, `OneSlotEachTime` (both proved): Turso's cache and the probation are
  bounded and in step; a variadic call site costs one slot each time it is learnt.

Wrapper (`SyncConnectionWrapper`; run `sync_wrapper`): `ExclusiveWhenIdle`,
`HandedOutClean` (both proved): once all futures are over, awaited or dropped, no task
of theirs is left and the connection is free, and nobody gets a connection with
somebody else's call or transaction; `EveryCallEnds` (liveness): every task runs and no
thread waits for ever, after panics too.

Migrations (run `migrations`): `AppliedOnce` (proved): a transactional migration is in
effect once if it is recorded and not at all otherwise, whatever processes do and
wherever they crash; `RecordedIsApplied`, `NoHoles` (proved): what is recorded has been
applied, and without reverts nothing is missing below it; `RedoKeeps` (action property,
proved): a redo in one transaction loses no version; `EveryCommandEnds` (liveness).

`TypeOK` of each module is checked once, with its module; those of `SqliteRows` and
`TursoStatementCache` are proved and not run.

## 4. Runs

| Run | Instance | States |
|---|---|---|
| `tm` | PostgreSQL with COPY and all faults, MySQL with deadlocks, SQLite with refused commits, SQLite on a full disk as well, PostgreSQL in a pool with panics; 3 levels | 289,178 |
| `async` | PostgreSQL behind deadpool, Turso behind bb8 (3 levels, both kinds of failed COMMIT), MySQL behind deadpool in a debug build with any suffix of the closures dropped | 972,579 |
| `migrations` | two processes, one of an older release | 205,411 |
| `pg_statements` | three statements, all kinds of calls | 206,630 |
| `sync_wrapper` | three calls, both kinds of runtime | 146,146 |
| `connections` | two pipelined queries; SQLite rows; Turso's cache | 303,177 |
| `tm_sqlite_refused_commit`, `async_pg_inner_failure`, `async_pg_mobc`, `async_turso_release`, `migration_generate`, `pg_copy_to` | end in a counterexample (section 6) | |

Bounds, and why they are enough:

* `tm`, `async`: `MaxDepth` closures (2 or 3: the code distinguishes depth 1 from
  more, and 3 is the least at which two savepoint names coexist), `MaxWrites`
  successful data statements (one per level), `MaxFailures` (a failure, the failure
  of its repair, and one more of a level around it).  SQLite on a full disk is an
  instance of its own (`FullSqlite`): what it rolls back on its own is no longer undone
  by `transaction()` (section 6), so that `DroppedIsUndone` is checked without it.
* `migrations`: version 1 writes rows, 2 is DDL, 3 is DDL outside of a transaction;
  the older release ships 1 and 2, so that versions unknown to a process occur;
  `Number = 2` gives redo a second turn; `MaxCommands = 4` lets each process run two
  commands, or one of them three against one.
* `pg_statements`: two statements that may be cached and one that may not, results
  of up to two rows (a first row and one after it), four calls (prepare, replace the
  cache, prepare again, use).
* `sync_wrapper`: three calls: one cancelled, one after it, one of the next user.
* `connections`: two queries meet on each lock and in the queue, over one statement
  that is cached and one that is not; three rows and two loads (a copied row, the one
  that shares the statement, and a load after); two texts of one family and two
  other families with room for two on probation and two in the cache, so that a
  family is forgotten and learnt again; seven executions.

Deadlock is not checked: every counter is bounded, so that a behaviour ends where a
bound is reached.  What must not block is stated as liveness instead.

Fairness is weak throughout.  `Migrations`: a process that is in a command goes on with
it (the server resolves deadlocks); nothing says that a command is started or that one
crashes.  `PgStatements`: a call goes on, since libpq answers or reports the end of the
connection, and the caller drops its cursor or buffer some day.
`SyncConnectionWrapper`: the blocking pool runs what it was given; a blocked thread
goes on when it can.  `AsyncPgPipeline`: each future is polled, each stream read or
dropped, and the server answers.  The managers, the SQLite rows and Turso's cache have
no fairness: each of their calls is one step, or ends when its future is dropped, and
nothing is promised of later ones.

Numbers of writes, rows and calls only tell things apart; each is used once.

## 5. Proofs

Every theorem holds for every value of the constants, under the named ASSUMEs of the
modules: dialects and faults are among those named, bounds are natural numbers,
versions are finitely many numbers, cacheable statements are statements.  Nothing is
assumed about callers, schedules or the order of failures.

Of the manager, what holds depends on the database, and the theorems that go beyond
`CleanWhenIdle` say which they are about:

* `LevelsInvHolds`, `ErrUndoes`: a database that is `Obedient`, PostgreSQL with every
  fault, and SQLite with every fault but a transaction it rolls back on its own (a full
  disk).  There the manager is not told, what follows commits by itself, and
  `ErrUndoes` is false.
* `PgLevels`, `PgPromise`, `PooledIsCleanHolds`: PostgreSQL.  `KeptIsDurable` is false
  of SQLite, as the run `tm_sqlite_refused_commit` shows.
* `SqliteCoversScopes`: SQLite, with every fault, the full disk included.
* `PooledIsAliveHolds`: PostgreSQL without COPY, whose failures do not pass the hook, so
  that only the next statement tells the manager.
* `MysqlFollowsScopes`: MySQL with statements that pass its hook (execute and load;
  `batch_execute` does not, which is a hazard of its own).
* `CleanWhenIdleHolds` of the asynchronous manager: `Guarded`, a debug build, or a pool
  that asks for `is_broken` with callers who drop whole tasks; `HandedOutCleanHolds`:
  also not mobc.  The runs `async_turso_release` and `async_pg_mobc` show that neither
  can be left out.  `TypeCorrect` assumes neither.
* `DroppedIsUndoneHolds`, `CancelledIsUndoneHolds`: `Undoes`, PostgreSQL or Turso behind
  bb8 or deadpool, with callers who drop whole tasks, in debug and release builds and
  for every fault.  `KeptIsDurableHolds`: Turso; it is false of PostgreSQL, as the run
  `async_pg_inner_failure` shows.  `NoStaleCommitHolds`: every database behind bb8 or
  deadpool, with callers who drop whole tasks.
* the theorems of `MCAnsiAsyncTransactionManagerProofs`: all three of run `async` at
  once, for every bound and fault of the PostgreSQL that the configuration gives
  (`OnPg`), the other two as the instances have them.
* the theorems of `MCAnsiTransactionManagerProofs`: all five of run `tm` at once, for
  every bound, with PostgreSQL as the first, as `tm.cfg` has it.

| Module | Theorems | Inductive invariant |
|---|---|---|
| `AnsiTransactionManagerProofs` | `TypeCorrect`, `CleanWhenIdleHolds` | `TypeOK /\ CleanWhenIdle` |
| | `LevelsInvHolds`, `PgLevels`, `ErrUndoes`, `PgPromise` | `LevelsInv`: `TypeOK`, `Agrees`, `Levels`, `Fated`, `Settled` |
| | `MysqlFollowsScopes` | `MysqlInv`: `TypeOK`, `MysqlTied` |
| | `SqliteCoversScopes` | `SqliteInv`: `TypeOK`, `CleanWhenIdle`, `Covers` |
| | `PooledIsCleanHolds` | `PoolInv`: `TypeOK`, `PoolTypes`, `Agrees`, `NewIsFresh`, `Untested`, `Tested` |
| | `PooledIsAliveHolds` | `PoolAliveInv`: `PoolInv`, `Known`, `PooledIsAlive` |
| `MCAnsiTransactionManagerProofs` | `CleanHolds`, `DepthFollowsScopesHolds`, `NoSilentAutocommitHolds`, `LevelsHoldTheirWorkHolds`, `PoolIsCleanHolds`, `KeptIsDurableHolds`, `DroppedIsUndoneHolds`, `KeepsThePromiseHolds` | `MCInv`: of each database, its invariant above |
| `AnsiAsyncTransactionManagerProofs` | `TypeCorrect`, `CleanWhenIdleHolds`, `HandedOutCleanHolds` | `AsyncInv`: `TypeOK`, `Normal`, `InFlight`, `Marked`, `Unbroken`; and `Tidy` |
| | `DroppedIsUndoneHolds`, `CancelledIsUndoneHolds`, `KeptIsDurableHolds` | `UndoInv`: `AsyncInv`, `Tidy` and `WorkInv`: `Sound`, `Fated`, `Accounted`, `Unsettled`, `Follows`, `Left` |
| | `NoStaleCommitHolds` | `AsyncInv` and `StaleInv` |
| `MCAnsiAsyncTransactionManagerProofs` | `MCInvHolds`, `CleanWhenIdleOnServersHolds`, `KeptIsDurableOnTursoHolds`, `UndoneOffMysqlHolds`, `NoStaleCommitOffMysqlHolds`, `MCHandedOutCleanHolds` | `MCInv`: `UndoInv` and `StaleInv` of PostgreSQL and Turso, `AsyncInv` and `Tidy` of MySQL |
| `MigrationsProofs` | `TypeCorrect`, `AppliedOnceHolds` | `TypeOK`, `TaskIsVersion`, `LocksExclude`, `NothingLeftOpen`, `NothingBelowZero`, `TouchedIsLocked`, `SeenInStep`, `AppliedOnceDdl`, `ForwardInStep` (`IInv`) |
| | `RecordedIsAppliedHolds`, `RedoKeepsHolds` | `IInv` and `AppliedInv`: `SeenIsApplied`, `AppliedFirst`, `RedoOwes` |
| | `NoHolesHolds` | `IInv` and `NothingBelow` |
| `PgStatementsProofs` | `NamesAgreeHolds`, `TypeCorrect`, `ReadyForNextHolds` | `CacheType /\ CachedIsPrepared /\ NamesAreFresh`; `TypeOK /\ Settled` |
| | `OkIsDoneHolds`, `ReportedOnceHolds` | `TypeOK` and `ReportInv`: `KindFits`, `FailureIsAhead`, `RowsReported`, `Reported` |
| `MCConnectionsProofs` | `PipelineTypeCorrect`, `CacheIsExactHolds`, `FailureIsNotedHolds` | `PipelineInv`: `TypeOK`, `CacheIsExact`, `PreparesAlone`, `WireFits`, `FailureIsKnown` |
| | `RowsTypeCorrect`, `RowsKeepHolds`, `LeftResetHolds`, `StaysUnderFieldsHolds` | `RowsInv`: `RowsTypeOK`, `RowsKeep`, `OneReads`, `ResetUnread` |
| | `CacheTypeCorrect`, `BoundedHolds`, `OneSlotEachTimeHolds`, `ExecutionsAddUpHolds` | `CacheInv`: `CacheTypeOK`, `AskedIsAdmitted`, `Bounded`, `OneSlotEachTime`, `SlotToSpend`, `ExecutionsAddUp` |
| | `EachAsAlone` | (the run's behaviours are behaviours of each of the three) |
| | `WrapperTypeCorrect`, `HandedOutCleanHolds`, `ExclusiveWhenIdleHolds` | `WrapperInv`: `WrapperTypeOK`, `TaskFollows`, `OverIsDone`, `HandedOutClean`, `FreshIsUnused` |

Along which argument:

* **Manager.**  `CleanWhenIdle` alone is not inductive, because a depth that is not a
  natural number, or a savepoint stack that is not a sequence, would let a ROLLBACK
  answer from nowhere.  With the types it is, because of what the calls do with each
  reply: a commit or a rollback lowers depth 1 only when the server agreed
  (`ExitIsClean`), a repair that fails ends in error (`FlaggedMove`,
  `FailedCommitOutcomes`), and a hook lowers the depth only when libpq says idle
  (`HookIdle`, `HookDepth`).  The step has one case per action, and each action
  reduces to one lemma per call, stated of every outcome the call may have.
  `TransactionProofs` holds what a session may answer.
* **Levels.**  None of the properties of depth, savepoints and fates is inductive: a
  ROLLBACK TO restores what a savepoint holds, so one has to know what every savepoint
  holds (`Levels`); a COMMIT makes durable what the session holds, so one has to know
  that this is what the running closures wrote, and that it is still pending (`Fated`:
  closures write disjoint sets, pending is what they wrote); a fate is settled once and
  for all, and only the commit of the only level may turn pending into durable
  (`Settled`).  `Agrees` ties the status to the session, so that an error status means
  a lost connection on PostgreSQL.  `Levels` allows an aborted session whose savepoints
  still hold the work below them, because the closure is free to go on after an error.
  For each call a set of cases says what it leaves (`BeginCases`, `CommitCases`,
  `RolledBack`, `Breaks`), and one lemma per case says what the closures make of it.
* **The promise.**  `PgPromise` maps `stack` to what each closure wrote, `doomed` to the
  aborted transaction and `connected` to a session that is not lost; each case of each
  call is a step of `NestedTransaction` or none.  A commit that fails and is rolled back
  is a `Drop`; a broken connection is a `Break`, during COMMIT with one of two outcomes.
* **MySQL.**  After a deadlock the server has no transaction and no savepoint while the
  depth stays up, so that `LevelsInv` is false here.  `MysqlTied` asks for what the
  session holds only while the rollback flag is down, and for no open transaction below
  depth 0; the hook puts the flag up in the step of the deadlock, and it stays until the
  outermost level ends.  The depth is that of the closures until the connection is lost,
  and never less after.
* **SQLite, whatever it rolls back.**  The manager hears of nothing but the replies to
  its own statements, so that each call keeps `Covers`, a depth of at least the number
  of closures or a manager in error, whatever the session holds.
* **Pool.**  A caught panic leaves the manager with more levels than closures, so
  `LevelsInv` is false here.  `Agrees` is enough for a pool without the customizer
  (`Untested`: its connections never carry the test flag, which `is_broken` excuses an
  open transaction for).  With it, the closure that never ends stays at the bottom and
  the depth never falls below the closures (`Tested`), so that no COMMIT is sent.  A
  connection that breaks has its manager in error in the same step (`Known`), which
  `is_broken` sees.
* **Asynchronous manager.**  Nothing but the awaited call touches the connection, so that
  the reply finds the status that the statement was made from (`InFlight`).  A future that
  is dropped leaves `is_broken` up exactly when a transaction statement was awaited
  (`Marked`), and what the server made of it is then not known; for every other state
  `Tidy` says that depth 0 means no transaction.  The next transaction statement would
  lower the flag; that it is never sent while the flag is up is either debug_assert! or
  `Unbroken`: bb8 keeps no such connection, deadpool hands none out, and a caller whose
  whole task is dropped never sees it.  A COMMIT that fails leaves a transaction only on
  Turso, where the hook puts up the flag that makes the manager repair it
  (`FailedCommitReplies`).
* **What became of the writes, asynchronously.**  As for `Levels`, one has to know what
  each savepoint holds (`Held`); here also between the statements of one call.
  `Follows` says it of a connection that is held: the depth is the number of closures
  and the session holds their work, or the manager is in error.  It cannot say it of
  the moment between a COMMIT that failed and the ROLLBACK that mends it (`Mending`),
  where the transaction may be over; and if the reply was lost (`Unheard`), the work may
  be durable while its fate is pending, which does no harm because the session is lost
  and the fate becomes unknown.  At every other moment nothing pending is durable
  (`Unsettled`).  When a whole task is dropped, nothing is known of the
  session that stays behind (`Left`), and nothing needs to be: `HandedOutClean` says that
  it has no transaction when somebody gets it, so that the work is gone; only under a test transaction do levels stay open that nobody closes, which commits
  nothing, because the bottom level is never ended.  Under `Undoes` no debug assertion
  unwinds a task: the flag is never up on a connection that somebody holds and can
  send a transaction statement on.
* **Migrations.**  A DDL script is applied by whoever holds the lock of its object,
  and sees the effect that its own check depends on: what a transaction has changed
  is locked (`TouchedIsLocked`), locks exclude (`LocksExclude`), and in the
  transaction the row and the effect agree but between the script and its record
  (`SeenInStep`).  Without reverts the primary key of the table does for row scripts
  what the lock does for DDL (`ForwardInStep`).  `RecordedIsApplied` needs more, as row
  scripts take no lock and their effects add up: whoever has a row of its own to insert
  has the effect of its own, or the lock (`SeenIsApplied`), so that no COMMIT of another
  takes it away; outside of transactions the effect is there before the row
  (`AppliedFirst`).  `NoHolesHolds` is about processes that ship a prefix of the versions
  each (`Prefixes`, which TLC evaluates for the run): the first of a sorted list has
  nothing below it that is not recorded (`NothingBelow`, with the lemma `Smallest` on
  `First`).  In a redo, each row that is deleted is inserted again or still owed, and at
  COMMIT nothing is owed (`RedoOwes`).
* **Statements.**  Names: the counter only grows, and a name enters the cache in the
  step in which the server prepared it.  `Settled` says of every position of a call
  where libpq is; each way to end a call passes through a result that is nothing or
  an error, after which libpq is idle.  Reports: while a call may still return Ok, a
  failure of its statement is among the results it has yet to read (`FailureIsAhead`,
  `RowsReported` for the rows of a cursor); after an error a cursor finds nothing more,
  so that there are two FinishQuery at most (`Reported`).
* **Wrapper.**  A future is over only when its task is done, if drops may block; so
  whoever has no pending future finds no task with the connection.
* **Pipeline.**  A statement is being prepared by the holder of the lock only
  (`PreparesAlone`), so that an answer to a preparation finds the cache without it;
  a request is on the wire only for the position its query is in (`WireFits`), so that
  a serialization failure is either still with a query that will note it, or noted.
* **Rows.**  At most one row reads from the statement (`OneReads`), and a statement that
  nobody owns is reset (`ResetUnread`).
* **Turso.**  A family that can still get a slot by recurring is one on probation that
  has not spent it (`SlotToSpend`).

Model-checked only:

* liveness (`EveryCallReturns`, `EveryQueryEnds`, `EveryCallEnds`, `EveryCommandEnds`):
  fairness is out of this prover's reach;
* `TypeOK` over the databases of an MC module together, which have bounds of their own
  (of each database there is a theorem, `TypeCorrect`).

## 6. Where code and documentation disagree

Six runs end in a counterexample:

* `tm_sqlite_refused_commit`: a COMMIT that SQLite refuses leaves depth 1 and the
  transaction open; the next `transaction()` is a savepoint of it and returns Ok
  for work that is not committed.  The trait expects `commit_transaction` to
  lower the depth.
* `async_pg_inner_failure`: a failed RELEASE of a nested transaction lowers the
  depth without ROLLBACK TO, and the outer `transaction()` returns Ok for a
  COMMIT that rolled back.  The synchronous manager repairs this case.
* `async_pg_mobc`: mobc never asks whether a connection is broken.
* `async_turso_release`: in a release build, a transaction statement after a
  cancelled one clears `is_broken`, and the pool hands out an open transaction.
* `migration_generate`: the guard of the directory's lock is dropped by the statement
  that takes it, and two processes create the same version.
* `pg_copy_to`: a COPY TO leaves its command open, read to the end or not.

Properties leave these out, and say so where they are defined; they have no run of
their own:

* PostgreSQL: a closure that ignores a failed statement and returns Ok is answered Ok,
  though the server rolls back (`diesel/src/pg/connection/mod.rs:342` speaks of it):
  such writes are "swallowed", of which `KeptIsDurable` says nothing.  MySQL: a closure
  that ignores a deadlock writes outside of any transaction, and `batch_execute` does
  not run the hook at all; `DroppedIsUndone` is not checked there, and a test pool
  may commit for the same reason.  SQLite: so does a closure that ignores the failure
  by which a full disk rolled its transaction back; there is no hook to tell the
  manager, which is not behind its closures all the same (`DepthFollowsScopes`).
* A panic that is caught around `transaction()` leaves the depth up, so that the next
  `transaction()` of the same caller is a savepoint.
* A load of an empty query leaves libpq busy (`pg/connection/result.rs:46`); an
  `execute` of a statement that starts a COPY TO, or after a COPY TO, reads the COPY
  state for ever.  FinishQuery comes twice when a row-by-row cursor met an error, and
  not at all when the binds of a load or COPY fail, or when the text of a batch has a
  NUL byte (`pg/connection/mod.rs:143`).
* Binary COPY TO: a NULL column does not advance the offset
  (`pg/query_builder/copy/copy_to.rs:355`); panics in COPY callbacks are not modelled.
* Asynchronous PostgreSQL: an error among the rows of a load does not pass the hook
  (`failure = "rows"`), and a future that is dropped takes with it the failure it would
  have noted.
* Wrapper: dropping a future on a runtime with one thread panics in `block_in_place`,
  and the task goes on (`sync_connection_wrapper/mod.rs:526`; `mayBlock = FALSE`); a
  mutex that a panic has poisoned is fatal to `exclusive_connection` and harmless
  elsewhere; binds are collected under the lock on the thread of the caller.
* SQLite: `next()` after the end runs the statement again, an error of a step is
  reported as a FinishQuery without an error, and `get` of a row by name panics when a
  field of it is held.
* Turso: a text counts as admitted though its compilation failed or its future was
  dropped.
* Migrations: row scripts that take no lock may be reverted by one process while
  another applies them, and an untransactional migration may be applied and not
  recorded after a crash.

## 7. Not modelled, and what is left

* `AsyncConnectionWrapper` blocks on one future per call and keeps nothing between
  calls: what it does is what the connection behind it does.
* PostgreSQL: notifications, which are read from a list of libpq's; the metadata cache
  of the synchronous connection, whose lookups are calls of their own made while the
  binds are collected; the transaction builder, which builds text.  SQLite: user
  functions, deserialization of databases.  MySQL: the buffers of binds and results.
* Asynchronous MySQL: the list of statements to close, which belongs to a client that is
  not part of the repository.
* Redo of all migrations, and the custom check queries of the asynchronous pools.
* The query builder, expressions, types, derives, dynamic schema, the generation and
  inference of schemas and views, instrumentation.  These are most of the
  repository's lines.  They keep no state between calls: traits and macros that the
  compiler checks, and conversions from one value to a text or a buffer, which tests
  cover.  A state model of them would restate them.

Worth doing next: what a caller keeps who drops some of its futures and goes on with the
connection (`CancelWhole = FALSE`), where only `CleanWhenIdle` and `HandedOutClean` are
known, in a debug build, and where `is_commit` stays up until the next commit ends; and
what `transaction()` of the asynchronous manager promises, as a refinement of
`NestedTransaction`, of which `DroppedIsUndoneHolds`,
`CancelledIsUndoneHolds` and `KeptIsDurableHolds` are the parts.
