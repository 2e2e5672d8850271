------------------------------ MODULE Migrations ------------------------------
(***************************************************************************)
(* diesel_migrations (migration_harness.rs) and the commands of diesel_cli *)
(* over it (migrations/mod.rs: run, revert, redo): several processes run   *)
(* commands on one database.  A command reads the table of versions and    *)
(* then works through its list, with other processes between any two of    *)
(* its statements; it may crash there, and the server then rolls back what *)
(* it had open.                                                            *)
(*                                                                         *)
(* A migration is a version with an up and a down script.  The script of a *)
(* Locking version is DDL: it locks its object and fails when the object   *)
(* is there already, or is not.  The others write rows: up always works    *)
(* and takes no lock, down removes the rows it sees.  schema[v] counts the *)
(* times the up script of v is in effect.  The database is READ COMMITTED  *)
(* and not part of the repository.                                         *)
(***************************************************************************)
EXTENDS Integers, FiniteSets

CONSTANTS
    Procs,             \* the processes
    Versions,          \* the versions, in their order
    Source,            \* Source[p]: the migrations that process p ships
    Locking,           \* the versions whose scripts are DDL
    RunInTransaction,  \* the versions with run_in_transaction = true
    Number,            \* --number of revert and redo
    MaxCommands        \* bound: the commands that are started

ASSUME VersionsAssumption == Versions \subseteq Nat /\ IsFiniteSet(Versions)
ASSUME MigrationsAssumption ==
    /\ Source \in [Procs -> SUBSET Versions]
    /\ Locking \subseteq Versions /\ RunInTransaction \subseteq Versions
    /\ Number \in Nat \ {0} /\ MaxCommands \in Nat

VARIABLES
    database,  \* "Pg", or "Mysql": DDL commits, redo is never one transaction
    recorded,  \* __diesel_schema_migrations, as committed
    schema,    \* what the scripts did, as committed
    txn,       \* what each process has done and not committed, and its locks
    proc,      \* the command that each process is in
    asked,     \* the commands that were ever started
    started    \* counts towards MaxCommands

vars == <<database, recorded, schema, txn, proc, asked, started>>

Commands == {"run", "next", "revert", "revert_all", "redo"}
Forward  == {"run", "next"}

Txn    == [objs : SUBSET Versions, ins : SUBSET Versions, del : SUBSET Versions,
           delta : [Versions -> Int]]
NoTxn  == [objs |-> {}, ins |-> {}, del |-> {}, delta |-> [v \in Versions |-> 0]]

(* pc      "read" the table, run a "script", "record" it, "commit"
   todo    the versions still to be worked on, upwards or downwards
   left    the times revert and redo still read the last version
   undone  what redo has reverted and will apply again
   whole   redo runs in one transaction                                    *)
Proc == [cmd : Commands, pc : {"idle", "read", "script", "record", "commit"},
         up : BOOLEAN, todo : SUBSET Versions, left : Nat, undone : SUBSET Versions,
         whole : BOOLEAN]
Idle == [cmd |-> "run", pc |-> "idle", up |-> TRUE, todo |-> {}, left |-> 0,
         undone |-> {}, whole |-> FALSE]

(* The table, the scripts in effect and the processes keep their shape; no
   script is in effect a negative number of times, whoever reverts it.     *)
TypeOK ==
    /\ database \in {"Pg", "Mysql"}
    /\ recorded \subseteq Versions
    /\ schema \in [Versions -> Nat]
    /\ txn \in [Procs -> Txn]
    /\ proc \in [Procs -> Proc]
    /\ asked \subseteq Commands /\ started \in Nat

-------------------------------------------------------------------------------
Mysql == database = "Mysql"

(* What a process sees: the committed state under its own transaction.     *)

Rows(p)      == (recorded \ txn[p].del) \cup txn[p].ins
Effect(p, v) == schema[v] + txn[p].delta[v]

ObjectBusy(p, v) == \E q \in Procs \ {p} : v \in txn[q].objs
InsertWaits(p, v) == \E q \in Procs \ {p} : v \in txn[q].ins \cup txn[q].del
DeleteWaits(p, v) == \E q \in Procs \ {p} : v \in txn[q].del

First(S)  == CHOOSE v \in S : \A w \in S : v <= w
Last(S)   == CHOOSE v \in S : \A w \in S : w <= v
Lowest(S) == {v \in S : \A w \in S : v <= w}
Top(S, n) == {v \in S : Cardinality({w \in S : w > v}) < n}

(* mistake: the pending migrations are not sorted                           *)
Task_Unsorted(p) == Last(proc[p].todo)
(* The lists are sorted: pending upwards, applied downwards.               *)
Task(p) == IF proc[p].up THEN First(proc[p].todo) ELSE Last(proc[p].todo)

(* mistake: no migration runs in a transaction of its own                   *)
Autocommits_Always(p, v) == ~proc[p].whole
(* The statements of the migration commit one by one: it asks for that, or
   its DDL commits (MySQL), and no redo is around it.                      *)
Autocommits(p, v) ==
    ~proc[p].whole /\ (v \notin RunInTransaction \/ (Mysql /\ v \in Locking))

-------------------------------------------------------------------------------
(* Statements.                                                             *)

(* The lock that a script needs, and the effect it has for the process.    *)
NeedsObject(p, v) == v \in Locking \/ (~proc[p].up /\ Effect(p, v) > 0)
CanRun(p, v)      == v \in Locking => Effect(p, v) = IF proc[p].up THEN 0 ELSE 1
Change(p, v)      == IF proc[p].up THEN 1 ELSE -Effect(p, v)

RunScript(p, v) ==
    IF Autocommits(p, v)
    THEN schema' = [schema EXCEPT ![v] = @ + Change(p, v)] /\ UNCHANGED txn
    ELSE /\ txn' = [txn EXCEPT ![p] =
                      [objs  |-> IF NeedsObject(p, v) THEN txn[p].objs \cup {v} ELSE txn[p].objs,
                       ins   |-> txn[p].ins,
                       del   |-> txn[p].del,
                       delta |-> [txn[p].delta EXCEPT ![v] = @ + Change(p, v)]]]
         /\ UNCHANGED schema

InsertRow(p, v) ==
    IF Autocommits(p, v) THEN recorded' = recorded \cup {v} /\ UNCHANGED txn
    ELSE txn' = [txn EXCEPT ![p] = [txn[p] EXCEPT !.ins = txn[p].ins \cup {v}]] /\ UNCHANGED recorded

(* mistake: the row is left in the table                                    *)
DeleteRow_Keeps(p, v) == UNCHANGED <<recorded, txn>>
(* The number of deleted rows is not looked at.                            *)
DeleteRow(p, v) ==
    IF Autocommits(p, v) THEN recorded' = recorded \ {v} /\ UNCHANGED txn
    ELSE /\ txn' = IF v \in Rows(p)
                   THEN [txn EXCEPT ![p] =
                           [txn[p] EXCEPT !.ins = txn[p].ins \ {v},
                                          !.del = txn[p].del \cup ({v} \cap recorded)]]
                   ELSE txn
         /\ UNCHANGED recorded

(* mistake: an Err leaves the transaction open for what comes next          *)
Ended_StaysOpen(p) == [txn[p] EXCEPT !.objs = {}]
Ended(p) == NoTxn

-------------------------------------------------------------------------------
(* The commands.                                                           *)

Init ==
    /\ database \in {"Pg", "Mysql"}
    /\ recorded = {} /\ schema = [v \in Versions |-> 0]
    /\ txn = [p \in Procs |-> NoTxn] /\ proc = [p \in Procs |-> Idle]
    /\ asked = {} /\ started = 0

(* redo looks at what it is about to revert before it decides, passing over
   versions it does not know, and then reads the table again.              *)
RedoInTransaction(p) ==
    ~Mysql /\ Top(recorded, Number) \cap Source[p] \subseteq RunInTransaction

Start(p, c) ==
    /\ proc[p].pc = "idle" /\ started < MaxCommands
    /\ proc' = [proc EXCEPT ![p] =
                  [cmd |-> c, pc |-> "read", up |-> c \in Forward, todo |-> {},
                   left |-> IF c \in {"revert", "redo"} THEN Number ELSE 1,
                   undone |-> {}, whole |-> c = "redo" /\ RedoInTransaction(p)]]
    /\ asked' = asked \cup {c} /\ started' = started + 1
    /\ UNCHANGED <<recorded, schema, txn>>

(* mistake: redo does not apply the last migration that it reverted again   *)
ToApply_Forgets(q) == IF Cardinality(q.undone) = 1 THEN q.undone ELSE q.undone \ {First(q.undone)}
ToApply(q) == q.undone

(* mistake: the turns are not counted                                       *)
GoesOn_Endless(q) ==
    IF q.todo # {} THEN [q EXCEPT !.pc = "script"]
    ELSE IF q.left > 1 THEN [q EXCEPT !.pc = "read"] ELSE Idle

(* The process q goes on: with its list, with the next turn of revert or
   redo, with what redo has to apply again, with the COMMIT of redo.       *)
GoesOn(q) ==
    IF q.todo # {} THEN [q EXCEPT !.pc = "script"]
    ELSE IF q.left > 1 THEN [q EXCEPT !.pc = "read", !.left = q.left - 1]
    ELSE IF q.undone # {}
         THEN [q EXCEPT !.pc = "script", !.up = TRUE, !.todo = ToApply(q), !.undone = {}]
    ELSE IF q.whole THEN [q EXCEPT !.pc = "commit"]
    ELSE Idle

(* The list of a command, from the table as the process sees it.           *)
List(p) ==
    CASE proc[p].cmd = "run"        -> Source[p] \ Rows(p)
      [] proc[p].cmd = "next"       -> Lowest(Source[p] \ Rows(p))
      [] proc[p].cmd = "revert_all" -> Rows(p)
      [] OTHER                      -> Top(Rows(p), 1)

(* revert stops when nothing is left to revert, redo takes its turns.      *)
Read(p) ==
    /\ proc[p].pc = "read"
    /\ LET q == [proc[p] EXCEPT !.todo = List(p)] IN
       proc' = [proc EXCEPT ![p] = IF q.todo = {} /\ q.cmd = "revert" THEN Idle ELSE GoesOn(q)]
    /\ UNCHANGED <<recorded, schema, txn, asked, started>>

Script(p) ==
    LET v == Task(p) IN
    /\ proc[p].pc = "script" /\ v \in Source[p]
    /\ NeedsObject(p, v) => ~ObjectBusy(p, v)
    /\ CanRun(p, v) /\ RunScript(p, v)
    /\ proc' = [proc EXCEPT ![p] = [proc[p] EXCEPT !.pc = "record"]]
    /\ UNCHANGED <<recorded, asked, started>>

(* An Err, or a crash: what is open is rolled back, the command is over.    *)
Abandon(p) ==
    /\ proc' = [proc EXCEPT ![p] = Idle]
    /\ txn' = [txn EXCEPT ![p] = Ended(p)]
    /\ UNCHANGED <<recorded, asked, started>>

(* The script fails (one that autocommits may have had its effect), or the
   process does not know the version (UnknownMigrationVersion).            *)
ScriptFails(p) ==
    LET v == Task(p) IN
    /\ proc[p].pc = "script"
    /\ v \in Source[p] /\ NeedsObject(p, v) => ~ObjectBusy(p, v)
    /\ \/ UNCHANGED schema
       \/ /\ Autocommits(p, v) /\ v \in Source[p] /\ CanRun(p, v)
          /\ schema' = [schema EXCEPT ![v] = @ + Change(p, v)]
    /\ Abandon(p)

(* The task is done; in a transaction of its own it is still to be
   committed.                                                              *)
TaskDone(p, v) ==
    LET redoes == proc[p].cmd = "redo" /\ ~proc[p].up
        q == [proc[p] EXCEPT !.todo = proc[p].todo \ {v},
                !.undone = IF redoes THEN proc[p].undone \cup {v} ELSE proc[p].undone]
    IN proc' = [proc EXCEPT ![p] = IF q.whole \/ Autocommits(p, v) THEN GoesOn(q)
                                   ELSE [q EXCEPT !.pc = "commit"]]

Record(p) ==
    LET v == Task(p) IN
    /\ proc[p].pc = "record"
    /\ IF proc[p].up THEN ~InsertWaits(p, v) /\ v \notin Rows(p) /\ InsertRow(p, v)
       ELSE ~DeleteWaits(p, v) /\ DeleteRow(p, v)
    /\ TaskDone(p, v)
    /\ UNCHANGED <<schema, asked, started>>

(* Another process has recorded the version: its primary key is violated.  *)
RecordFails(p) ==
    /\ proc[p].pc = "record" /\ proc[p].up
    /\ ~InsertWaits(p, Task(p)) /\ Task(p) \in Rows(p)
    /\ UNCHANGED schema /\ Abandon(p)

Commit(p) ==
    /\ proc[p].pc = "commit"
    /\ recorded' = Rows(p)
    /\ schema' = [v \in Versions |-> Effect(p, v)]
    /\ txn' = [txn EXCEPT ![p] = Ended(p)]
    /\ proc' = [proc EXCEPT ![p] = IF proc[p].whole THEN Idle ELSE GoesOn(proc[p])]
    /\ UNCHANGED <<asked, started>>

(* The processes whose locks the next statement of p waits for.             *)
Blockers(p) ==
    {q \in Procs \ {p} :
       \/ /\ proc[p].pc = "script" /\ Task(p) \in Source[p]
          /\ NeedsObject(p, Task(p)) /\ Task(p) \in txn[q].objs
       \/ proc[p].pc = "record" /\ Task(p) \in txn[q].del
       \/ proc[p].pc = "record" /\ proc[p].up /\ Task(p) \in txn[q].ins}

(* The server finds processes that wait for one another and fails one.     *)
Deadlock(p) ==
    /\ \E S \in SUBSET Procs : p \in S /\ \A q \in S : Blockers(q) \cap S # {}
    /\ UNCHANGED schema /\ Abandon(p)

Crash(p) == proc[p].pc # "idle" /\ UNCHANGED schema /\ Abandon(p)

Step(p) == Read(p) \/ Script(p) \/ ScriptFails(p) \/ Record(p) \/ RecordFails(p)
             \/ Commit(p) \/ Deadlock(p)

Next == /\ \E p \in Procs : (\E c \in Commands : Start(p, c)) \/ Step(p) \/ Crash(p)
        /\ UNCHANGED database

(* A process that runs a command goes on with it; nothing says that one is
   started, or crashes.                                                    *)
Fairness == \A p \in Procs : WF_vars(Step(p) /\ UNCHANGED database)

Spec == Init /\ [][Next]_vars /\ Fairness

-------------------------------------------------------------------------------
(* Each script runs in one transaction with the row that records it.       *)
Transactional(v) == v \in RunInTransaction /\ ~(Mysql /\ v \in Locking)

(* A migration that runs in a transaction is in effect once if it is
   recorded and not at all if it is not, however processes that run and
   revert it interleave and wherever they crash.  Scripts that take no lock
   of their own are protected from others that apply them, not from others
   that revert them.                                                       *)
AppliedOnce ==
    \A v \in Versions : Transactional(v) /\ (v \in Locking \/ asked \subseteq Forward) =>
        schema[v] = IF v \in recorded THEN 1 ELSE 0

(* What the table records has been applied: without a transaction too,
   unless someone reverts at the same time.                                *)
RecordedIsApplied ==
    \A v \in recorded : Transactional(v) \/ asked \subseteq Forward => schema[v] >= 1

(* Each process ships all versions up to some last one, as releases do.     *)
Prefixes == \A p \in Procs : \A v \in Source[p], w \in Versions : w < v => w \in Source[p]

(* As long as nobody reverts, processes of different releases, each with a
   prefix of the migrations (Prefixes), leave no hole in the versions.      *)
NoHoles ==
    asked \subseteq Forward =>
        \A v \in recorded, w \in Versions : w < v => w \in recorded

(* redo in one transaction loses no version, at no step.                   *)
RedoKeeps == [][\A p \in Procs : proc[p].whole => recorded \subseteq recorded' \/ proc'[p] = proc[p]]_vars

(* Every command ends: nobody waits for a lock for ever.                   *)
EveryCommandEnds == \A p \in Procs : []<>(proc[p].pc = "idle")

===============================================================================
