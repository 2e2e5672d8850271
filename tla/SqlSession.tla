------------------------------ MODULE SqlSession ------------------------------
(***************************************************************************)
(* The database session at the other end of a diesel connection, seen from *)
(* the transaction SQL that diesel sends.  The server is not part of the   *)
(* repository: what is modelled here is how PostgreSQL, MySQL, SQLite and   *)
(* Turso answer the statements that the transaction managers in            *)
(* diesel/src/connection send (BEGIN, SAVEPOINT, ROLLBACK TO, RELEASE,     *)
(* COMMIT, ROLLBACK) and a data statement that writes one item.            *)
(*                                                                         *)
(* A session is a record                                                   *)
(*   txn      "idle", "open", "aborted" (PostgreSQL refuses everything     *)
(*            until a rollback), "implicit" (SQLite: a transaction that a  *)
(*            SAVEPOINT opened) or "lost" (the connection is gone)         *)
(*   saves    the savepoint stack: each entry is the level in the name     *)
(*            diesel_savepoint_<level> and the work pending when it was set*)
(*   work     the writes of the open transaction                           *)
(*   durable  the writes that are committed                                *)
(*                                                                         *)
(* Answers(s, stmt) is the set of replies the server may give to stmt: the *)
(* result and the session after it.  Faults names the failures the server  *)
(* is allowed to show.                                                     *)
(***************************************************************************)
EXTENDS Naturals, Sequences

CONSTANTS
    Dialect,     \* the database: "Pg", "Mysql", "Sqlite" or "Turso"
    Faults       \* the failures the server may show, a subset of FaultKinds

(* error          a statement fails (constraint, syntax, lock timeout ...)
   serialization  a statement or a COMMIT fails with a serialization failure
                  or a deadlock
   abandon        the whole transaction is rolled back on its own: by SQLite
                  when a statement fails (disk full, I/O error, out of
                  memory), by Turso when a COMMIT fails over a write that
                  was abandoned
   refuse         COMMIT fails: a deferred constraint, or SQLITE_BUSY
   lost           the connection to the server breaks                      *)
FaultKinds == {"error", "serialization", "abandon", "refuse", "lost"}

ASSUME DialectAssumption == Dialect \in {"Pg", "Mysql", "Sqlite", "Turso"}
ASSUME FaultsAssumption == Faults \subseteq FaultKinds

(* SQLite and Turso, which run in the process of the client.               *)
Embedded == Dialect \in {"Sqlite", "Turso"}

Txn     == {"idle", "open", "aborted", "implicit", "lost"}
Save    == [level : Nat, work : SUBSET Nat]
Session == [txn : Txn,
            saves : Seq(Save),
            work : SUBSET Nat,
            durable : SUBSET Nat]

FreshSession == [txn |-> "idle", saves |-> <<>>, work |-> {}, durable |-> {}]

(* The statements.  arg is the savepoint level or the item written; via is
   the way the statement reaches the connection: batch_execute ("batch"),
   execute or load ("query"), COPY or a load that fails while it is
   prepared ("copy").                                                      *)
Ops  == {"begin", "savepoint", "rollback_to", "release", "commit", "rollback", "write"}
Vias == {"batch", "query", "copy"}
Stmt == [op : Ops, arg : Nat, via : Vias]

TransactionSql(op, level) == [op |-> op, arg |-> level, via |-> "batch"]
Write(item, via)          == [op |-> "write", arg |-> item, via |-> via]

Results == {"ok", "error", "serialization", "lost"}
Reply(res, s) == [res |-> res, session |-> s]

-------------------------------------------------------------------------------
(* What the server does to the session.                                    *)

InTransaction(s) == s.txn \in {"open", "aborted", "implicit"}

Closed(s)    == [s EXCEPT !.txn = "idle", !.saves = <<>>, !.work = {}]
Committed(s) == [Closed(s) EXCEPT !.durable = s.durable \cup s.work]
Gone(s)      == [Closed(s) EXCEPT !.txn = "lost"]

(* An error inside a PostgreSQL transaction aborts it.                     *)
AfterError(s) == IF Dialect = "Pg" /\ s.txn = "open"
                 THEN [s EXCEPT !.txn = "aborted"] ELSE s

(* The savepoints of a level and the newest of them: ROLLBACK TO and
   RELEASE take the newest savepoint that bears the name.                  *)
SavesAt(s, level) == {i \in DOMAIN s.saves : s.saves[i].level = level}
Newest(s, level)  == CHOOSE i \in SavesAt(s, level) :
                        \A j \in SavesAt(s, level) : j <= i

(* MySQL drops an older savepoint of the same name, the others keep it.    *)
Kept(s, level) ==
    IF Dialect = "Mysql" /\ SavesAt(s, level) # {}
    THEN SubSeq(s.saves, 1, Newest(s, level) - 1)
           \o SubSeq(s.saves, Newest(s, level) + 1, Len(s.saves))
    ELSE s.saves

SavepointSet(s, level) ==
    [s EXCEPT !.saves = Append(Kept(s, level), [level |-> level, work |-> s.work])]

RolledBackTo(s, level) ==
    [s EXCEPT !.txn   = IF @ = "aborted" THEN "open" ELSE @,
              !.saves = SubSeq(@, 1, Newest(s, level)),
              !.work  = s.saves[Newest(s, level)].work]

Released(s, level) == [s EXCEPT !.saves = SubSeq(@, 1, Newest(s, level) - 1)]

-------------------------------------------------------------------------------
(* The replies to each statement on a session that is not lost.            *)

Fault(kind, replies) == IF kind \in Faults THEN replies ELSE {}

BeginReplies(s) ==
    CASE s.txn = "idle"     -> {Reply("ok", [s EXCEPT !.txn = "open"])}
                                 \cup Fault("error", {Reply("error", s)})
      [] s.txn = "aborted" \/ (s.txn # "idle" /\ Embedded) -> {Reply("error", s)}
      [] s.txn \in {"open", "implicit"} /\ Dialect = "Pg" -> {Reply("ok", s)}
      [] OTHER              -> {Reply("ok", [Committed(s) EXCEPT !.txn = "open"])}

SavepointReplies(s, level) ==
    CASE s.txn = "idle" /\ Dialect = "Pg"     -> {Reply("error", s)}
      [] s.txn = "idle" /\ Dialect = "Mysql"  -> {Reply("ok", s)}
      [] s.txn = "idle" /\ Embedded ->
             {Reply("ok", [SavepointSet(s, level) EXCEPT !.txn = "implicit"])}
      [] s.txn = "aborted" -> {Reply("error", s)}
      [] OTHER -> {Reply("ok", SavepointSet(s, level))}
                    \cup Fault("error", {Reply("error", AfterError(s))})

RollbackToReplies(s, level) ==
    IF InTransaction(s) /\ SavesAt(s, level) # {}
    THEN {Reply("ok", RolledBackTo(s, level))}
    ELSE {Reply("error", AfterError(s))}

(* Releasing the savepoint that opened an implicit transaction commits it. *)
ReleaseReplies(s, level) ==
    CASE ~InTransaction(s) \/ s.txn = "aborted" \/ SavesAt(s, level) = {} ->
             {Reply("error", AfterError(s))}
      [] s.txn = "implicit" /\ SavesAt(s, level) # {} /\ Newest(s, level) = 1 ->
             {Reply("ok", Committed(s))} \cup Fault("refuse", {Reply("error", s)})
      [] OTHER -> {Reply("ok", Released(s, level))}

(* COMMIT of an aborted PostgreSQL transaction rolls back and reports no
   error.  A COMMIT that fails ends the transaction on PostgreSQL and leaves
   it open on SQLite and Turso.                                            *)
CommitReplies(s) ==
    CASE s.txn = "idle" -> {IF Embedded THEN Reply("error", s) ELSE Reply("ok", s)}
      [] s.txn = "aborted" -> {Reply("ok", Closed(s))}
      [] OTHER -> {Reply("ok", Committed(s))}
             \cup (IF Dialect # "Pg" THEN {} ELSE
                   Fault("refuse", {Reply("error", Closed(s))})
                     \cup Fault("serialization", {Reply("serialization", Closed(s))}))
             \cup (IF ~Embedded THEN {} ELSE Fault("refuse", {Reply("error", s)}))
             \cup (IF Dialect # "Turso" THEN {} ELSE
                   Fault("abandon", {Reply("error", Closed(s))}))

RollbackReplies(s) ==
    IF s.txn = "idle" /\ Embedded THEN {Reply("error", s)} ELSE {Reply("ok", Closed(s))}

Written(s, item) == IF s.txn = "idle" THEN [s EXCEPT !.durable = @ \cup {item}]
                    ELSE [s EXCEPT !.work = @ \cup {item}]

(* A serialization failure or a deadlock aborts the transaction on
   PostgreSQL and rolls it back as a whole on MySQL.                       *)
WriteReplies(s, item) ==
    IF s.txn = "aborted" THEN {Reply("error", s)}
    ELSE {Reply("ok", Written(s, item))}
           \cup Fault("error", {Reply("error", AfterError(s))})
           \cup (IF Embedded THEN {} ELSE
                 Fault("serialization",
                       {Reply("serialization",
                              IF Dialect = "Mysql" THEN Closed(s) ELSE AfterError(s))}))
           \cup (IF Dialect # "Sqlite" THEN {} ELSE
                 Fault("abandon", {Reply("error", Closed(s))}))

ServerReplies(s, stmt) ==
    CASE stmt.op = "begin"       -> BeginReplies(s)
      [] stmt.op = "savepoint"   -> SavepointReplies(s, stmt.arg)
      [] stmt.op = "rollback_to" -> RollbackToReplies(s, stmt.arg)
      [] stmt.op = "release"     -> ReleaseReplies(s, stmt.arg)
      [] stmt.op = "commit"      -> CommitReplies(s)
      [] stmt.op = "rollback"    -> RollbackReplies(s)
      [] stmt.op = "write"       -> WriteReplies(s, stmt.arg)

(* The connection breaks before the server has run the statement or after
   it, and the client cannot tell which.                                   *)
LostReplies(s, stmt) ==
    IF Embedded THEN {} ELSE
    Fault("lost", {Reply("lost", Gone(s))}
                    \cup {Reply("lost", Gone(r.session)) : r \in ServerReplies(s, stmt)})

Answers(s, stmt) == IF s.txn = "lost" THEN {Reply("lost", s)}
                    ELSE ServerReplies(s, stmt) \cup LostReplies(s, stmt)

===============================================================================
