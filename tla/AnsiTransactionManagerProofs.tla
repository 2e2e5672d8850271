--------------------- MODULE AnsiTransactionManagerProofs ---------------------
(***************************************************************************)
(* Theorems about AnsiTransactionManager and R2d2Pool, for every set of    *)
(* faults and every bound.                                                 *)
(*                                                                         *)
(* For every database: the type invariant and CleanWhenIdle.  Each call of *)
(* the manager is the set of its outcomes, so that one lemma per call says *)
(* what every outcome keeps: a connection that is Clean.  TypeOK /\        *)
(* CleanWhenIdle is then inductive, with one step per action.              *)
(*                                                                         *)
(* For PostgreSQL, and SQLite while it does not roll back on its own:      *)
(* LevelsInv, which says what the session holds at each level of the       *)
(* manager, what the closures of that level wrote, and what became of each *)
(* write.  From it follow the properties of AnsiTransactionManager and,    *)
(* over PostgreSQL, that it implements NestedTransaction.                  *)
(*                                                                         *)
(* For MySQL, where a deadlock ends the transaction under the manager:     *)
(* MysqlInv, which asks for less once the flag of the manager is up.       *)
(*                                                                         *)
(* For SQLite, whatever fails: SqliteInv, the levels against the closures. *)
(*                                                                         *)
(* For R2d2Pool over PostgreSQL: PoolInv and PoolAliveInv, at the end.     *)
(***************************************************************************)
EXTENDS R2d2Pool, TransactionProofs

Conns == [status : Status, session : Session]

-------------------------------------------------------------------------------
(* The status.                                                             *)

LEMMA HookType ==
    ASSUME NEW st \in Status, NEW via, NEW res, NEW txn
    PROVE  Hook(st, via, res, txn) \in Status
<1>1. PgHook(st, via, res, txn) \in Status
  BY StatusMoves, StatusConstants DEF PgHook
<1>2. MysqlHook(st, via, res) \in Status
  BY StatusMoves DEF MysqlHook
<1> QED BY <1>1, <1>2 DEF Hook

(* A hook takes a status to "no transaction" only when the server says so.   *)
LEMMA HookIdle ==
    ASSUME NEW st \in Status, NEW via, NEW res, NEW txn,
           Hook(st, via, res, txn).depth = 0, ~Hook(st, via, res, txn).in_error
    PROVE  (~st.in_error /\ st.depth = 0) \/ txn = "idle"
<1>1. \A to \in BOOLEAN : /\ SetRequiresRollback(st, to).depth = st.depth
                          /\ SetRequiresRollback(st, to).in_error = st.in_error
  BY DEF SetRequiresRollback, Status
<1>2. InError.in_error
  BY DEF InError, NoTransaction
<1>3. CASE Dialect = "Pg"
  BY <1>1, <1>2, <1>3 DEF Hook, PgHook
<1>4. CASE Dialect = "Mysql"
  BY <1>1, <1>4 DEF Hook, MysqlHook
<1>5. CASE Dialect \notin {"Pg", "Mysql"}
  BY <1>5 DEF Hook
<1> QED BY <1>3, <1>4, <1>5

LEMMA ExecType ==
    ASSUME NEW c \in Conns, NEW stmt \in Stmt
    PROVE  Exec(c, stmt) \subseteq [res : Results, conn : Conns]
<1>1. Answers(c.session, stmt) \subseteq Replies
  BY AnswersType DEF Conns
<1>2. \A a \in Answers(c.session, stmt) :
         Hook(c.status, stmt.via, a.res, a.session.txn) \in Status
  BY HookType DEF Conns
<1> QED BY <1>1, <1>2 DEF Exec, Replies, Conns

-------------------------------------------------------------------------------
(* The calls: what every outcome is, and that it is Clean.                  *)

Outcomes == [ret : Returns, conn : Conns]

Good(r)  == r \in Outcomes /\ Clean(r.conn)

LEMMA BeginOutcomes ==
    ASSUME NEW c \in Conns, Clean(c), NEW r \in BeginTransaction(c)
    PROVE  Good(r)
<1>1. CASE c.status.in_error
  BY <1>1 DEF BeginTransaction, Refused, Good, Outcomes, Returns
<1>2. CASE ~c.status.in_error
  <2>1. c.status \in Status /\ c.session \in Session /\ BeginSql(c.status) \in Stmt
    BY SqlType DEF Conns
  <2>2. PICK x \in Exec(c, BeginSql(c.status)) :
           r = Outcome(AfterBegin(x.conn.status, x.res), x.conn.session)
    BY <1>2 DEF BeginTransaction
  <2>3. PICK a \in Answers(c.session, BeginSql(c.status)) :
           /\ x.res = a.res /\ x.conn.session = a.session
           /\ x.conn.status = Hook(c.status, BeginSql(c.status).via, a.res, a.session.txn)
    BY <2>2 DEF Exec
  <2>4. x.res \in Results /\ x.conn.status \in Status /\ x.conn.session \in Session
    BY <2>1, ExecType DEF Conns
  <2>5. r \in Outcomes
    BY <2>2, <2>4, StatusMoves DEF Outcome, AfterBegin, Return, Outcomes, Conns, Returns, Results
  <2>6. CASE x.res = "ok"
    BY <2>2, <2>4, <2>5, <2>6 DEF Outcome, AfterBegin, Return, Clean, Good, IncreaseDepth, Status
  <2>7. CASE x.res # "ok"
    <3>1. r.conn.status = x.conn.status /\ r.conn.session = a.session
      BY <2>2, <2>3, <2>7 DEF Outcome, AfterBegin, Return
    <3> SUFFICES ASSUME ~x.conn.status.in_error, x.conn.status.depth = 0
                 PROVE  a.session.txn \in {"idle", "lost"}
      BY <2>5, <3>1 DEF Good, Clean
    <3>2. (~c.status.in_error /\ c.status.depth = 0) \/ a.session.txn = "idle"
      BY <2>1, <2>3, HookIdle
    <3>3. CASE c.status.depth = 0
      <4>1. BeginSql(c.status).op = "begin" /\ c.session.txn \in {"idle", "lost"}
        BY <1>2, <3>3 DEF BeginSql, TransactionSql, Clean
      <4> QED BY <2>1, <2>3, <2>7, <4>1, QuietReplies
    <3> QED BY <3>2, <3>3
  <2> QED BY <2>6, <2>7
<1> QED BY <1>1, <1>2

(* After a commit or a rollback that the server agreed to.                   *)
LEMMA ExitIsClean ==
    ASSUME NEW before \in Status, IsOpen(before), NEW st \in Status, NEW s \in Session,
           before.depth = 1 => s.txn = "idle",
           ~st.in_error /\ st.depth = 0 => s.txn = "idle",
           IsOpen(st) /\ st.depth = 1 => s.txn = "idle"
    PROVE  Good(Outcome(AfterExit(before, st), s))
<1>1. CASE st.in_error
  <2>1. AfterExit(before, st) = Return("broken", st)
    BY <1>1 DEF AfterExit, IsOpen
  <2> QED BY <1>1, <2>1 DEF Return, Outcome, Good, Clean, Outcomes, Conns, Returns
<1>2. CASE IsOpen(st)
  <2>1. AfterExit(before, st) = Return("ok", DecreaseDepth(st)) /\ DecreaseDepth(st) \in Status
    BY <1>2, StatusMoves DEF AfterExit, IsOpen
  <2>2. DecreaseDepth(st).depth = 0 => st.depth = 1
    BY <1>2 DEF DecreaseDepth, Status, IsOpen
  <2> QED BY <1>2, <2>1, <2>2 DEF Return, Outcome, Good, Clean, Outcomes, Conns, Returns, Results
<1>3. CASE ~st.in_error /\ ~IsOpen(st)
  <2>1. st.depth = 0
    BY <1>3 DEF Status, IsOpen
  <2>2. AfterExit(before, st) \in {Return("ok", st), Return("not_in_transaction", st)}
    BY <1>3 DEF AfterExit
  <2> QED BY <1>3, <2>1, <2>2 DEF Return, Outcome, Good, Clean, Outcomes, Conns, Returns, Results
<1> QED BY <1>1, <1>2, <1>3

(* A hook leaves the depth alone, or says that there is no transaction.      *)
LEMMA HookDepth ==
    ASSUME NEW st \in Status, IsOpen(st), NEW via, NEW res, NEW txn
    PROVE  LET h == Hook(st, via, res, txn) IN
           h.in_error \/ h.depth = st.depth \/ (h.depth = 0 /\ txn = "idle")
<1>1. \A to \in BOOLEAN : SetRequiresRollback(st, to).depth = st.depth
  BY DEF SetRequiresRollback, Status
<1>2. InError.in_error /\ NoTransaction.depth = 0
  BY DEF InError, NoTransaction
<1>3. CASE Dialect = "Pg"
  BY <1>1, <1>2, <1>3 DEF Hook, PgHook
<1>4. CASE Dialect = "Mysql"
  BY <1>1, <1>4 DEF Hook, MysqlHook
<1>5. CASE Dialect \notin {"Pg", "Mysql"}
  BY <1>5 DEF Hook
<1> QED BY <1>3, <1>4, <1>5

(* What Exec gives to a call on an open transaction.                         *)
LEMMA ExecOpen ==
    ASSUME NEW c \in Conns, IsOpen(c.status), NEW stmt \in Stmt, NEW x \in Exec(c, stmt)
    PROVE  /\ x.res \in Results /\ x.conn \in Conns
           /\ \/ x.conn.status.in_error
              \/ x.conn.status.depth = c.status.depth
              \/ x.conn.status.depth = 0 /\ x.conn.session.txn = "idle"
           /\ stmt.op \in {"commit", "rollback"} /\ x.res = "ok" => x.conn.session.txn = "idle"
<1>1. PICK a \in Answers(c.session, stmt) :
         x = [res  |-> a.res,
              conn |-> [status  |-> Hook(c.status, stmt.via, a.res, a.session.txn),
                        session |-> a.session]]
  BY DEF Exec
<1>2. x.res \in Results /\ x.conn \in Conns
  BY ExecType
<1>3. c.status \in Status /\ c.session \in Session
  BY DEF Conns
<1>4. stmt.op \in {"commit", "rollback"} /\ x.res = "ok" => x.conn.session.txn = "idle"
  BY <1>1, <1>3, ClosingReplies
<1> DEFINE h == Hook(c.status, stmt.via, a.res, a.session.txn)
<1>5. x.conn.status = h /\ x.conn.session = a.session
  BY <1>1
<1>6. h.in_error \/ h.depth = c.status.depth \/ (h.depth = 0 /\ a.session.txn = "idle")
  BY <1>3, HookDepth
<1> HIDE DEF h
<1> QED BY <1>2, <1>4, <1>5, <1>6

(* A level less, and the flag up.                                            *)
LEMMA FlaggedMove ==
    ASSUME NEW st \in Status, st.depth > 1, NEW s \in Session, NEW ret \in Returns,
           NEW r, r = Outcome(Return(ret, [st EXCEPT !.depth = @ - 1, !.requires_rollback = TRUE]), s)
    PROVE  Good(r)
<1> DEFINE new == [st EXCEPT !.depth = @ - 1, !.requires_rollback = TRUE]
<1>1. new \in Status /\ new.depth # 0
  <2>1. st.depth - 1 \in Nat /\ st.depth - 1 # 0
    BY DEF Status
  <2> QED BY <2>1 DEF Status
<1> HIDE DEF new
<1>2. r = [ret |-> ret, conn |-> [status |-> new, session |-> s]]
  BY DEF Outcome, Return, new
<1>3. r \in Outcomes /\ r.conn.status = new
  BY <1>1, <1>2 DEF Outcomes, Conns
<1> QED BY <1>1, <1>3 DEF Good, Clean

LEMMA RollbackOutcomes ==
    ASSUME NEW c \in Conns, Clean(c), NEW r \in RollbackTransaction(c)
    PROVE  Good(r)
<1>1. CASE ~IsOpen(c.status)
  <2>1. r \in Refused("broken", c) \cup Refused("not_in_transaction", c)
    BY <1>1 DEF RollbackTransaction
  <2> QED BY <2>1 DEF Refused, Good, Outcomes, Returns
<1>2. CASE IsOpen(c.status)
  <2>1. c.status \in Status /\ RollbackSql(c.status) \in Stmt
    BY <1>2, SqlType DEF Conns
  <2>2. PICK x \in Exec(c, RollbackSql(c.status)) :
           r = Outcome(AfterRollback(c.status, x.conn.status, x.res), x.conn.session)
    BY <1>2 DEF RollbackTransaction, IsOpen
  <2> DEFINE st == x.conn.status
             s  == x.conn.session
  <2>3. /\ x.res \in Results /\ st \in Status /\ s \in Session
        /\ st.in_error \/ st.depth = c.status.depth \/ (st.depth = 0 /\ s.txn = "idle")
        /\ c.status.depth = 1 /\ x.res = "ok" => s.txn = "idle"
    BY <1>2, <2>1, ExecOpen DEF Conns, RollbackSql, TransactionSql
  <2>4. ~st.in_error /\ st.depth = 0 => s.txn = "idle"
    BY <1>2, <2>3 DEF IsOpen
  <2> HIDE DEF st, s
  <2>5. CASE x.res = "ok"
    <3>1. r = Outcome(AfterExit(c.status, st), s)
      BY <2>2, <2>5 DEF AfterRollback, st, s
    <3>2. IsOpen(st) /\ st.depth = 1 => s.txn = "idle"
      BY <2>3, <2>5 DEF IsOpen
    <3> QED BY <1>2, <2>1, <2>3, <2>4, <2>5, <3>1, <3>2, ExitIsClean
  <2>6. CASE x.res # "ok" /\ IsOpen(st) /\ st.depth > 1
    <3>1. r = Outcome(Return(IF c.status.requires_rollback THEN "ok" ELSE x.res,
                             [st EXCEPT !.depth = @ - 1, !.requires_rollback = TRUE]), s)
      BY <2>2, <2>6 DEF AfterRollback, st, s, NoTransaction
    <3>2. "ok" \in Returns /\ x.res \in Returns
      BY <2>3 DEF Returns, Results
    <3> QED BY <2>3, <2>6, <3>1, <3>2, FlaggedMove
  <2>7. CASE x.res # "ok" /\ ~(IsOpen(st) /\ st.depth > 1)
    <3>1. \/ r = Outcome(Return(x.res, st), s) /\ st = NoTransaction
          \/ r = Outcome(Return(x.res, InError), s)
      BY <2>2, <2>7 DEF AfterRollback, st, s
    <3>2. r \in Outcomes
      BY <2>3, <3>1, StatusConstants DEF Outcome, Return, Outcomes, Conns, Returns, Results
    <3> QED BY <2>4, <3>1, <3>2 DEF Outcome, Return, Good, Clean, NoTransaction, InError
  <2> QED BY <2>5, <2>6, <2>7
<1> QED BY <1>1, <1>2

(* A failed commit rolls back when the flag is up; when it is not, the
   transaction is as it was, or the hook has seen it end.                    *)
LEMMA FailedCommitOutcomes ==
    ASSUME NEW c \in Conns, Clean(c), NEW res \in Results, NEW r \in AfterFailedCommit(res, c)
    PROVE  Good(r)
<1>1. CASE ~(IsOpen(c.status) /\ c.status.requires_rollback)
  <2>1. r = [ret |-> res, conn |-> c]
    BY <1>1 DEF AfterFailedCommit
  <2> QED BY <2>1 DEF Good, Outcomes, Returns
<1>2. CASE IsOpen(c.status) /\ c.status.requires_rollback
  <2>1. PICK b \in RollbackTransaction(c) :
           r = IF b.ret = "ok" THEN [b EXCEPT !.ret = res]
               ELSE [ret  |-> "rollback_error_on_commit",
                     conn |-> [b.conn EXCEPT !.status = InError]]
    BY <1>2 DEF AfterFailedCommit
  <2>2. b \in Outcomes /\ Clean(b.conn)
    BY RollbackOutcomes DEF Good
  <2>3. CASE b.ret = "ok"
    <3>1. r.conn = b.conn /\ r \in Outcomes
      BY <2>1, <2>2, <2>3 DEF Outcomes, Returns
    <3> QED BY <2>2, <3>1 DEF Good
  <2>4. CASE b.ret # "ok"
    <3>1. r \in Outcomes /\ r.conn.status = InError
      BY <2>1, <2>2, <2>4, StatusConstants DEF Outcomes, Returns, Conns
    <3>2. InError.in_error
      BY DEF InError, NoTransaction
    <3> QED BY <3>1, <3>2 DEF Good, Clean
  <2> QED BY <2>3, <2>4
<1> QED BY <1>1, <1>2

LEMMA CommitOutcomes ==
    ASSUME NEW c \in Conns, Clean(c), NEW r \in CommitTransaction(c)
    PROVE  Good(r)
<1>1. CASE ~IsOpen(c.status)
  <2>1. r \in Refused("broken", c) \cup Refused("not_in_transaction", c)
    BY <1>1 DEF CommitTransaction
  <2> QED BY <2>1 DEF Refused, Good, Outcomes, Returns
<1>2. CASE IsOpen(c.status)
  <2>1. c.status \in Status /\ CommitSql(c.status) \in Stmt
    BY <1>2, SqlType DEF Conns
  <2>2. PICK x \in Exec(c, CommitSql(c.status)) :
           r \in IF x.res = "ok"
                 THEN {Outcome(AfterExit(c.status, x.conn.status), x.conn.session)}
                 ELSE AfterFailedCommit(x.res, x.conn)
    BY <1>2 DEF CommitTransaction, IsOpen
  <2> DEFINE st == x.conn.status
             s  == x.conn.session
  <2>3. /\ x.res \in Results /\ x.conn \in Conns /\ st \in Status /\ s \in Session
        /\ st.in_error \/ st.depth = c.status.depth \/ (st.depth = 0 /\ s.txn = "idle")
        /\ c.status.depth = 1 /\ x.res = "ok" => s.txn = "idle"
    BY <1>2, <2>1, ExecOpen DEF Conns, CommitSql, TransactionSql
  <2>4. ~st.in_error /\ st.depth = 0 => s.txn = "idle"
    BY <1>2, <2>3 DEF IsOpen
  <2>5. CASE x.res = "ok"
    <3>1. r = Outcome(AfterExit(c.status, st), s)
      BY <2>2, <2>5
    <3>2. IsOpen(st) /\ st.depth = 1 => s.txn = "idle"
      BY <2>3, <2>5 DEF IsOpen
    <3> HIDE DEF st, s
    <3> QED BY <1>2, <2>1, <2>3, <2>4, <2>5, <3>1, <3>2, ExitIsClean
  <2>6. CASE x.res # "ok"
    <3>1. Clean(x.conn)
      BY <2>4 DEF Clean
    <3> QED BY <2>2, <2>3, <2>6, <3>1, FailedCommitOutcomes
  <2> QED BY <2>5, <2>6
<1> QED BY <1>1, <1>2

LEMMA StatementOutcomes ==
    ASSUME NEW c \in Conns, Clean(c), NEW item \in Nat, NEW via \in Vias,
           NEW x \in Exec(c, Write(item, via))
    PROVE  x.res \in Results /\ x.conn \in Conns /\ Clean(x.conn)
<1> DEFINE stmt == Write(item, via)
<1>1. stmt \in Stmt /\ stmt.op = "write"
  BY DEF Write, Stmt, Ops
<1> HIDE DEF stmt
<1>2. PICK a \in Answers(c.session, stmt) :
         /\ x.res = a.res /\ x.conn.session = a.session
         /\ x.conn.status = Hook(c.status, stmt.via, a.res, a.session.txn)
  BY DEF Exec, stmt
<1>3. x.res \in Results /\ x.conn \in Conns
  BY <1>1, ExecType DEF stmt
<1>4. c.status \in Status /\ c.session \in Session
  BY DEF Conns
<1>5. ASSUME ~x.conn.status.in_error, x.conn.status.depth = 0
      PROVE  a.session.txn \in {"idle", "lost"}
  <2>1. (~c.status.in_error /\ c.status.depth = 0) \/ a.session.txn = "idle"
    BY <1>2, <1>4, <1>5, HookIdle
  <2>2. CASE c.session.txn \in {"idle", "lost"}
    BY <1>1, <1>4, <2>2, QuietReplies
  <2> QED BY <2>1, <2>2 DEF Clean
<1> QED BY <1>2, <1>3, <1>5 DEF Clean

-------------------------------------------------------------------------------
(* The closures and the fates.                                               *)

LEMMA SettleType ==
    ASSUME TypeOK, NEW items, NEW f \in Fates
    PROVE  /\ Settle(fate, items, f) \in Seq(Fates)
           /\ Len(Settle(fate, items, f)) <= MaxWrites
<1>1. fate \in Seq(Fates) /\ Len(fate) <= MaxWrites
  BY DEF TypeOK
<1> QED BY <1>1, SettleKeepsType

-------------------------------------------------------------------------------
(* The inductive invariant: the type invariant alone is not enough, because
   the depth goes down only while it is positive.                            *)
IInv == TypeOK /\ CleanWhenIdle

LEMMA InitIInv == Init => IInv
<1> SUFFICES ASSUME Init PROVE IInv
  OBVIOUS
<1>1. FreshSession \in Session
  BY DEF FreshSession, Session, Txn
<1>2. MaxWrites \in Nat
  BY BoundsAssumption
<1> QED BY <1>1, <1>2, StatusConstants
        DEF Init, IInv, TypeOK, CleanWhenIdle, Clean, FreshSession

(* transaction() that starts, for any way to send the BEGIN.                 *)
LEMMA OpenedIInv ==
    ASSUME IInv, NEW r, Good(r), NEW test \in BOOLEAN, Opened(r, test)
    PROVE  IInv'
<1>1. scopes \in Seq(Scope) /\ fate \in Seq(Fates) /\ Len(fate) <= MaxWrites /\ failures \in Nat
  BY DEF IInv, TypeOK
<1>2. conn' \in [status : Status, session : Session] /\ Clean(conn')
  BY DEF Opened, Good, Outcomes, Conns
<1>3. scopes' \in Seq(Scope)
  <2>1. NewScope(test) \in Scope
    BY DEF NewScope, Scope
  <2> QED BY <1>1, <2>1, AppendProperties, ScopesType DEF Opened
<1>4. failures' \in Nat /\ fate' = fate
  BY <1>1 DEF Opened, CountFailure
<1> QED BY <1>1, <1>2, <1>3, <1>4 DEF IInv, TypeOK, CleanWhenIdle, Clean

(* transaction() that returns Err.                                           *)
LEMMA FailsIInv ==
    ASSUME IInv, InScope, NEW r, Good(r), conn' = r.conn, Fails(r)
    PROVE  IInv'
<1>1. scopes \in Seq(Scope) /\ failures \in Nat /\ scopes # <<>>
  BY DEF IInv, TypeOK, InScope
<1>2. conn' \in [status : Status, session : Session] /\ Clean(conn')
  BY DEF Good, Outcomes, Conns
<1>3. scopes' \in Seq(Scope)
  BY <1>1, ScopesType DEF Fails
<1>4. fate' \in Seq(Fates) /\ Len(fate') <= MaxWrites
  <2>1. \A items : \A f \in Fates : /\ Settle(fate, items, f) \in Seq(Fates)
                                   /\ Len(Settle(fate, items, f)) <= MaxWrites
    BY SettleType DEF IInv
  <2> QED BY <2>1 DEF Fails, Fates
<1>5. failures' \in Nat
  BY <1>1 DEF Fails
<1> QED BY <1>2, <1>3, <1>4, <1>5 DEF IInv, TypeOK, CleanWhenIdle, Clean

LEMMA NextIInv == IInv /\ [Next]_vars => IInv'
<1> SUFFICES ASSUME IInv, [Next]_vars PROVE IInv'
  OBVIOUS
<1>1. /\ conn \in Conns /\ Clean(conn) /\ scopes \in Seq(Scope)
      /\ fate \in Seq(Fates) /\ Len(fate) \in Nat /\ Len(fate) <= MaxWrites
      /\ failures \in Nat /\ MaxWrites \in Nat
  BY BoundsAssumption, LenProperties DEF IInv, TypeOK, CleanWhenIdle, Conns
<1>2. CASE Begin
  BY <1>1, <1>2, BeginOutcomes, OpenedIInv DEF Begin
<1>3. CASE BeginSqlTransaction
  <2>1. PICK r \in BeginTransactionSql(conn) : Opened(r, FALSE)
    BY <1>3 DEF BeginSqlTransaction
  <2>2. CASE IsOpen(conn.status)
    <3>1. r = [ret |-> "already_in_transaction", conn |-> conn]
      BY <2>1, <2>2 DEF BeginTransactionSql, Refused
    <3>2. Good(r)
      BY <1>1, <3>1 DEF Good, Outcomes, Returns
    <3> QED BY <2>1, <3>2, OpenedIInv
  <2>3. CASE ~IsOpen(conn.status)
    <3>1. r \in BeginTransaction(conn)
      BY <2>1, <2>3 DEF BeginTransactionSql
    <3> QED BY <1>1, <2>1, <3>1, BeginOutcomes, OpenedIInv
  <2> QED BY <2>2, <2>3
<1>4. CASE BeginTestTransaction
  <2>1. PICK r \in BeginTransaction(conn) :
           Opened(IF r.ret = "ok" THEN [r EXCEPT !.conn.status = SetTestTransactionFlag(@)] ELSE r,
                  TRUE)
    BY <1>4 DEF BeginTestTransaction
  <2>2. r \in Outcomes /\ Clean(r.conn)
    BY <1>1, BeginOutcomes DEF Good
  <2> DEFINE st == r.conn.status
             flagged == SetTestTransactionFlag(st)
             q == [r EXCEPT !.conn.status = flagged]
  <2>3. flagged \in Status /\ flagged.depth = st.depth /\ flagged.in_error = st.in_error
    BY <2>2, StatusMoves DEF Outcomes, Conns, SetTestTransactionFlag, Status
  <2> HIDE DEF flagged
  <2>4. q = [ret |-> r.ret, conn |-> [status |-> flagged, session |-> r.conn.session]]
    BY <2>2 DEF Outcomes, Conns
  <2> HIDE DEF q
  <2>5. Good(q)
    BY <2>2, <2>3, <2>4 DEF Good, Outcomes, Conns, Clean
  <2>6. Good(IF r.ret = "ok" THEN q ELSE r)
    BY <2>2, <2>5 DEF Good
  <2>7. Opened(IF r.ret = "ok" THEN q ELSE r, TRUE)
    BY <2>1 DEF q, flagged
  <2> QED BY <2>6, <2>7, OpenedIInv
<1>5. CASE Statement
  <2> DEFINE Result(r) ==
           /\ conn' = r.conn
           /\ IF r.res = "ok"
              THEN /\ fate' = Append(fate, IF InScope THEN "pending" ELSE "auto")
                   /\ scopes' = IF InScope
                                THEN [scopes EXCEPT ![Len(scopes)].wrote = @ \cup {Len(fate) + 1}]
                                ELSE scopes
              ELSE /\ scopes' = NoteFailure(scopes)
                   /\ UNCHANGED fate
           /\ CountFailure(r.res)
  <2>0. PICK via \in StatementVias : \E r \in Exec(conn, Write(Len(fate) + 1, via)) : Result(r)
    BY <1>5 DEF Statement
  <2>1. PICK r \in Exec(conn, Write(Len(fate) + 1, via)) : Result(r)
    BY <2>0
  <2>2. Len(fate) + 1 \in Items /\ Len(fate) + 1 \in Nat
    BY <1>1, <1>5 DEF Statement, Items
  <2>3. conn' \in Conns /\ Clean(conn')
    BY <1>1, <2>1, <2>2, ViasAssumption, StatementOutcomes
  <2>4. failures' \in Nat
    BY <1>1, <2>1 DEF CountFailure
  <2>5. CASE r.res = "ok"
    <3>1. fate' \in Seq(Fates) /\ Len(fate') <= MaxWrites
      <4>1. (IF InScope THEN "pending" ELSE "auto") \in Fates
        BY DEF Fates
      <4>2. Len(fate') = Len(fate) + 1 /\ fate' \in Seq(Fates)
        BY <1>1, <2>1, <2>5, <4>1, AppendProperties
      <4> QED BY <2>2, <4>2 DEF Items
    <3>2. scopes' \in Seq(Scope)
      <4>1. CASE InScope
        <5> DEFINE n == Len(scopes)
                   e == [scopes[n] EXCEPT !.wrote = @ \cup {Len(fate) + 1}]
        <5>1. scopes # <<>> /\ n \in 1..n /\ scopes[n] \in Scope
          BY <1>1, <4>1, EmptySeq, ScopesType DEF InScope
        <5>2. e \in Scope
          BY <2>2, <5>1 DEF Scope
        <5>3. scopes' = [scopes EXCEPT ![n] = e]
          BY <2>1, <2>5, <4>1
        <5> HIDE DEF e
        <5> QED BY <1>1, <5>1, <5>2, <5>3, ExceptSeq
      <4>2. CASE ~InScope
        BY <1>1, <2>1, <2>5, <4>2
      <4> QED BY <4>1, <4>2
    <3> QED BY <2>3, <2>4, <3>1, <3>2 DEF IInv, TypeOK, CleanWhenIdle, Clean, Conns
  <2>6. CASE r.res # "ok"
    <3>1. scopes' \in Seq(Scope) /\ fate' = fate
      BY <1>1, <2>1, <2>6, ScopesType
    <3> QED BY <1>1, <2>3, <2>4, <3>1 DEF IInv, TypeOK, CleanWhenIdle, Clean, Conns
  <2> QED BY <2>5, <2>6
<1>6. CASE CloseOk
  <2>1. PICK r \in CommitTransaction(conn) :
           /\ conn' = r.conn
           /\ IF r.ret = "ok"
              THEN /\ scopes' = Merge(scopes)
                   /\ fate' = IF Len(scopes) > 1 THEN fate
                              ELSE Settle(fate, TopScope.wrote,
                                          IF TopScope.failed THEN "swallowed" ELSE "kept")
                   /\ UNCHANGED failures
              ELSE Fails(r)
    BY <1>6 DEF CloseOk
  <2>2. Good(r) /\ InScope
    BY <1>1, <1>6, CommitOutcomes DEF CloseOk, Closable
  <2>3. CASE r.ret = "ok"
    <3>1. scopes' \in Seq(Scope)
      BY <1>1, <2>1, <2>2, <2>3, MergeType DEF InScope
    <3>2. fate' \in Seq(Fates) /\ Len(fate') <= MaxWrites
      <4>1. \A items : \A f \in Fates : /\ Settle(fate, items, f) \in Seq(Fates)
                                       /\ Len(Settle(fate, items, f)) <= MaxWrites
        BY SettleType DEF IInv
      <4>2. (IF TopScope.failed THEN "swallowed" ELSE "kept") \in Fates
        BY DEF Fates
      <4> QED BY <1>1, <2>1, <2>3, <4>1, <4>2
    <3> QED BY <1>1, <2>1, <2>2, <2>3, <3>1, <3>2
            DEF IInv, TypeOK, CleanWhenIdle, Clean, Conns, Good, Outcomes
  <2>4. CASE r.ret # "ok"
    BY <2>1, <2>2, <2>4, FailsIInv
  <2> QED BY <2>3, <2>4
<1>7. CASE CloseErr
  BY <1>1, <1>7, RollbackOutcomes, FailsIInv DEF CloseErr, Closable
<1>8. CASE UNCHANGED vars
  BY <1>8 DEF vars, IInv, TypeOK, CleanWhenIdle, Clean
<1> QED BY <1>2, <1>3, <1>4, <1>5, <1>6, <1>7, <1>8 DEF Next

(* The inductive invariant holds in every reachable state of the manager.   *)
THEOREM IInvHolds == Spec => []IInv
BY InitIInv, NextIInv, PTL DEF Spec

(* Every variable of AnsiTransactionManager keeps its type, whatever the
   server answers: the depth in particular, which change_transaction_depth
   keeps in a NonZeroU32, never goes below zero.                             *)
THEOREM TypeCorrect == Spec => []TypeOK
<1>1. IInv => TypeOK
  BY DEF IInv
<1> QED BY <1>1, IInvHolds, PTL

(* When the manager says that no transaction is open, and a pool may hand
   the connection on (is_broken_transaction_manager is false), the server
   has none open, for every database, every failure and every nesting.       *)
THEOREM CleanWhenIdleHolds == Spec => []CleanWhenIdle
<1>1. IInv => CleanWhenIdle
  BY DEF IInv
<1> QED BY <1>1, IInvHolds, PTL

-------------------------------------------------------------------------------
(* Each call over a database that obeys: what it leaves of the session.    *)

(* The databases whose transactions end only when they are told to: they are
   PostgreSQL, and SQLite without the failures that roll back on their own.  *)
Obedient == Dialect = "Pg" \/ (Dialect = "Sqlite" /\ "abandon" \notin Faults)

(* The manager and the session agree on whether a transaction is open.      *)
Agrees(c) ==
    /\ c \in Conns
    /\ c.session.txn \in (IF Dialect = "Pg" THEN {"idle", "open", "aborted", "lost"}
                          ELSE {"idle", "open"})
    /\ c.status.in_error => c.session.txn = "lost"
    /\ c.session.txn # "lost" => (c.session.txn = "idle" <=> c.status.depth = 0)
    /\ c.session.txn \in {"idle", "lost"} => c.session.work = {}

SameLevels(c, k) == (k.status.in_error <=> c.status.in_error) /\ k.status.depth = c.status.depth

(* A call changes nothing, but that PostgreSQL may refuse what follows.     *)
Refusal(c, k) ==
    /\ SameLevels(c, k)
    /\ \/ k.session = c.session
       \/ Dialect = "Pg" /\ c.session.txn = "open" /\ k.session = [c.session EXCEPT !.txn = "aborted"]

(* The connection breaks.                                                   *)
Breaks(c, k) ==
    /\ Dialect = "Pg" /\ k.session.txn = "lost" /\ k.session.work = {}
    /\ k.status.in_error \/ SameLevels(c, k)

-------------------------------------------------------------------------------
(* A hook lowers the depth only when the transaction is over.               *)
LEMMA HookLevels ==
    ASSUME Obedient, NEW st \in Status, NEW via, NEW res, NEW txn,
           NEW h, h = Hook(st, via, res, txn)
    PROVE  /\ h \in Status
           /\ txn \in {"open", "aborted"} /\ IsOpen(st) => ~h.in_error /\ h.depth = st.depth
           /\ txn = "idle" /\ ~st.in_error /\ st.depth = 0 => ~h.in_error /\ h.depth = 0
           /\ txn = "idle" /\ Dialect = "Pg" /\ via = "batch" => h = NoTransaction
           /\ Dialect = "Sqlite" => h = st
           /\ txn = "lost" => h.in_error \/ ((h.in_error <=> st.in_error) /\ h.depth = st.depth)
           /\ txn = "lost" /\ Dialect = "Pg" /\ via = "batch" => h.in_error
           /\ txn = "open" /\ res = "ok" => (h.in_error <=> st.in_error) /\ h.depth = st.depth
           /\ txn = "aborted" /\ via = "batch" /\ IsOpen(st) /\ Dialect = "Pg" => h.requires_rollback
<1>1. \A to \in BOOLEAN : /\ SetRequiresRollback(st, to) \in Status
                          /\ SetRequiresRollback(st, to).depth = st.depth
                          /\ SetRequiresRollback(st, to).in_error = st.in_error
                          /\ IsOpen(st) => SetRequiresRollback(st, to).requires_rollback = to
  BY DEF SetRequiresRollback, Status
<1>2. /\ InError.in_error /\ InError \in Status
      /\ ~NoTransaction.in_error /\ NoTransaction.depth = 0 /\ NoTransaction \in Status
  BY StatusConstants DEF InError, NoTransaction
<1>3. CASE Dialect = "Pg"
  <2>1. h = PgHook(st, via, res, txn)
    BY <1>3 DEF Hook
  <2> HIDE DEF NoTransaction, InError, SetRequiresRollback
  <2> QED BY <1>1, <1>2, <1>3, <2>1 DEF PgHook, IsOpen
<1>4. CASE Dialect = "Sqlite"
  <2>1. h = st
    BY <1>4 DEF Hook
  <2> QED BY <1>4, <2>1 DEF IsOpen
<1> QED BY <1>3, <1>4 DEF Obedient

Engaged(s) == s.txn \in {"open", "aborted"}

Valid(k, d) == ~k.status.in_error /\ k.status.depth = d

(* The connection is gone, and the manager knows.                           *)
Broken(k) == Dialect = "Pg" /\ k.status.in_error /\ k.session.txn = "lost" /\ k.session.work = {}

(* What Exec gives to a statement that batch_execute sends.                 *)
LEMMA ExecBatch ==
    ASSUME Obedient, NEW c, Agrees(c), NEW stmt \in Stmt, stmt.via = "batch",
           NEW x \in Exec(c, stmt)
    PROVE  /\ x.res \in Results /\ x.conn \in Conns
           /\ \/ /\ x.res = "lost" /\ Broken(x.conn)
                 /\ \/ x.conn.session.durable = c.session.durable
                    \/ /\ c.session.txn # "lost"
                       /\ \E b \in ServerReplies(c.session, stmt) :
                             x.conn.session.durable = b.session.durable
              \/ /\ c.session.txn # "lost"
                 /\ \E a \in ServerReplies(c.session, stmt) :
                       /\ x.res = a.res /\ x.conn.session = a.session
                       /\ x.conn.status = Hook(c.status, "batch", a.res, a.session.txn)
<1>0. c \in Conns /\ c.status \in Status /\ c.session \in Session
  BY DEF Agrees, Conns
<1>1. PICK a \in Answers(c.session, stmt) :
         /\ x.res = a.res /\ x.conn.session = a.session
         /\ x.conn.status = Hook(c.status, "batch", a.res, a.session.txn)
  BY DEF Exec
<1>2. x.res \in Results /\ x.conn \in Conns
  BY <1>0, ExecType
<1>3. Dialect = "Pg" => PgHook(c.status, "batch", a.res, "lost").in_error
  BY DEF PgHook, InError, NoTransaction
<1>4. CASE c.session.txn = "lost"
  <2>1. a = Reply("lost", c.session) /\ Dialect = "Pg" /\ c.session.work = {}
    BY <1>4 DEF Answers, Agrees
  <2>2. a.res = "lost" /\ a.session = c.session
    BY <2>1 DEF Reply
  <2> QED BY <1>1, <1>2, <1>3, <1>4, <2>1, <2>2 DEF Broken, Hook
<1>5. CASE c.session.txn # "lost" /\ a \in LostReplies(c.session, stmt)
  <2>1. /\ Dialect \in {"Pg", "Mysql"}
        /\ a.res = "lost" /\ a.session.txn = "lost" /\ a.session.work = {}
        /\ \/ a.session.durable = c.session.durable
           \/ \E b \in ServerReplies(c.session, stmt) : a.session.durable = b.session.durable
    BY <1>0, <1>5, LostAnswers
  <2>2. Dialect = "Pg"
    BY <2>1 DEF Obedient
  <2> QED BY <1>1, <1>2, <1>3, <1>5, <2>1, <2>2 DEF Broken, Hook
<1>6. CASE c.session.txn # "lost" /\ a \in ServerReplies(c.session, stmt)
  BY <1>1, <1>2, <1>6
<1> QED BY <1>4, <1>5, <1>6 DEF Answers

LEMMA AgreesIsClean == \A c : Agrees(c) => Clean(c)
BY DEF Agrees, Clean

(* What a BEGIN or a SAVEPOINT may come to.                                 *)
BeginCases(c, r) ==
    /\ r \in Outcomes /\ Agrees(r.conn)
    /\ r.conn.session.durable = c.session.durable
    /\ \/ /\ r.ret = "ok" /\ ~c.status.in_error /\ Valid(r.conn, c.status.depth + 1)
          /\ \/ /\ c.session.txn = "idle" /\ c.status.depth = 0
                /\ r.conn.session = [c.session EXCEPT !.txn = "open"]
             \/ /\ c.session.txn = "open" /\ c.status.depth > 0
                /\ r.conn.session = SavepointSet(c.session, c.status.depth)
       \/ r.ret # "ok" /\ Refusal(c, r.conn)
       \/ r.ret # "ok" /\ Breaks(c, r.conn)

(* The replies to BEGIN and SAVEPOINT.                                      *)
LEMMA BeginReplyCases ==
    ASSUME Obedient, NEW c, Agrees(c), ~c.status.in_error, c.session.txn # "lost",
           NEW a \in ServerReplies(c.session, BeginSql(c.status))
    PROVE  \/ /\ a.res = "ok" /\ c.session.txn = "idle" /\ c.status.depth = 0
              /\ a.session = [c.session EXCEPT !.txn = "open"]
           \/ /\ a.res = "ok" /\ c.session.txn = "open" /\ c.status.depth > 0
              /\ a.session = SavepointSet(c.session, c.status.depth)
           \/ a.res # "ok" /\ a.session \in {c.session, AfterError(c.session)}
<1>0. c.session \in Session /\ c.status.depth \in Nat
  BY DEF Agrees, Conns, Status
<1>1. CASE c.status.depth = 0
  <2>1. c.session.txn = "idle"
    BY <1>1 DEF Agrees
  <2>2. a \in BeginReplies(c.session)
    BY <1>1 DEF BeginSql, TransactionSql, ServerReplies
  <2> QED BY <1>1, <2>1, <2>2 DEF BeginReplies, Fault, Reply
<1>2. CASE c.status.depth # 0
  <2>1. c.session.txn \in {"open", "aborted"} /\ c.status.depth > 0
    BY <1>0, <1>2 DEF Agrees
  <2>2. a \in SavepointReplies(c.session, c.status.depth)
    BY <1>2 DEF BeginSql, TransactionSql, ServerReplies
  <2> QED BY <2>1, <2>2 DEF SavepointReplies, Fault, Reply
<1> QED BY <1>1, <1>2

LEMMA BeginLevels ==
    ASSUME Obedient, NEW c, Agrees(c), NEW r \in BeginTransaction(c)
    PROVE  BeginCases(c, r)
<1>0. c \in Conns /\ c.status \in Status /\ c.session \in Session /\ c.status.depth \in Nat
  BY DEF Agrees, Conns, Status
<1>r. r \in Outcomes
  BY <1>0, AgreesIsClean, BeginOutcomes DEF Good
<1>1. CASE c.status.in_error
  BY <1>0, <1>1, <1>r DEF BeginTransaction, Refused, BeginCases, Refusal, SameLevels
<1>2. CASE ~c.status.in_error
  <2> DEFINE stmt == BeginSql(c.status)
  <2>1. stmt \in Stmt /\ stmt.via = "batch"
    BY <1>0, SqlType DEF BeginSql, TransactionSql
  <2>2. PICK x \in Exec(c, stmt) : r = Outcome(AfterBegin(x.conn.status, x.res), x.conn.session)
    BY <1>2 DEF BeginTransaction
  <2> HIDE DEF stmt
  <2>3. x.res \in Results /\ x.conn \in Conns /\ x.conn.status \in Status /\ x.conn.session \in Session
    BY <1>0, <2>1, ExecType DEF Conns
  <2>4. r.conn.session = x.conn.session
    BY <2>2, <2>3 DEF Outcome
  <2>5. x.res # "ok" => r.ret # "ok" /\ r.conn = x.conn
    BY <2>2, <2>3 DEF Outcome, AfterBegin, Return, Conns
  <2>6. CASE /\ x.res = "lost" /\ Broken(x.conn)
             /\ \/ x.conn.session.durable = c.session.durable
                \/ /\ c.session.txn # "lost"
                   /\ \E b \in ServerReplies(c.session, stmt) :
                         x.conn.session.durable = b.session.durable
    <3>1. x.conn.session.durable = c.session.durable
      <4>1. CASE /\ c.session.txn # "lost"
                 /\ \E b \in ServerReplies(c.session, stmt) :
                         x.conn.session.durable = b.session.durable
        <5>1. PICK b \in ServerReplies(c.session, stmt) : x.conn.session.durable = b.session.durable
          BY <4>1
        <5>2. \/ b.session = [c.session EXCEPT !.txn = "open"]
              \/ b.session = SavepointSet(c.session, c.status.depth)
              \/ b.session \in {c.session, AfterError(c.session)}
          BY <1>2, <4>1, <5>1, BeginReplyCases DEF stmt
        <5>3. /\ [c.session EXCEPT !.txn = "open"].durable = c.session.durable
              /\ SavepointSet(c.session, c.status.depth).durable = c.session.durable
              /\ AfterError(c.session).durable = c.session.durable
          BY <1>0, ErrorMoves DEF SavepointSet, Session
        <5>4. b.session.durable = c.session.durable
          BY <5>2, <5>3
        <5> QED BY <5>1, <5>4
      <4> QED BY <2>6, <4>1
    <3>2. Agrees(x.conn)
      BY <2>3, <2>6 DEF Agrees, Broken
    <3> QED BY <1>r, <2>5, <2>6, <3>1, <3>2 DEF BeginCases, Breaks, Broken
  <2>7. CASE /\ c.session.txn # "lost"
             /\ \E a \in ServerReplies(c.session, stmt) :
                   /\ x.res = a.res /\ x.conn.session = a.session
                   /\ x.conn.status = Hook(c.status, "batch", a.res, a.session.txn)
    <3>1. PICK a \in ServerReplies(c.session, stmt) :
                   /\ x.res = a.res /\ x.conn.session = a.session
                   /\ x.conn.status = Hook(c.status, "batch", a.res, a.session.txn)
      BY <2>7
    <3> DEFINE h == Hook(c.status, "batch", a.res, a.session.txn)
    <3>2. /\ h \in Status
          /\ a.session.txn \in {"open", "aborted"} /\ IsOpen(c.status) => ~h.in_error /\ h.depth = c.status.depth
          /\ a.session.txn = "idle" /\ ~c.status.in_error /\ c.status.depth = 0 => ~h.in_error /\ h.depth = 0
          /\ a.session.txn = "open" /\ a.res = "ok" =>
                (h.in_error <=> c.status.in_error) /\ h.depth = c.status.depth
      BY <1>0, HookLevels
    <3> HIDE DEF h
    <3>3. x.conn.status = h
      BY <3>1 DEF h
    <3>4. CASE a.res = "ok"
      <4>1. /\ a.session.txn = "open" /\ a.session.durable = c.session.durable
            /\ \/ /\ c.session.txn = "idle" /\ c.status.depth = 0
                  /\ a.session = [c.session EXCEPT !.txn = "open"]
               \/ /\ c.session.txn = "open" /\ c.status.depth > 0
                  /\ a.session = SavepointSet(c.session, c.status.depth)
        <5>1. \/ /\ c.session.txn = "idle" /\ c.status.depth = 0
                 /\ a.session = [c.session EXCEPT !.txn = "open"]
              \/ /\ c.session.txn = "open" /\ c.status.depth > 0
                 /\ a.session = SavepointSet(c.session, c.status.depth)
          BY <1>2, <2>7, <3>1, <3>4, BeginReplyCases DEF stmt
        <5> QED BY <1>0, <5>1 DEF SavepointSet, Session
      <4>2. ~h.in_error /\ h.depth = c.status.depth
        BY <1>2, <3>2, <3>4, <4>1
      <4>3. r.ret = "ok" /\ r.conn.status = IncreaseDepth(h)
        BY <2>2, <3>1, <3>3, <3>4, <4>2 DEF Outcome, AfterBegin, Return
      <4>4. ~r.conn.status.in_error /\ r.conn.status.depth = c.status.depth + 1
        BY <3>2, <4>2, <4>3 DEF IncreaseDepth, Status
      <4>5. Agrees(r.conn)
        <5>1. r.conn \in Conns
          BY <1>r DEF Outcomes
        <5>2. r.conn.status.depth # 0
          BY <1>0, <4>4
        <5> QED BY <2>4, <3>1, <4>1, <4>4, <5>1, <5>2 DEF Agrees
      <4> QED BY <1>2, <1>r, <2>4, <3>1, <4>1, <4>3, <4>4, <4>5 DEF BeginCases, Valid
    <3>5. CASE a.res # "ok"
      <4>1. a.session \in {c.session, AfterError(c.session)}
        BY <1>2, <2>7, <3>1, <3>5, BeginReplyCases DEF stmt
      <4>2. /\ a.session.durable = c.session.durable /\ a.session.work = c.session.work
            /\ \/ a.session = c.session
               \/ /\ Dialect = "Pg" /\ c.session.txn = "open" /\ a.session = [c.session EXCEPT !.txn = "aborted"]
                  /\ a.session.txn = "aborted"
        BY <1>0, <4>1, ErrorMoves
      <4>3. ~h.in_error /\ h.depth = c.status.depth
        <5>1. CASE c.session.txn = "idle"
          BY <1>2, <3>2, <4>2, <5>1 DEF Agrees
        <5>2. CASE c.session.txn \in {"open", "aborted"}
          <6>1. IsOpen(c.status) /\ a.session.txn \in {"open", "aborted"}
            BY <1>0, <1>2, <4>2, <5>2 DEF Agrees, IsOpen
          <6> QED BY <3>2, <6>1
        <5> QED BY <2>7, <5>1, <5>2 DEF Agrees
      <4>4. r.ret # "ok" /\ r.conn = x.conn
        BY <2>5, <3>1, <3>5
      <4>5. Agrees(x.conn)
        BY <2>3, <2>7, <3>1, <3>3, <4>2, <4>3 DEF Agrees
      <4>6. Refusal(c, x.conn)
        BY <1>2, <3>1, <3>3, <4>2, <4>3 DEF Refusal, SameLevels
      <4> QED BY <1>r, <3>1, <4>2, <4>4, <4>5, <4>6 DEF BeginCases
    <3> QED BY <3>4, <3>5
  <2> QED BY <2>1, <2>6, <2>7, ExecBatch
<1> QED BY <1>1, <1>2

(* A data statement.                                                        *)
LEMMA WriteReplyCases ==
    ASSUME Obedient, NEW c, Agrees(c), c.session.txn # "lost", NEW item \in Nat, NEW via \in Vias,
           NEW a \in ServerReplies(c.session, Write(item, via))
    PROVE  \/ /\ a.res = "ok" /\ c.session.txn \in {"idle", "open"}
              /\ a.session = Written(c.session, item)
           \/ a.res # "ok" /\ a.session \in {c.session, AfterError(c.session)}
<1>1. a \in WriteReplies(c.session, item)
  BY DEF Write, ServerReplies
<1>2. c.session.txn \in {"idle", "open", "aborted"}
  BY DEF Agrees
<1> QED BY <1>1, <1>2 DEF WriteReplies, Fault, Reply, Obedient

LEMMA StatementLevels ==
    ASSUME Obedient, NEW c, Agrees(c), NEW item \in Nat, NEW via \in Vias,
           NEW r \in Exec(c, Write(item, via))
    PROVE  /\ Agrees(r.conn)
           /\ \/ /\ r.res = "ok" /\ SameLevels(c, r.conn) /\ c.session.txn \in {"idle", "open"}
                 /\ r.conn.session = Written(c.session, item)
              \/ /\ r.res # "ok" /\ Refusal(c, r.conn)
                 /\ r.conn.session.durable = c.session.durable
              \/ /\ r.res # "ok" /\ Breaks(c, r.conn)
                 /\ \/ r.conn.session.durable = c.session.durable
                    \/ /\ c.session.txn = "idle"
                       /\ r.conn.session.durable = c.session.durable \cup {item}
<1> DEFINE stmt == Write(item, via)
<1>0. /\ c \in Conns /\ c.status \in Status /\ c.session \in Session /\ c.status.depth \in Nat
      /\ stmt \in Stmt /\ stmt.via = via
  BY DEF Agrees, Conns, Status, Write, Stmt, Ops
<1>1. PICK a \in Answers(c.session, stmt) :
         /\ r.res = a.res /\ r.conn.session = a.session
         /\ r.conn.status = Hook(c.status, stmt.via, a.res, a.session.txn)
  BY DEF Exec
<1>2. r.res \in Results /\ r.conn \in Conns
  BY <1>0, ExecType
<1> HIDE DEF stmt
<1> DEFINE h == Hook(c.status, via, a.res, a.session.txn)
<1>3. /\ h \in Status
      /\ a.session.txn \in {"open", "aborted"} /\ IsOpen(c.status) => ~h.in_error /\ h.depth = c.status.depth
      /\ a.session.txn = "idle" /\ ~c.status.in_error /\ c.status.depth = 0 => ~h.in_error /\ h.depth = 0
      /\ a.session.txn = "lost" => h.in_error \/ ((h.in_error <=> c.status.in_error) /\ h.depth = c.status.depth)
  BY <1>0, HookLevels
<1> HIDE DEF h
<1>4. r.conn.status = h
  BY <1>0, <1>1 DEF h
<1>5. CASE c.session.txn = "lost"
  <2>1. a.res = "lost" /\ a.session = c.session
    BY <1>5 DEF Answers, Reply
  <2>2. Dialect = "Pg" /\ c.session.work = {}
    BY <1>5 DEF Agrees
  <2>3. Breaks(c, r.conn)
    BY <1>1, <1>3, <1>4, <1>5, <2>1, <2>2 DEF Breaks, SameLevels
  <2>4. Agrees(r.conn)
    BY <1>1, <1>2, <1>5, <2>1, <2>2 DEF Agrees
  <2> QED BY <1>1, <2>1, <2>3, <2>4
<1>6. CASE c.session.txn # "lost" /\ a \in LostReplies(c.session, stmt)
  <2>1. /\ Dialect \in {"Pg", "Mysql"}
        /\ a.res = "lost" /\ a.session.txn = "lost" /\ a.session.work = {}
        /\ \/ a.session.durable = c.session.durable
           \/ \E b \in ServerReplies(c.session, stmt) : a.session.durable = b.session.durable
    BY <1>0, <1>6, LostAnswers
  <2>2. Dialect = "Pg"
    BY <2>1 DEF Obedient
  <2>3. \/ a.session.durable = c.session.durable
        \/ /\ c.session.txn = "idle"
           /\ a.session.durable = c.session.durable \cup {item}
    <3>1. ASSUME NEW b \in ServerReplies(c.session, stmt), a.session.durable = b.session.durable
          PROVE  \/ a.session.durable = c.session.durable
                 \/ /\ c.session.txn = "idle"
                    /\ a.session.durable = c.session.durable \cup {item}
      <4>1. b.session \in {c.session, AfterError(c.session), Written(c.session, item)}
        BY <1>6, <3>1, WriteReplyCases DEF stmt
      <4> QED BY <1>0, <3>1, <4>1, ErrorMoves, WrittenIs
    <3> QED BY <2>1, <3>1
  <2>4. Breaks(c, r.conn)
    BY <1>1, <1>3, <1>4, <2>1, <2>2 DEF Breaks, SameLevels
  <2>5. Agrees(r.conn)
    BY <1>1, <1>2, <2>1, <2>2 DEF Agrees
  <2> QED BY <1>1, <2>1, <2>3, <2>4, <2>5
<1>7. CASE c.session.txn # "lost" /\ a \in ServerReplies(c.session, stmt)
  <2>0. \/ c.session.txn = "idle" /\ ~c.status.in_error /\ c.status.depth = 0
        \/ c.session.txn \in {"open", "aborted"} /\ IsOpen(c.status)
    BY <1>0, <1>7 DEF Agrees, IsOpen
  <2>1. CASE a.res = "ok" /\ c.session.txn \in {"idle", "open"} /\ a.session = Written(c.session, item)
    <3>1. a.session.txn = c.session.txn /\ (c.session.txn = "idle" => a.session.work = c.session.work)
      BY <1>0, <2>1, WrittenIs
    <3>2. SameLevels(c, r.conn)
      BY <1>3, <1>4, <2>0, <3>1 DEF SameLevels, IsOpen
    <3>3. Agrees(r.conn)
      BY <1>1, <1>2, <1>7, <3>1, <3>2 DEF Agrees, SameLevels
    <3> QED BY <1>1, <2>1, <3>2, <3>3
  <2>2. CASE a.res # "ok" /\ a.session \in {c.session, AfterError(c.session)}
    <3>1. /\ a.session.durable = c.session.durable /\ a.session.work = c.session.work
          /\ \/ a.session = c.session
             \/ /\ Dialect = "Pg" /\ c.session.txn = "open" /\ a.session = [c.session EXCEPT !.txn = "aborted"]
                /\ a.session.txn = "aborted"
      BY <1>0, <2>2, ErrorMoves
    <3>2. SameLevels(c, r.conn)
      BY <1>3, <1>4, <2>0, <3>1 DEF SameLevels, IsOpen
    <3>3. Agrees(r.conn)
      BY <1>1, <1>2, <1>7, <3>1, <3>2 DEF Agrees, SameLevels
    <3> QED BY <1>1, <2>2, <3>1, <3>2, <3>3 DEF Refusal
  <2> QED BY <1>0, <1>7, <2>1, <2>2, WriteReplyCases DEF stmt
<1> QED BY <1>5, <1>6, <1>7 DEF Answers

-------------------------------------------------------------------------------
(* A level that is undone.                                                  *)
RolledBack(c, r) ==
    /\ c.status.depth = 1 \/ c.status.requires_rollback => r.ret = "ok"
    /\ IF c.status.depth = 1
       THEN Valid(r.conn, 0) /\ r.conn.session = Closed(c.session)
       ELSE /\ Valid(r.conn, c.status.depth - 1)
            /\ IF SavesAt(c.session, c.status.depth - 1) # {}
               THEN r.ret = "ok" /\ r.conn.session = RolledBackTo(c.session, c.status.depth - 1)
               ELSE r.conn.session = AfterError(c.session)

LEMMA RollbackReplyCases ==
    ASSUME Obedient, NEW c, Agrees(c), IsOpen(c.status), c.session.txn # "lost",
           NEW a \in ServerReplies(c.session, RollbackSql(c.status))
    PROVE  /\ Engaged(c.session) /\ a.session.durable = c.session.durable
           /\ c.status.depth = 1 => a.res = "ok" /\ a.session = Closed(c.session)
           /\ c.status.depth # 1 /\ SavesAt(c.session, c.status.depth - 1) # {} =>
                 /\ a.res = "ok" /\ a.session = RolledBackTo(c.session, c.status.depth - 1)
                 /\ a.session.txn = "open"
           /\ c.status.depth # 1 /\ SavesAt(c.session, c.status.depth - 1) = {} =>
                 a.res = "error" /\ a.session = AfterError(c.session)
<1>0. c.session \in Session /\ c.session.txn \in {"open", "aborted"}
  BY DEF Agrees, Conns, IsOpen
<1>1. CASE c.status.depth = 1
  <2>1. a \in RollbackReplies(c.session)
    BY <1>1 DEF RollbackSql, TransactionSql, ServerReplies
  <2> QED BY <1>0, <1>1, <2>1, LostSessions DEF RollbackReplies, Reply, Engaged
<1>2. CASE c.status.depth # 1
  <2> DEFINE d == c.status.depth - 1
  <2>1. a \in RollbackToReplies(c.session, d)
    BY <1>2 DEF RollbackSql, TransactionSql, ServerReplies
  <2> HIDE DEF d
  <2>2. RolledBackTo(c.session, d).txn = "open" /\ RolledBackTo(c.session, d).durable = c.session.durable
    BY <1>0 DEF RolledBackTo, Session
  <2>3. AfterError(c.session).durable = c.session.durable
    BY <1>0, ErrorMoves
  <2>4. CASE SavesAt(c.session, d) # {}
    BY <1>0, <1>2, <2>1, <2>2, <2>4 DEF RollbackToReplies, InTransaction, Reply, Engaged, d
  <2>5. CASE SavesAt(c.session, d) = {}
    BY <1>0, <1>2, <2>1, <2>3, <2>5 DEF RollbackToReplies, InTransaction, Reply, Engaged, d
  <2> QED BY <2>4, <2>5
<1> QED BY <1>1, <1>2

LEMMA RollbackLevels ==
    ASSUME Obedient, NEW c, Agrees(c), NEW r \in RollbackTransaction(c)
    PROVE  /\ r \in Outcomes /\ Agrees(r.conn)
           /\ r.conn.session.durable = c.session.durable
           /\ \/ r.ret # "ok" /\ ~IsOpen(c.status) /\ r.conn = c
              \/ IsOpen(c.status) /\ Engaged(c.session) /\ RolledBack(c, r)
              \/ IsOpen(c.status) /\ r.ret # "ok" /\ Broken(r.conn)
<1>0. c \in Conns /\ c.status \in Status /\ c.session \in Session /\ c.status.depth \in Nat
  BY DEF Agrees, Conns, Status
<1>r. r \in Outcomes /\ r.conn \in Conns
  BY <1>0, AgreesIsClean, RollbackOutcomes DEF Good, Outcomes
<1>1. CASE ~IsOpen(c.status)
  <2>1. r \in Refused("broken", c) \cup Refused("not_in_transaction", c)
    BY <1>1 DEF RollbackTransaction
  <2> QED BY <1>1, <1>r, <2>1 DEF Refused
<1>2. CASE IsOpen(c.status)
  <2> DEFINE stmt == RollbackSql(c.status)
             d == c.status.depth
  <2>1. stmt \in Stmt /\ stmt.via = "batch"
    BY <1>0, <1>2, SqlType DEF RollbackSql, TransactionSql
  <2>2. PICK x \in Exec(c, stmt) :
           r = Outcome(AfterRollback(c.status, x.conn.status, x.res), x.conn.session)
    BY <1>2 DEF RollbackTransaction, IsOpen
  <2> HIDE DEF stmt
  <2> DEFINE st == x.conn.status
  <2>3. x.res \in Results /\ x.conn \in Conns /\ st \in Status /\ x.conn.session \in Session
    BY <1>0, <2>1, ExecType DEF Conns
  <2>4. \A ret, new : AfterRollback(c.status, st, x.res) = Return(ret, new) =>
           r.ret = ret /\ r.conn.status = new /\ r.conn.session = x.conn.session
    BY <2>2 DEF Outcome, Return
  <2>5. d \in Nat \ {0} /\ ~c.status.in_error
    BY <1>0, <1>2 DEF IsOpen
  <2>e. ExitIs(c.status, st, x.res)
    BY <1>0, <2>3, ExitCases
  <2> HIDE DEF st, d
  <2>6. CASE /\ x.res = "lost" /\ Broken(x.conn)
             /\ \/ x.conn.session.durable = c.session.durable
                \/ /\ c.session.txn # "lost"
                   /\ \E b \in ServerReplies(c.session, stmt) :
                         x.conn.session.durable = b.session.durable
    <3>1. x.conn.session.durable = c.session.durable
      BY <1>2, <2>6, RollbackReplyCases DEF stmt
    <3>2. AfterRollback(c.status, st, x.res) = Return(x.res, InError)
      BY <1>0, <2>3, <2>6, <2>e DEF ExitIs, Broken, st
    <3>3. r.ret = "lost" /\ r.conn.status = InError /\ r.conn.session = x.conn.session
      BY <2>4, <2>6, <3>2
    <3>4. InError.in_error
      BY DEF InError, NoTransaction
    <3>5. Broken(r.conn)
      BY <2>6, <3>3, <3>4 DEF Broken
    <3>6. Agrees(r.conn)
      BY <1>r, <3>5 DEF Agrees, Broken
    <3> QED BY <1>2, <1>r, <3>1, <3>3, <3>5, <3>6
  <2>7. CASE /\ c.session.txn # "lost"
             /\ \E a \in ServerReplies(c.session, stmt) :
                   /\ x.res = a.res /\ x.conn.session = a.session
                   /\ x.conn.status = Hook(c.status, "batch", a.res, a.session.txn)
    <3>1. PICK a \in ServerReplies(c.session, stmt) :
                   /\ x.res = a.res /\ x.conn.session = a.session
                   /\ st = Hook(c.status, "batch", a.res, a.session.txn)
      BY <2>7 DEF st
    <3>2. /\ Engaged(c.session) /\ a.session.durable = c.session.durable
          /\ d = 1 => a.res = "ok" /\ a.session = Closed(c.session)
          /\ d # 1 /\ SavesAt(c.session, d - 1) # {} =>
                 /\ a.res = "ok" /\ a.session = RolledBackTo(c.session, d - 1)
                 /\ a.session.txn = "open"
          /\ d # 1 /\ SavesAt(c.session, d - 1) = {} =>
                 a.res = "error" /\ a.session = AfterError(c.session)
      BY <1>2, <2>7, RollbackReplyCases DEF stmt, d
    <3>3. /\ a.session.txn \in {"open", "aborted"} => ~st.in_error /\ st.depth = d
          /\ a.session.txn = "idle" /\ Dialect = "Pg" => st = NoTransaction
          /\ Dialect = "Sqlite" => st = c.status
      BY <1>0, <1>2, <3>1, HookLevels DEF d
    <3>4. CASE d = 1
      <4>1. a.res = "ok" /\ a.session = Closed(c.session) /\ a.session.txn = "idle" /\ a.session.work = {}
        BY <1>0, <3>2, <3>4, LostSessions
      <4>2. r.ret = "ok" /\ Valid(r.conn, 0) /\ r.conn.session = a.session
        <5>1. CASE Dialect = "Pg"
          <6>1. st = NoTransaction /\ ~NoTransaction.in_error /\ NoTransaction.depth = 0
            BY <3>3, <4>1, <5>1 DEF NoTransaction
          <6>2. AfterRollback(c.status, st, x.res) = Return("ok", st)
            BY <1>0, <2>3, <3>1, <3>4, <4>1, <6>1, <2>e DEF ExitIs, d
          <6> QED BY <2>4, <3>1, <6>1, <6>2 DEF Valid
        <5>2. CASE Dialect = "Sqlite"
          <6>1. st = c.status
            BY <3>3, <5>2
          <6>2. AfterRollback(c.status, st, x.res) = Return("ok", DecreaseDepth(st))
            BY <1>0, <1>2, <3>1, <4>1, <6>1, <2>e DEF ExitIs
          <6>3. DecreaseDepth(st).depth = 0 /\ ~DecreaseDepth(st).in_error
            BY <1>0, <1>2, <3>4, <6>1, DecreasedDepth DEF d
          <6> QED BY <2>4, <3>1, <6>2, <6>3 DEF Valid
        <5> QED BY <5>1, <5>2 DEF Obedient
      <4>3. Agrees(r.conn)
        BY <1>r, <4>1, <4>2 DEF Agrees, Valid
      <4> QED BY <1>2, <1>r, <3>2, <3>4, <4>1, <4>2, <4>3 DEF RolledBack, d
    <3>5. CASE d # 1 /\ SavesAt(c.session, d - 1) # {}
      <4>1. a.res = "ok" /\ a.session = RolledBackTo(c.session, d - 1) /\ a.session.txn = "open"
        BY <3>2, <3>5
      <4>2. IsOpen(st) /\ st.depth = d /\ d - 1 # 0
        BY <2>5, <3>3, <3>5, <4>1 DEF IsOpen
      <4>3. AfterRollback(c.status, st, x.res) = Return("ok", DecreaseDepth(st))
        BY <1>0, <2>3, <3>1, <4>1, <4>2, <2>e DEF ExitIs
      <4>4. Valid(r.conn, d - 1) /\ r.conn.session = a.session /\ r.ret = "ok"
        <5>1. DecreaseDepth(st).depth = d - 1 /\ ~DecreaseDepth(st).in_error
          BY <2>3, <4>2, DecreasedDepth
        <5> QED BY <2>4, <3>1, <4>3, <5>1 DEF Valid
      <4>5. Agrees(r.conn)
        BY <1>r, <4>1, <4>2, <4>4 DEF Agrees, Valid
      <4> QED BY <1>2, <1>r, <3>2, <3>5, <4>1, <4>4, <4>5 DEF RolledBack, d
    <3>6. CASE d # 1 /\ SavesAt(c.session, d - 1) = {}
      <4>1. a.res # "ok" /\ a.session = AfterError(c.session)
        BY <3>2, <3>6
      <4>2. /\ a.session.txn \in {"open", "aborted"}
            /\ a.session.txn = "aborted" => Dialect = "Pg"
        BY <1>0, <3>2, <4>1, ErrorMoves DEF Engaged, Agrees
      <4>3. IsOpen(st) /\ st.depth = d /\ d > 1 /\ d - 1 # 0
        BY <2>5, <3>3, <3>6, <4>2 DEF IsOpen
      <4> DEFINE new == [st EXCEPT !.depth = @ - 1, !.requires_rollback = TRUE]
                 ret == IF c.status.requires_rollback THEN "ok" ELSE x.res
      <4>4. AfterRollback(c.status, st, x.res) = Return(ret, new)
        BY <1>0, <2>3, <3>1, <4>1, <4>3, <2>e DEF ExitIs
      <4>5. new.depth = d - 1 /\ ~new.in_error
        BY <2>3, <4>3 DEF Status, IsOpen
      <4>r. c.status.requires_rollback => ret = "ok"
        OBVIOUS
      <4> HIDE DEF new, ret
      <4>6. Valid(r.conn, d - 1) /\ r.conn.session = a.session /\ r.ret = ret
        BY <2>4, <3>1, <4>4, <4>5 DEF Valid
      <4>7. Agrees(r.conn)
        BY <1>r, <4>2, <4>3, <4>6 DEF Agrees, Valid
      <4> QED BY <1>2, <1>r, <3>2, <3>6, <4>1, <4>6, <4>7, <4>r DEF RolledBack, d
    <3> QED BY <3>4, <3>5, <3>6
  <2> QED BY <2>1, <2>6, <2>7, ExecBatch
<1> QED BY <1>1, <1>2

(* A level whose work is kept.                                              *)
Committing(c, r) ==
    /\ r.ret = "ok"
    /\ IF c.status.depth = 1
       THEN /\ Valid(r.conn, 0)
            /\ r.conn.session = IF c.session.txn = "open" THEN Committed(c.session)
                                ELSE Closed(c.session)
       ELSE /\ Valid(r.conn, c.status.depth - 1) /\ c.session.txn = "open"
            /\ SavesAt(c.session, c.status.depth - 1) # {}
            /\ r.conn.session = Released(c.session, c.status.depth - 1)

(* A level that could not be kept and is undone.                            *)
Undoing(c, r) ==
    /\ r.ret \notin {"ok", "lost"}
    /\ IF c.status.depth = 1
       THEN Valid(r.conn, 0) /\ r.conn.session = Closed(c.session)
       ELSE /\ Valid(r.conn, c.status.depth - 1)
            /\ IF SavesAt(c.session, c.status.depth - 1) # {}
               THEN r.conn.session = RolledBackTo(c.session, c.status.depth - 1)
               ELSE r.conn.session = AfterError(c.session)

(* A commit that SQLite refuses, and that nobody rolls back.                *)
Stuck(c, r) == Dialect = "Sqlite" /\ r.ret # "ok" /\ r.conn = c

CommitCases(c, r) ==
    \/ Engaged(c.session) /\ (Committing(c, r) \/ Undoing(c, r) \/ Stuck(c, r))
    \/ /\ r.ret # "ok" /\ Broken(r.conn)
       /\ \/ r.conn.session.durable = c.session.durable
          \/ /\ r.ret = "lost" /\ c.status.depth = 1 /\ c.session.txn = "open"
             /\ r.conn.session.durable = c.session.durable \cup c.session.work

(* The replies to COMMIT and RELEASE.                                       *)
CommitReply(c, a) ==
    /\ Engaged(c.session)
    /\ c.status.depth = 1 =>
          \/ a.res = "ok" /\ c.session.txn = "open" /\ a.session = Committed(c.session)
          \/ a.res = "ok" /\ c.session.txn = "aborted" /\ a.session = Closed(c.session)
          \/ a.res \notin {"ok", "lost"} /\ Dialect = "Pg" /\ a.session = Closed(c.session)
          \/ a.res \notin {"ok", "lost"} /\ Dialect = "Sqlite" /\ a.session = c.session
    /\ c.status.depth # 1 =>
          \/ /\ a.res = "ok" /\ c.session.txn = "open" /\ SavesAt(c.session, c.status.depth - 1) # {}
             /\ a.session = Released(c.session, c.status.depth - 1)
          \/ a.res \notin {"ok", "lost"} /\ a.session = AfterError(c.session)

LEMMA CommitReplyCases ==
    ASSUME Obedient, NEW c, Agrees(c), IsOpen(c.status), c.session.txn # "lost",
           NEW a \in ServerReplies(c.session, CommitSql(c.status))
    PROVE  CommitReply(c, a)
<1>0. c.session \in Session /\ c.session.txn \in {"open", "aborted"}
  BY DEF Agrees, Conns, IsOpen
<1>d. Dialect \in {"Pg", "Sqlite"}
  BY DEF Obedient
<1>1. CASE c.status.depth = 1
  <2>1. a \in CommitReplies(c.session)
    BY <1>1 DEF CommitSql, TransactionSql, ServerReplies
  <2> QED BY <1>0, <1>1, <1>d, <2>1 DEF CommitReplies, Reply, Fault, Embedded, Engaged, CommitReply
<1>2. CASE c.status.depth # 1
  <2> DEFINE d == c.status.depth - 1
  <2>1. a \in ReleaseReplies(c.session, d)
    BY <1>2 DEF CommitSql, TransactionSql, ServerReplies
  <2> HIDE DEF d
  <2>2. \/ a.res = "ok" /\ c.session.txn = "open" /\ SavesAt(c.session, d) # {} /\ a.session = Released(c.session, d)
        \/ a.res \notin {"ok", "lost"} /\ a.session = AfterError(c.session)
    <3>1. CASE c.session.txn = "aborted" \/ SavesAt(c.session, d) = {}
      BY <1>0, <2>1, <3>1 DEF ReleaseReplies, Reply, InTransaction
    <3>2. CASE ~(c.session.txn = "aborted" \/ SavesAt(c.session, d) = {})
      BY <1>0, <2>1, <3>2 DEF ReleaseReplies, Reply, InTransaction
    <3> QED BY <3>1, <3>2
  <2> QED BY <1>0, <1>2, <2>2 DEF CommitReply, Engaged, d
<1> QED BY <1>1, <1>2

(* Rolling back from an error is rolling back from before it.               *)
LEMMA RolledBackFromError ==
    ASSUME NEW s \in Session, Engaged(s), NEW k \in Nat
    PROVE  /\ SavesAt(AfterError(s), k) = SavesAt(s, k)
           /\ RolledBackTo(AfterError(s), k) = RolledBackTo(s, k)
           /\ AfterError(AfterError(s)) = AfterError(s)
<1> DEFINE t == AfterError(s)
<1>1. t = s \/ (t = [s EXCEPT !.txn = "aborted"] /\ s.txn = "open" /\ t.txn = "aborted")
  BY ErrorMoves
<1>2. t.saves = s.saves /\ t \in Session
  BY ErrorMoves
<1>3. AfterError(t) = t
  BY DEF AfterError, Session
<1> HIDE DEF t
<1>4. SavesAt(t, k) = SavesAt(s, k)
  BY <1>2 DEF SavesAt
<1>5. Newest(t, k) = Newest(s, k)
  BY <1>4 DEF Newest
<1>6. RolledBackTo(t, k) = RolledBackTo(s, k)
  <2>1. CASE t = s
    BY <2>1
  <2>2. CASE t = [s EXCEPT !.txn = "aborted"] /\ s.txn = "open" /\ t.txn = "aborted"
    BY <1>2, <1>5, <2>2 DEF RolledBackTo, Session
  <2> QED BY <1>1, <2>1, <2>2
<1> QED BY <1>3, <1>4, <1>6 DEF t

(* What a commit that the server refused comes to, from what it left.       *)
LEMMA FailedCommitLevels ==
    ASSUME Obedient, NEW c, Agrees(c), IsOpen(c.status), Engaged(c.session),
           NEW k, Agrees(k), SameLevels(c, k),
           k.session = IF c.status.depth = 1 THEN c.session ELSE AfterError(c.session),
           Dialect = "Pg" => k.status.requires_rollback, Dialect = "Sqlite" => k = c,
           NEW res \in Results \ {"ok", "lost"}, NEW r \in AfterFailedCommit(res, k)
    PROVE  Agrees(r.conn) /\ CommitCases(c, r)
<1> DEFINE d == c.status.depth
<1>0. /\ c.session \in Session /\ d \in Nat \ {0} /\ k.status.depth = d /\ IsOpen(k.status)
      /\ k.session \in Session /\ k \in Conns
  BY DEF Agrees, Conns, IsOpen, SameLevels, Status
<1>1. CASE ~k.status.requires_rollback
  <2>1. r = [ret |-> res, conn |-> c] /\ Dialect = "Sqlite"
    BY <1>1 DEF AfterFailedCommit, Obedient
  <2>2. r.ret # "ok" /\ r.conn = c
    BY <2>1
  <2> QED BY <2>1, <2>2 DEF CommitCases, Stuck
<1>2. CASE k.status.requires_rollback
  <2>1. PICK b \in RollbackTransaction(k) :
           r = IF b.ret = "ok" THEN [b EXCEPT !.ret = res]
               ELSE [ret  |-> "rollback_error_on_commit",
                     conn |-> [b.conn EXCEPT !.status = InError]]
    BY <1>0, <1>2 DEF AfterFailedCommit
  <2>2. /\ b \in Outcomes /\ Agrees(b.conn)
        /\ b.conn.session.durable = k.session.durable
        /\ \/ Engaged(k.session) /\ RolledBack(k, b)
           \/ b.ret # "ok" /\ Broken(b.conn)
    BY <1>0, RollbackLevels
  <2>3. k.session.durable = c.session.durable
    BY <1>0, ErrorMoves
  <2>4. CASE Engaged(k.session) /\ RolledBack(k, b)
    <3>1. b.ret = "ok"
      BY <1>2, <2>4 DEF RolledBack
    <3>2. r.conn = b.conn /\ r.ret = res
      BY <2>1, <2>2, <3>1 DEF Outcomes
    <3>3. CASE d = 1
      <4>1. Valid(b.conn, 0) /\ b.conn.session = Closed(c.session)
        BY <1>0, <2>4, <3>3 DEF RolledBack
      <4> QED BY <2>2, <3>2, <3>3, <4>1 DEF CommitCases, Undoing
    <3>4. CASE d # 1
      <4>0. d - 1 \in Nat /\ k.session = AfterError(c.session)
        BY <1>0, <3>4
      <4>1. /\ SavesAt(k.session, d - 1) = SavesAt(c.session, d - 1)
            /\ RolledBackTo(k.session, d - 1) = RolledBackTo(c.session, d - 1)
            /\ AfterError(k.session) = AfterError(c.session)
        BY <1>0, <4>0, RolledBackFromError
      <4>2. /\ Valid(b.conn, d - 1)
            /\ IF SavesAt(c.session, d - 1) # {}
               THEN b.conn.session = RolledBackTo(c.session, d - 1)
               ELSE b.conn.session = AfterError(c.session)
        BY <1>0, <2>4, <3>4, <4>1 DEF RolledBack
      <4> QED BY <2>2, <3>2, <3>4, <4>2 DEF CommitCases, Undoing
    <3> QED BY <3>3, <3>4
  <2>5. CASE b.ret # "ok" /\ Broken(b.conn)
    <3>0. InError.in_error /\ InError \in Status
      BY StatusConstants DEF InError, NoTransaction
    <3>1. r.ret # "ok" /\ r.conn = [b.conn EXCEPT !.status = InError] /\ b.conn \in Conns
      BY <2>1, <2>2, <2>5 DEF Outcomes
    <3>2. r.conn \in Conns /\ r.conn.status = InError /\ r.conn.session = b.conn.session
      BY <3>0, <3>1 DEF Conns
    <3>3. Broken(r.conn)
      BY <2>5, <3>0, <3>2 DEF Broken
    <3>4. Agrees(r.conn)
      BY <3>2, <3>3 DEF Agrees, Broken
    <3> QED BY <2>2, <2>3, <3>1, <3>2, <3>3, <3>4 DEF CommitCases
  <2> QED BY <2>2, <2>4, <2>5
<1> QED BY <1>1, <1>2

LEMMA CommitLevels ==
    ASSUME Obedient, NEW c, Agrees(c), NEW r \in CommitTransaction(c)
    PROVE  /\ r \in Outcomes /\ Agrees(r.conn)
           /\ \/ r.ret # "ok" /\ ~IsOpen(c.status) /\ r.conn = c
              \/ IsOpen(c.status) /\ CommitCases(c, r)
<1>0. c \in Conns /\ c.status \in Status /\ c.session \in Session /\ c.status.depth \in Nat
  BY DEF Agrees, Conns, Status
<1>r. r \in Outcomes /\ r.conn \in Conns
  BY <1>0, AgreesIsClean, CommitOutcomes DEF Good, Outcomes
<1>1. CASE ~IsOpen(c.status)
  <2>1. r \in Refused("broken", c) \cup Refused("not_in_transaction", c)
    BY <1>1 DEF CommitTransaction
  <2> QED BY <1>1, <1>r, <2>1 DEF Refused
<1>2. CASE IsOpen(c.status)
  <2> DEFINE stmt == CommitSql(c.status)
             d == c.status.depth
  <2>1. stmt \in Stmt /\ stmt.via = "batch"
    BY <1>0, <1>2, SqlType DEF CommitSql, TransactionSql
  <2>2. PICK x \in Exec(c, stmt) :
           r \in IF x.res = "ok"
                 THEN {Outcome(AfterExit(c.status, x.conn.status), x.conn.session)}
                 ELSE AfterFailedCommit(x.res, x.conn)
    BY <1>2 DEF CommitTransaction, IsOpen
  <2> HIDE DEF stmt
  <2> DEFINE st == x.conn.status
  <2>3. x.res \in Results /\ x.conn \in Conns /\ st \in Status /\ x.conn.session \in Session
    BY <1>0, <2>1, ExecType DEF Conns
  <2>4. d \in Nat \ {0} /\ ~c.status.in_error
    BY <1>0, <1>2 DEF IsOpen
  <2>e. ExitIs(c.status, st, x.res)
    BY <1>0, <2>3, ExitCases
  <2>5. \A ret, new : x.res = "ok" /\ AfterExit(c.status, st) = Return(ret, new) =>
           r.ret = ret /\ r.conn.status = new /\ r.conn.session = x.conn.session
    BY <2>2 DEF Outcome, Return
  <2> HIDE DEF st, d
  <2>6. CASE /\ x.res = "lost" /\ Broken(x.conn)
             /\ \/ x.conn.session.durable = c.session.durable
                \/ /\ c.session.txn # "lost"
                   /\ \E b \in ServerReplies(c.session, stmt) :
                         x.conn.session.durable = b.session.durable
    <3>1. r = [ret |-> "lost", conn |-> x.conn]
      BY <2>2, <2>6 DEF AfterFailedCommit, Broken, IsOpen
    <3>2. r.ret = "lost" /\ r.conn = x.conn
      BY <3>1
    <3>3. \/ x.conn.session.durable = c.session.durable
          \/ /\ d = 1 /\ c.session.txn = "open"
             /\ x.conn.session.durable = c.session.durable \cup c.session.work
      <4>1. ASSUME c.session.txn # "lost", NEW b \in ServerReplies(c.session, stmt),
                   x.conn.session.durable = b.session.durable
            PROVE  \/ x.conn.session.durable = c.session.durable
                   \/ /\ d = 1 /\ c.session.txn = "open"
                      /\ x.conn.session.durable = c.session.durable \cup c.session.work
        <5>1. CommitReply(c, b)
          BY <1>2, <4>1, CommitReplyCases DEF stmt
        <5>2. /\ Closed(c.session).durable = c.session.durable
              /\ Committed(c.session).durable = c.session.durable \cup c.session.work
              /\ AfterError(c.session).durable = c.session.durable
              /\ Released(c.session, d - 1).durable = c.session.durable
          BY <1>0, LostSessions, ErrorMoves DEF Released, Session
        <5> QED BY <4>1, <5>1, <5>2 DEF CommitReply, d
      <4> QED BY <2>6, <4>1
    <3>4. Agrees(x.conn)
      BY <2>3, <2>6 DEF Agrees, Broken
    <3> QED BY <1>2, <1>r, <2>6, <3>2, <3>3, <3>4 DEF CommitCases, d
  <2>7. CASE /\ c.session.txn # "lost"
             /\ \E a \in ServerReplies(c.session, stmt) :
                   /\ x.res = a.res /\ x.conn.session = a.session
                   /\ x.conn.status = Hook(c.status, "batch", a.res, a.session.txn)
    <3>1. PICK a \in ServerReplies(c.session, stmt) :
                   /\ x.res = a.res /\ x.conn.session = a.session
                   /\ st = Hook(c.status, "batch", a.res, a.session.txn)
      BY <2>7 DEF st
    <3>2. CommitReply(c, a)
      BY <1>2, <2>7, CommitReplyCases DEF stmt
    <3>3. /\ a.session.txn \in {"open", "aborted"} => ~st.in_error /\ st.depth = d
          /\ a.session.txn = "idle" /\ Dialect = "Pg" => st = NoTransaction
          /\ Dialect = "Sqlite" => st = c.status
          /\ a.session.txn = "aborted" /\ Dialect = "Pg" => st.requires_rollback
      BY <1>0, <1>2, <3>1, HookLevels DEF d
    <3>n. NoTransaction.depth = 0 /\ ~NoTransaction.in_error
      BY DEF NoTransaction
    <3>4. CASE a.res = "ok" /\ d = 1
      <4>1. /\ a.session = IF c.session.txn = "open" THEN Committed(c.session) ELSE Closed(c.session)
            /\ a.session.txn = "idle" /\ a.session.work = {} /\ Engaged(c.session)
        BY <1>0, <3>2, <3>4, LostSessions DEF CommitReply, d
      <4>2. r.ret = "ok" /\ Valid(r.conn, 0) /\ r.conn.session = a.session
        <5>1. CASE Dialect = "Pg"
          <6>1. st = NoTransaction
            BY <3>3, <4>1, <5>1
          <6>2. AfterExit(c.status, st) = Return("ok", st)
            BY <2>e, <3>4, <3>n, <6>1 DEF ExitIs, d
          <6> QED BY <2>5, <3>1, <3>4, <3>n, <6>1, <6>2 DEF Valid
        <5>2. CASE Dialect = "Sqlite"
          <6>1. st = c.status
            BY <3>3, <5>2
          <6>2. AfterExit(c.status, st) = Return("ok", DecreaseDepth(st))
            BY <1>2, <2>e, <6>1 DEF ExitIs
          <6>3. DecreaseDepth(st).depth = 0 /\ ~DecreaseDepth(st).in_error
            BY <1>0, <1>2, <3>4, <6>1, DecreasedDepth DEF d
          <6> QED BY <2>5, <3>1, <3>4, <6>2, <6>3 DEF Valid
        <5> QED BY <5>1, <5>2 DEF Obedient
      <4>3. Agrees(r.conn)
        BY <1>r, <4>1, <4>2 DEF Agrees, Valid
      <4>4. Committing(c, r)
        BY <3>4, <4>1, <4>2 DEF Committing, d
      <4> QED BY <1>2, <1>r, <4>1, <4>3, <4>4 DEF CommitCases
    <3>5. CASE a.res = "ok" /\ d # 1
      <4>1. /\ c.session.txn = "open" /\ SavesAt(c.session, d - 1) # {}
            /\ a.session = Released(c.session, d - 1) /\ Engaged(c.session)
        BY <3>2, <3>5 DEF CommitReply, d
      <4>2. a.session.txn = "open"
        BY <1>0, <4>1 DEF Released, Session
      <4>3. IsOpen(st) /\ st.depth = d /\ d - 1 # 0
        BY <2>4, <3>3, <3>5, <4>2 DEF IsOpen
      <4>4. AfterExit(c.status, st) = Return("ok", DecreaseDepth(st))
        BY <2>e, <4>3 DEF ExitIs
      <4>5. Valid(r.conn, d - 1) /\ r.conn.session = a.session /\ r.ret = "ok"
        <5>1. DecreaseDepth(st).depth = d - 1 /\ ~DecreaseDepth(st).in_error
          BY <2>3, <4>3, DecreasedDepth
        <5> QED BY <2>5, <3>1, <3>5, <4>4, <5>1 DEF Valid
      <4>6. Agrees(r.conn)
        BY <1>r, <4>2, <4>3, <4>5 DEF Agrees, Valid
      <4>7. Committing(c, r)
        BY <3>5, <4>1, <4>5 DEF Committing, d
      <4> QED BY <1>2, <1>r, <4>1, <4>6, <4>7 DEF CommitCases
    <3>6. CASE a.res # "ok" /\ d = 1 /\ Dialect = "Pg"
      <4>1. a.session = Closed(c.session) /\ a.session.txn = "idle" /\ a.session.work = {} /\ Engaged(c.session)
            /\ a.res \notin {"ok", "lost"}
        BY <1>0, <3>2, <3>6, LostSessions DEF CommitReply, d
      <4>2. st = NoTransaction
        BY <3>3, <3>6, <4>1
      <4>3. r = [ret |-> x.res, conn |-> x.conn]
        BY <2>2, <3>1, <3>6, <3>n, <4>2 DEF AfterFailedCommit, IsOpen, st
      <4>4. r.ret = a.res /\ r.conn.status = NoTransaction /\ r.conn.session = a.session
        BY <3>1, <4>2, <4>3 DEF st
      <4>5. Agrees(r.conn) /\ Valid(r.conn, 0)
        BY <1>r, <3>n, <4>1, <4>4 DEF Agrees, Valid
      <4>6. Undoing(c, r)
        BY <3>6, <4>1, <4>4, <4>5 DEF Undoing, d
      <4> QED BY <1>2, <1>r, <4>1, <4>5, <4>6 DEF CommitCases
    <3>7. CASE a.res # "ok" /\ ~(d = 1 /\ Dialect = "Pg")
      <4>1. /\ a.session = IF d = 1 THEN c.session ELSE AfterError(c.session)
            /\ Engaged(c.session) /\ a.res \notin {"ok", "lost"}
        BY <3>2, <3>7 DEF CommitReply, d
      <4>2. /\ a.session.txn \in {"open", "aborted"}
            /\ Dialect = "Pg" => a.session.txn = "aborted"
            /\ Dialect = "Sqlite" => a.session = c.session /\ a.session.txn = "open"
        BY <1>0, <3>7, <4>1, ErrorMoves DEF Engaged, Agrees
      <4>3. ~st.in_error /\ st.depth = d /\ d # 0
        BY <2>4, <3>3, <4>2
      <4>4. Agrees(x.conn) /\ SameLevels(c, x.conn)
        <5>1. a.session.txn = "aborted" => Dialect = "Pg"
          BY <4>2 DEF Obedient
        <5> QED BY <2>3, <2>4, <3>1, <4>2, <4>3, <5>1 DEF Agrees, SameLevels, st, d
      <4>5. /\ Dialect = "Pg" => x.conn.status.requires_rollback
            /\ Dialect = "Sqlite" => x.conn = c
        BY <1>0, <2>3, <3>1, <3>3, <4>2 DEF Conns, st
      <4>6. r \in AfterFailedCommit(x.res, x.conn) /\ x.res \in Results \ {"ok", "lost"}
        BY <2>2, <2>3, <3>1, <3>7, <4>1
      <4>7. x.conn.session = IF c.status.depth = 1 THEN c.session ELSE AfterError(c.session)
        BY <3>1, <4>1 DEF d
      <4>8. Agrees(r.conn) /\ CommitCases(c, r)
        BY <1>2, <4>1, <4>4, <4>5, <4>6, <4>7, FailedCommitLevels
      <4> QED BY <1>2, <1>r, <4>8
    <3> QED BY <3>4, <3>5, <3>6, <3>7
  <2> QED BY <2>1, <2>6, <2>7, ExecBatch
<1> QED BY <1>1, <1>2

-------------------------------------------------------------------------------
(* The levels of the manager and of the closures, and what became of each
   write: LevelsInv.                                                       *)

(* The levels of the manager, the transaction of the session and the closures
   sc that run agree: no closure is without a level, and when every level is
   the level of a closure the session holds the work of each.               *)
Levels(c, sc) ==
    /\ ~c.status.in_error => IF Dialect = "Pg" THEN c.status.depth = Len(sc)
                             ELSE c.status.depth >= Len(sc)
    /\ Engaged(c.session) /\ c.status.depth = Len(sc) => Holds(c.session, Works(sc), Len(sc))
    /\ c.session.txn = "aborted" => Len(sc) > 0 /\ sc[Len(sc)].failed

LEMMA EngagedDepth ==
    ASSUME NEW c, Agrees(c), Engaged(c.session)
    PROVE  /\ ~c.status.in_error /\ c.status.depth \in Nat \ {0} /\ IsOpen(c.status)
           /\ c.session \in Session
           /\ c.session.txn = "aborted" => Dialect = "Pg"
BY DEF Agrees, Engaged, Conns, Status, IsOpen

LEMMA OpenedLevels ==
    ASSUME NEW c, Agrees(c), NEW sc \in Seq(Scope), Levels(c, sc), NEW test \in BOOLEAN,
           NEW k \in Conns, ~c.status.in_error, Valid(k, c.status.depth + 1),
           \/ /\ c.session.txn = "idle" /\ c.status.depth = 0
              /\ k.session = [c.session EXCEPT !.txn = "open"]
           \/ /\ c.session.txn = "open" /\ c.status.depth > 0
              /\ k.session = SavepointSet(c.session, c.status.depth)
    PROVE  Levels(k, Append(sc, NewScope(test)))
<1> DEFINE tc == Append(sc, NewScope(test))
           n == Len(sc)
           d == c.status.depth
<1>0. n \in Nat /\ d \in Nat /\ c.session \in Session
  BY LenProperties DEF Agrees, Conns, Status
<1>1. Len(tc) = n + 1
  BY OpenedIs
<1>2. Works(tc)[n + 1] = Works(sc)[n]
  BY WorksOpened
<1>3. \A j \in 0..n : Works(tc)[j] = Works(sc)[j]
  BY WorksOpened
<1>4. k.status.depth = d + 1 /\ ~k.status.in_error
  BY DEF Valid
<1> HIDE DEF tc
<1>5. k.session.txn = "open"
  BY <1>0 DEF SavepointSet, Session
<1>6. IF Dialect = "Pg" THEN d = n ELSE d >= n
  BY DEF Levels
<1>7. ASSUME d = n PROVE Holds(k.session, Works(tc), n + 1)
  <2>1. CASE c.session.txn = "idle" /\ d = 0 /\ k.session = [c.session EXCEPT !.txn = "open"]
    <3>1. Works(sc)[0] = {}
      BY WorksSplit, <1>0
    <3>2. k.session.work = {}
      BY <1>0, <2>1 DEF Agrees, Session
    <3>3. 1..((n + 1) - 1) = {}
      BY <1>7, <2>1
    <3>4. k.session.work = Works(tc)[n + 1]
      BY <1>2, <1>7, <2>1, <3>1, <3>2
    <3> QED BY <3>3, <3>4 DEF Holds
  <2>2. CASE c.session.txn = "open" /\ d > 0 /\ k.session = SavepointSet(c.session, d)
    <3>1. Holds(c.session, Works(sc), n)
      BY <1>7, <2>2 DEF Levels, Engaged
    <3>2. n \in Nat \ {0} /\ \A j \in 1..n : Works(tc)[j] = Works(sc)[j]
      BY <1>0, <1>3, <1>7, <2>2
    <3> HIDE DEF n, d
    <3>3. Holds(SavepointSet(c.session, n), Works(tc), n + 1)
      BY <1>0, <1>2, <3>1, <3>2, HoldsSavepointSet
    <3> QED BY <1>7, <2>2, <3>3
  <2> QED BY <2>1, <2>2
<1> HIDE DEF n, d
<1>8. d + 1 = n + 1 => d = n
  BY <1>0
<1>9. IF Dialect = "Pg" THEN d + 1 = n + 1 ELSE d + 1 >= n + 1
  BY <1>0, <1>6
<1>10. Levels(k, tc)
  BY <1>1, <1>4, <1>5, <1>7, <1>8, <1>9 DEF Levels
<1> QED BY <1>10 DEF tc

LEMMA RefusedLevels ==
    ASSUME NEW c, Agrees(c), NEW sc \in Seq(Scope), Levels(c, sc),
           NEW k, Agrees(k), Refusal(c, k)
    PROVE  Levels(k, NoteFailure(sc))
<1> DEFINE tc == NoteFailure(sc)
           n == Len(sc)
<1>0. n \in Nat /\ Len(tc) = n
  <2>1. n \in Nat
    BY LenProperties
  <2>2. Len(tc) = n
    BY NoteFailureIs
  <2> QED BY <2>1, <2>2
<1>1. n > 0 => tc[n].failed
  BY NoteFailureIs
<1>2. \A j \in 0..n : Works(tc)[j] = Works(sc)[j]
  BY WorksNoted
<1>3. /\ k.status.depth = c.status.depth /\ (k.status.in_error <=> c.status.in_error)
      /\ c.session \in Session /\ k.session \in Session
      /\ k.session.saves = c.session.saves /\ k.session.work = c.session.work
      /\ k.session.txn = c.session.txn \/ (c.session.txn = "open" /\ k.session.txn = "aborted")
  BY DEF Refusal, SameLevels, Agrees, Conns, Session
<1> HIDE DEF tc, n
<1>4. ASSUME Engaged(k.session), k.status.depth = n PROVE Holds(k.session, Works(tc), n)
  <2>1. Holds(c.session, Works(sc), n)
    BY <1>3, <1>4 DEF Levels, Engaged, n
  <2>2. k.session.work = Works(tc)[n]
    BY <1>0, <1>2, <1>3, <2>1 DEF Holds
  <2>3. \A j \in 0..(n - 1) : Works(tc)[j] = Works(sc)[j]
    BY <1>0, <1>2
  <2> QED BY <1>0, <1>3, <2>1, <2>2, <2>3, HoldsAgain
<1>5. ASSUME k.session.txn = "aborted" PROVE n > 0
  <2>1. Dialect = "Pg" /\ ~k.status.in_error /\ k.status.depth \in Nat \ {0}
    BY <1>5, EngagedDepth DEF Engaged
  <2> QED BY <1>0, <1>3, <2>1 DEF Levels, n
<1>6. Levels(k, tc)
  BY <1>0, <1>1, <1>3, <1>4, <1>5 DEF Levels, n
<1> QED BY <1>6 DEF tc

LEMMA BrokenLevels ==
    ASSUME NEW c, NEW sc, Levels(c, sc), NEW k, Breaks(c, k), NEW tc, Len(tc) = Len(sc)
    PROVE  Levels(k, tc)
BY DEF Levels, Breaks, SameLevels, Engaged

LEMMA GoneLevels ==
    ASSUME NEW k, Broken(k), NEW tc
    PROVE  Levels(k, tc)
BY DEF Levels, Broken, Engaged

LEMMA WrittenLevels ==
    ASSUME NEW c, Agrees(c), NEW sc \in Seq(Scope), Levels(c, sc), NEW item \in Items,
           NEW k, Agrees(k), SameLevels(c, k), c.session.txn \in {"idle", "open"},
           k.session = Written(c.session, item)
    PROVE  Levels(k, IF Len(sc) > 0 THEN WroteTop(sc, item) ELSE sc)
<1> DEFINE tc == WroteTop(sc, item)
           n == Len(sc)
<1>0. n \in Nat /\ item \in Nat /\ c.session \in Session /\ k.session \in Session
  BY LenProperties DEF Items, Agrees, Conns
<1>1. k.session.txn = c.session.txn
  BY <1>0 DEF Written, Session
<1>2. k.status.depth = c.status.depth /\ (k.status.in_error <=> c.status.in_error)
  BY DEF SameLevels
<1>3. CASE n > 0
  <2>1. Len(tc) = n
    BY <1>3, WroteTopIs
  <2>2. Works(tc)[n] = Works(sc)[n] \cup {item}
    BY <1>3, WorksTop
  <2>3. \A j \in 0..(n - 1) : Works(tc)[j] = Works(sc)[j]
    BY <1>3, WorksTop
  <2> HIDE DEF tc, n
  <2>4. ASSUME Engaged(k.session), k.status.depth = n PROVE Holds(k.session, Works(tc), n)
    <3>1. Holds(c.session, Works(sc), n) /\ c.session.txn = "open"
      BY <1>1, <1>2, <2>4 DEF Levels, Engaged, n
    <3>2. k.session.saves = c.session.saves /\ k.session.work = c.session.work \cup {item}
      BY <1>0, <3>1 DEF Written, Session
    <3>3. k.session.work = Works(tc)[n]
      BY <2>2, <3>1, <3>2 DEF Holds
    <3> QED BY <1>0, <2>3, <3>1, <3>2, <3>3, HoldsAgain
  <2>5. Levels(k, tc)
    BY <1>1, <1>2, <2>1, <2>4 DEF Levels, n
  <2> QED BY <1>3, <2>5 DEF tc, n
<1>4. CASE ~(n > 0)
  <2>1. ~(Engaged(k.session) /\ k.status.depth = n)
    <3>1. n = 0
      BY <1>0, <1>4
    <3> QED BY <3>1, EngagedDepth
  <2>2. Levels(k, sc)
    BY <1>1, <1>2, <2>1 DEF Levels
  <2> QED BY <1>4, <2>2
<1> QED BY <1>3, <1>4

LEMMA UndoneLevels ==
    ASSUME NEW c, Agrees(c), Engaged(c.session), NEW sc \in Seq(Scope), Len(sc) > 0, Levels(c, sc),
           NEW k, Agrees(k),
           IF c.status.depth = 1
           THEN Valid(k, 0) /\ k.session = Closed(c.session)
           ELSE /\ Valid(k, c.status.depth - 1)
                /\ IF SavesAt(c.session, c.status.depth - 1) # {}
                   THEN k.session = RolledBackTo(c.session, c.status.depth - 1)
                   ELSE k.session = AfterError(c.session)
    PROVE  Levels(k, Inner(sc)) /\ k.session.txn \notin {"aborted", "lost"}
<1> DEFINE tc == Inner(sc)
           n == Len(sc)
           d == c.status.depth
<1>0. n \in Nat /\ d \in Nat \ {0} /\ ~c.status.in_error /\ c.session \in Session /\ k.session \in Session
  BY LenProperties, EngagedDepth DEF Agrees, Conns
<1>1. n > 0
  OBVIOUS
<1>2. Len(tc) = n - 1
  BY InnerIs
<1>3. \A j \in 0..(n - 1) : Works(tc)[j] = Works(sc)[j]
  BY WorksInner
<1>4. IF Dialect = "Pg" THEN d = n ELSE d >= n
  BY <1>0 DEF Levels
<1>5. k.status.depth = d - 1 /\ ~k.status.in_error
  BY DEF Valid
<1> HIDE DEF tc
<1>6. ASSUME d = n, d # 1
      PROVE  /\ k.session = RolledBackTo(c.session, n - 1) /\ k.session.txn = "open"
             /\ Holds(k.session, Works(tc), n - 1)
  <2>1. Holds(c.session, Works(sc), n)
    BY <1>6 DEF Levels
  <2> HIDE DEF n, d
  <2>2. n > 1 /\ n - 1 \in 1..(n - 1) /\ n - 1 \in Nat /\ n - 1 \in 0..(n - 1)
        /\ \A j \in 0..((n - 1) - 1) : j \in 0..(n - 1)
    BY <1>0, <1>6
  <2>3. SavesAt(c.session, n - 1) # {}
    BY <2>1, <2>2 DEF Holds
  <2>4. k.session = RolledBackTo(c.session, n - 1)
    BY <1>6, <2>3 DEF d
  <2>5. k.session.txn = "open"
    BY <1>0, <2>4 DEF RolledBackTo, Session, Engaged
  <2>6. Holds(k.session, Works(sc), n - 1)
    BY <1>0, <2>1, <2>2, <2>4, HoldsRolledBackTo
  <2>7. k.session.work = Works(tc)[n - 1] /\ \A j \in 0..((n - 1) - 1) : Works(tc)[j] = Works(sc)[j]
    BY <1>3, <2>2, <2>6 DEF Holds
  <2>8. Holds(k.session, Works(tc), n - 1)
    BY <1>0, <2>2, <2>6, <2>7, HoldsAgain
  <2> QED BY <2>4, <2>5, <2>8
<1>7. d = 1 => ~Engaged(k.session)
  BY <1>0, LostSessions DEF Engaged
<1> HIDE DEF n, d
<1>8. IF Dialect = "Pg" THEN d - 1 = n - 1 ELSE d - 1 >= n - 1
  BY <1>0, <1>4
<1>9. ASSUME Engaged(k.session), d - 1 = n - 1 PROVE Holds(k.session, Works(tc), n - 1)
  BY <1>0, <1>6, <1>7, <1>9
<1>10. k.session.txn # "aborted"
  <2> SUFFICES ASSUME k.session.txn = "aborted" PROVE FALSE
    OBVIOUS
  <2>1. Dialect = "Pg" /\ Engaged(k.session)
    BY EngagedDepth DEF Engaged
  <2> QED BY <1>4, <1>6, <1>7, <2>1
<1>11. Levels(k, tc)
  BY <1>2, <1>5, <1>8, <1>9, <1>10 DEF Levels
<1>12. k.session.txn # "lost"
  <2>1. /\ Closed(c.session).txn = "idle" /\ AfterError(c.session).txn # "lost"
        /\ \A j : RolledBackTo(c.session, j).txn # "lost"
    BY <1>0 DEF Closed, AfterError, RolledBackTo, Session, Engaged
  <2> QED BY <2>1
<1> QED BY <1>10, <1>11, <1>12 DEF tc

LEMMA CommittedLevels ==
    ASSUME NEW c, Agrees(c), Engaged(c.session), NEW sc \in Seq(Scope), Len(sc) > 0, Levels(c, sc),
           NEW r, Agrees(r.conn), Committing(c, r)
    PROVE  Levels(r.conn, Merge(sc))
<1> DEFINE tc == Merge(sc)
           n == Len(sc)
           d == c.status.depth
           k == r.conn
<1>0. n \in Nat /\ d \in Nat \ {0} /\ ~c.status.in_error /\ c.session \in Session /\ k.session \in Session
  BY LenProperties, EngagedDepth DEF Agrees, Conns
<1>1. n > 0
  OBVIOUS
<1>2. IF Dialect = "Pg" THEN d = n ELSE d >= n
  BY <1>0 DEF Levels
<1>3. CASE d = 1
  <2>1. n = 1
    <3> HIDE DEF n, d
    <3> QED BY <1>0, <1>1, <1>2, <1>3
  <2>2. tc = <<>> /\ Len(tc) = 0
    BY <2>1 DEF Merge
  <2>3. k.session.txn = "idle"
    BY <1>0, <1>3, LostSessions DEF Committing
  <2>4. k.status.depth = 0 /\ ~k.status.in_error
    BY <1>3 DEF Committing, Valid
  <2> HIDE DEF tc, k
  <2>5. Levels(k, tc)
    BY <2>2, <2>3, <2>4 DEF Levels, Engaged
  <2> QED BY <2>5 DEF tc, k
<1>4. CASE d # 1
  <2>1. /\ k.status.depth = d - 1 /\ ~k.status.in_error /\ c.session.txn = "open"
        /\ SavesAt(c.session, d - 1) # {} /\ k.session = Released(c.session, d - 1)
    BY <1>4 DEF Committing, Valid
  <2>2. k.session.txn = "open"
    BY <1>0, <2>1 DEF Released, Session
  <2>3. CASE n = 1
    <3>1. Len(tc) = 0
      BY <2>3 DEF Merge
    <3> HIDE DEF tc, k, n, d
    <3>2. d - 1 # 0 /\ d - 1 >= 0 /\ Dialect # "Pg"
      BY <1>0, <1>2, <1>4, <2>3
    <3>3. Levels(k, tc)
      BY <2>1, <2>2, <3>1, <3>2 DEF Levels
    <3> QED BY <3>3 DEF tc, k
  <2>4. CASE n # 1
    <3>0. n > 1
      <4> HIDE DEF n, d
      <4> QED BY <1>0, <1>1, <2>4
    <3>1. Len(tc) = n - 1
      BY <3>0, MergeIs
    <3>2. Works(tc)[n - 1] = Works(sc)[n]
      BY <3>0, WorksMerged
    <3>3. \A j \in 0..(n - 2) : Works(tc)[j] = Works(sc)[j]
      BY <3>0, WorksMerged
    <3> HIDE DEF tc, k, d
    <3>4. ASSUME d = n PROVE Holds(k.session, Works(tc), n - 1)
      <4>1. Holds(c.session, Works(sc), n)
        BY <3>4 DEF Levels, d
      <4> HIDE DEF n
      <4>2. \A j \in 1..(n - 2) : Works(tc)[j] = Works(sc)[j]
        BY <3>3
      <4>3. Holds(Released(c.session, n - 1), Works(tc), n - 1)
        BY <1>0, <3>0, <3>2, <4>1, <4>2, HoldsReleased
      <4> QED BY <2>1, <3>4, <4>3
    <3> HIDE DEF n
    <3>5. IF Dialect = "Pg" THEN d - 1 = n - 1 ELSE d - 1 >= n - 1
      BY <1>0, <1>2
    <3>6. d - 1 = n - 1 => d = n
      BY <1>0
    <3>7. Levels(k, tc)
      BY <2>1, <2>2, <3>1, <3>4, <3>5, <3>6 DEF Levels
    <3> QED BY <3>7 DEF tc, k
  <2> QED BY <2>3, <2>4
<1> QED BY <1>3, <1>4

LEMMA StuckLevels ==
    ASSUME NEW c, Agrees(c), NEW sc \in Seq(Scope), Len(sc) > 0, Levels(c, sc),
           Dialect = "Sqlite" \/ c.status.in_error
    PROVE  Levels(c, Inner(sc))
<1> DEFINE n == Len(sc)
           d == c.status.depth
<1>0. n \in Nat /\ d \in Nat /\ n > 0
  BY LenProperties DEF Agrees, Conns, Status
<1>1. Len(Inner(sc)) = n - 1
  BY InnerIs
<1>2. CASE c.status.in_error
  BY <1>2 DEF Levels, Agrees, Engaged
<1>3. CASE ~c.status.in_error /\ Dialect = "Sqlite"
  <2>1. d >= n
    BY <1>3 DEF Levels
  <2>2. c.session.txn # "aborted"
    BY <1>3 DEF Agrees
  <2> HIDE DEF n, d
  <2>3. d >= n - 1 /\ d # n - 1
    BY <1>0, <2>1
  <2> QED BY <1>1, <1>3, <2>2, <2>3 DEF Levels, d
<1> QED BY <1>2, <1>3

(* Where a write is, by its fate.                                           *)
Settled(c, ends) ==
    /\ Dialect = "Pg" => \A x \in DOMAIN ends : ends[x] = "kept" => x \in c.session.durable
    /\ \A x \in DOMAIN ends : ends[x] \in {"dropped", "pending"} => x \notin c.session.durable
    /\ c.session.txn # "lost" => c.session.durable \subseteq DOMAIN ends

-------------------------------------------------------------------------------
LEMMA SettledStill ==
    ASSUME NEW c, NEW ends, Settled(c, ends), NEW k, k.session.durable = c.session.durable,
           k.session.txn # "lost" => c.session.txn # "lost"
    PROVE  Settled(k, ends)
BY DEF Settled

(* What is pending is neither kept nor durable, and may end in any way.     *)
LEMMA SettledQuietly ==
    ASSUME NEW c, NEW ends, Settled(c, ends), NEW k, k.session.durable = c.session.durable,
           k.session.txn # "lost" => c.session.txn # "lost",
           NEW items, \A x \in items : x \in DOMAIN ends /\ ends[x] = "pending",
           NEW f, Dialect = "Pg" => f # "kept"
    PROVE  Settled(k, Settle(ends, items, f))
<1> DEFINE e == Settle(ends, items, f)
<1>1. DOMAIN e = DOMAIN ends
  BY SettleIs
<1>2. \A x \in DOMAIN ends : e[x] = IF x \in items THEN f ELSE ends[x]
  BY SettleIs
<1> HIDE DEF e
<1>3. Settled(k, e)
  BY <1>1, <1>2 DEF Settled
<1> QED BY <1>3 DEF e

(* A commit: all that is pending becomes durable.                           *)
LEMMA SettledCommitted ==
    ASSUME NEW c, NEW ends, Settled(c, ends), c.session.txn # "lost",
           NEW items, \A x : x \in items <=> x \in DOMAIN ends /\ ends[x] = "pending",
           c.session.work = items, NEW k,
           k.session.durable = c.session.durable \cup c.session.work,
           NEW f, f \notin {"pending", "dropped"}
    PROVE  Settled(k, Settle(ends, items, f))
<1> DEFINE e == Settle(ends, items, f)
<1>1. DOMAIN e = DOMAIN ends
  BY SettleIs
<1>2. \A x \in DOMAIN ends : e[x] = IF x \in items THEN f ELSE ends[x]
  BY SettleIs
<1> HIDE DEF e
<1>3. Settled(k, e)
  BY <1>1, <1>2 DEF Settled
<1> QED BY <1>3 DEF e

(* A statement that succeeds, in a transaction or outside of any.           *)
LEMMA SettledWritten ==
    ASSUME NEW c, NEW ends \in Seq(Fates), Settled(c, ends), c.session.txn # "lost",
           NEW k, NEW f \in {"pending", "auto"},
           k.session.durable = IF f = "pending" THEN c.session.durable
                               ELSE c.session.durable \cup {Len(ends) + 1}
    PROVE  Settled(k, Append(ends, f))
<1> DEFINE e == Append(ends, f)
           m == Len(ends)
<1>0. f \in Fates
  BY DEF Fates
<1>1. /\ m \in Nat /\ DOMAIN ends = 1..m /\ DOMAIN e = 1..(m + 1)
      /\ \A x \in 1..m : e[x] = ends[x]
      /\ e[m + 1] = f
  BY <1>0, AppendedFate
<1>2. k.session.durable = IF f = "pending" THEN c.session.durable ELSE c.session.durable \cup {m + 1}
  OBVIOUS
<1> HIDE DEF e, m
<1>3. m + 1 \notin 1..m /\ \A x : x \in 1..(m + 1) <=> x \in 1..m \/ x = m + 1
  BY <1>1
<1>4. Settled(k, e)
  BY <1>1, <1>2, <1>3 DEF Settled
<1> QED BY <1>4 DEF e

(* A statement that a transaction nobody knows of holds back.               *)
LEMMA SettledAuto ==
    ASSUME NEW c, NEW ends \in Seq(Fates), Settled(c, ends), c.session.txn # "lost",
           NEW k, k.session.durable = c.session.durable
    PROVE  Settled(k, Append(ends, "auto"))
<1> DEFINE e == Append(ends, "auto")
           m == Len(ends)
<1>0. "auto" \in Fates
  BY DEF Fates
<1>1. /\ m \in Nat /\ DOMAIN ends = 1..m /\ DOMAIN e = 1..(m + 1)
      /\ \A x \in 1..m : e[x] = ends[x]
      /\ e[m + 1] = "auto"
  BY <1>0, AppendedFate
<1> HIDE DEF e, m
<1>3. m + 1 \notin 1..m /\ \A x : x \in 1..(m + 1) <=> x \in 1..m \/ x = m + 1
  BY <1>1
<1>4. Settled(k, e)
  BY <1>1, <1>3 DEF Settled
<1> QED BY <1>4 DEF e

(* A statement that broke the connection may have run.                      *)
LEMMA SettledUnknown ==
    ASSUME NEW c, NEW ends \in Seq(Fates), Settled(c, ends), NEW k,
           k.session.durable = c.session.durable \cup {Len(ends) + 1}, k.session.txn = "lost"
    PROVE  Settled(k, ends)
<1>1. Len(ends) \in Nat /\ DOMAIN ends = 1..Len(ends)
  BY LenProperties
<1>2. Len(ends) + 1 \notin DOMAIN ends
  BY <1>1
<1> QED BY <1>2 DEF Settled

-------------------------------------------------------------------------------
(* The inductive invariant.                                                 *)
LevelsInv == /\ TypeOK
             /\ Agrees(conn)
             /\ Levels(conn, scopes)
             /\ Fated(scopes, fate)
             /\ Settled(conn, fate)

LEMMA LevelsInvTypes ==
    ASSUME LevelsInv
    PROVE  /\ IInv /\ conn \in Conns /\ conn.status \in Status /\ conn.session \in Session
           /\ scopes \in Seq(Scope) /\ fate \in Seq(Fates)
           /\ Len(scopes) \in Nat /\ Len(fate) \in Nat /\ Len(fate) <= MaxWrites /\ MaxWrites \in Nat
           /\ Len(fate) < MaxWrites => Len(fate) + 1 \in Items /\ Len(fate) + 1 \in Nat
<1>1. IInv
  BY AgreesIsClean DEF LevelsInv, IInv, CleanWhenIdle
<1>2. conn \in Conns /\ conn.status \in Status /\ conn.session \in Session
  BY DEF LevelsInv, Agrees, Conns
<1>3. scopes \in Seq(Scope) /\ fate \in Seq(Fates) /\ Len(fate) <= MaxWrites /\ MaxWrites \in Nat
  BY BoundsAssumption DEF LevelsInv, TypeOK
<1>4. Len(scopes) \in Nat /\ Len(fate) \in Nat
  BY <1>3, LenProperties
<1>5. Len(fate) < MaxWrites => Len(fate) + 1 \in Items /\ Len(fate) + 1 \in Nat
  <2> DEFINE m == Len(fate)
  <2>1. m \in Nat /\ MaxWrites \in Nat
    BY <1>3, <1>4
  <2> HIDE DEF m
  <2>2. m < MaxWrites => m + 1 \in Items /\ m + 1 \in Nat
    BY <2>1 DEF Items
  <2> QED BY <2>2 DEF m
<1> QED BY <1>1, <1>2, <1>3, <1>4, <1>5

LEMMA LevelsDepth ==
    ASSUME LevelsInv, ~conn.status.in_error
    PROVE  /\ conn.status.depth \in Nat /\ conn.status.depth >= Len(scopes)
           /\ Len(scopes) > 0 => conn.status.depth > 0 /\ IsOpen(conn.status)
           /\ Len(scopes) > 0 /\ conn.status.depth = 1 => Len(scopes) = 1
<1> DEFINE n == Len(scopes)
           d == conn.status.depth
<1>1. n \in Nat /\ d \in Nat
  BY LevelsInvTypes DEF Status
<1>2. IF Dialect = "Pg" THEN d = n ELSE d >= n
  BY DEF LevelsInv, Levels
<1> HIDE DEF n, d
<1>3. d >= n /\ (n > 0 => d > 0) /\ (n > 0 /\ d = 1 => n = 1)
  BY <1>1, <1>2
<1> QED BY <1>1, <1>3 DEF n, d, IsOpen

LEMMA InitLevelsInv == Init => LevelsInv
<1> SUFFICES ASSUME Init PROVE LevelsInv
  OBVIOUS
<1>1. TypeOK
  BY InitIInv DEF IInv
<1>2. /\ conn.status = NoTransaction /\ conn.session = FreshSession
      /\ conn.session.txn = "idle" /\ conn.session.work = {} /\ conn.session.durable = {}
      /\ ~conn.status.in_error /\ conn.status.depth = 0
  BY DEF Init, FreshSession, NoTransaction
<1>3. scopes = <<>> /\ fate = <<>> /\ Len(scopes) = 0 /\ DOMAIN fate = {}
  BY DEF Init
<1>4. Agrees(conn)
  BY <1>1, <1>2 DEF Agrees, TypeOK, Conns
<1>5. Levels(conn, scopes)
  BY <1>2, <1>3 DEF Levels, Engaged
<1>6. Fated(scopes, fate)
  <2>1. 1..Len(scopes) = {} /\ Works(scopes)[0] = {}
    BY <1>3, WorksSplit
  <2> QED BY <1>3, <2>1 DEF Fated
<1>7. Settled(conn, fate)
  BY <1>2, <1>3 DEF Settled
<1> QED BY <1>1, <1>4, <1>5, <1>6, <1>7 DEF LevelsInv

-------------------------------------------------------------------------------
(* transaction() that starts.                                               *)
LEMMA OpenedLevelsInv ==
    ASSUME Obedient, LevelsInv, NEW r, BeginCases(conn, r), NEW test \in BOOLEAN,
           Opened(r, test)
    PROVE  LevelsInv'
<1>1. /\ IInv /\ scopes \in Seq(Scope) /\ fate \in Seq(Fates) /\ Agrees(conn) /\ Levels(conn, scopes)
      /\ Fated(scopes, fate) /\ Settled(conn, fate)
  BY LevelsInvTypes DEF LevelsInv
<1>2. /\ r \in Outcomes /\ r.conn \in Conns /\ Agrees(r.conn) /\ Good(r) /\ conn' = r.conn
      /\ fate' = fate /\ r.conn.session.durable = conn.session.durable
  BY AgreesIsClean DEF BeginCases, Good, Outcomes, Opened
<1>3. TypeOK'
  BY <1>1, <1>2, OpenedIInv DEF IInv
<1>4. CASE /\ r.ret = "ok" /\ ~conn.status.in_error /\ Valid(r.conn, conn.status.depth + 1)
           /\ \/ /\ conn.session.txn = "idle" /\ conn.status.depth = 0
                 /\ r.conn.session = [conn.session EXCEPT !.txn = "open"]
              \/ /\ conn.session.txn = "open" /\ conn.status.depth > 0
                 /\ r.conn.session = SavepointSet(conn.session, conn.status.depth)
  <2>1. scopes' = Append(scopes, NewScope(test))
    BY <1>4 DEF Opened
  <2>2. Levels(r.conn, Append(scopes, NewScope(test)))
    BY <1>1, <1>2, <1>4, OpenedLevels
  <2>3. Fated(Append(scopes, NewScope(test)), fate)
    BY <1>1, FatedOpened
  <2>4. Settled(r.conn, fate)
    BY <1>1, <1>2, <1>4, SettledStill
  <2> QED BY <1>2, <1>3, <2>1, <2>2, <2>3, <2>4 DEF LevelsInv
<1>5. CASE r.ret # "ok" /\ (Refusal(conn, r.conn) \/ Breaks(conn, r.conn))
  <2> DEFINE tc == NoteFailure(scopes)
  <2>1. scopes' = tc
    BY <1>5 DEF Opened
  <2>2. tc \in Seq(Scope)
    BY <1>1, ScopesType
  <2>3. Len(tc) = Len(scopes)
    BY <1>1, NoteFailureIs
  <2>4. \A i \in 1..Len(scopes) : tc[i].wrote = scopes[i].wrote
    BY <1>1, NoteFailureIs
  <2> HIDE DEF tc
  <2>5. Levels(r.conn, tc)
    BY <1>1, <1>2, <1>5, <2>3, RefusedLevels, BrokenLevels DEF tc
  <2>6. Fated(tc, fate)
    BY <1>1, <2>2, <2>3, <2>4, FatedAgain
  <2>7. r.conn.session.txn # "lost" => conn.session.txn # "lost"
    BY <1>5 DEF Refusal, Breaks
  <2>8. Settled(r.conn, fate)
    BY <1>1, <1>2, <2>7, SettledStill
  <2> QED BY <1>2, <1>3, <2>1, <2>5, <2>6, <2>8 DEF LevelsInv
<1> QED BY <1>4, <1>5 DEF BeginCases

(* Setting the flag of a test transaction changes nothing else.             *)
LEMMA FlaggedBegin ==
    ASSUME NEW c, NEW r, BeginCases(c, r), r.ret = "ok"
    PROVE  BeginCases(c, [r EXCEPT !.conn.status = SetTestTransactionFlag(@)])
<1> DEFINE st == r.conn.status
           flagged == SetTestTransactionFlag(st)
           q == [r EXCEPT !.conn.status = flagged]
<1>1. r \in Outcomes /\ r.conn \in Conns /\ st \in Status
  BY DEF BeginCases, Outcomes, Conns
<1>2. flagged \in Status /\ flagged.depth = st.depth /\ (flagged.in_error <=> st.in_error)
  BY <1>1, StatusMoves DEF SetTestTransactionFlag, Status
<1> HIDE DEF flagged
<1>3. q = [ret |-> r.ret, conn |-> [status |-> flagged, session |-> r.conn.session]]
  BY <1>1 DEF Outcomes, Conns
<1> HIDE DEF q
<1>4. /\ q \in Outcomes /\ q.ret = "ok" /\ q.conn \in Conns /\ q.conn.session = r.conn.session
      /\ q.conn.status = flagged
  BY <1>1, <1>2, <1>3 DEF Outcomes, Conns
<1>5. Agrees(q.conn)
  BY <1>2, <1>4 DEF BeginCases, Agrees
<1>6. BeginCases(c, q)
  BY <1>2, <1>4, <1>5 DEF BeginCases, Valid
<1> QED BY <1>6 DEF q, flagged

-------------------------------------------------------------------------------
(* What the end of a level with Err may come to.                            *)
EndCases(c, r) ==
    /\ r \in Outcomes /\ Agrees(r.conn)
    /\ \/ r.conn = c /\ (Dialect = "Sqlite" \/ c.status.in_error)
       \/ /\ Engaged(c.session) /\ r.conn.session.durable = c.session.durable
          /\ IF c.status.depth = 1
             THEN Valid(r.conn, 0) /\ r.conn.session = Closed(c.session)
             ELSE /\ Valid(r.conn, c.status.depth - 1)
                  /\ IF SavesAt(c.session, c.status.depth - 1) # {}
                     THEN r.conn.session = RolledBackTo(c.session, c.status.depth - 1)
                     ELSE r.conn.session = AfterError(c.session)
       \/ /\ Broken(r.conn)
          /\ \/ r.conn.session.durable = c.session.durable
             \/ /\ r.ret = "lost" /\ c.status.depth = 1 /\ c.session.txn = "open"
                /\ r.conn.session.durable = c.session.durable \cup c.session.work

(* The only closure wrote the work of the only level.                       *)
LEMMA OnlyWork ==
    ASSUME NEW c, NEW sc \in Seq(Scope), Levels(c, sc), Engaged(c.session), c.status.depth = 1,
           Len(sc) = 1, NEW ends, Fated(sc, ends)
    PROVE  c.session.work = sc[Len(sc)].wrote
<1>1. Holds(c.session, Works(sc), 1)
  BY DEF Levels
<1>2. c.session.work = Works(sc)[Len(sc)]
  BY <1>1 DEF Holds
<1>3. \A x : x \in Works(sc)[Len(sc)] <=> x \in DOMAIN ends /\ ends[x] = "pending"
  BY DEF Fated
<1>4. \A x : x \in sc[Len(sc)].wrote <=> x \in DOMAIN ends /\ ends[x] = "pending"
  BY TopIsPending
<1>5. Works(sc)[Len(sc)] = sc[Len(sc)].wrote
  BY <1>3, <1>4
<1> QED BY <1>2, <1>5

LEMMA FailsLevelsInv ==
    ASSUME LevelsInv, InScope, NEW r, EndCases(conn, r), conn' = r.conn, Fails(r)
    PROVE  LevelsInv'
<1> DEFINE f == IF Len(scopes) = 1 /\ r.ret = "lost" THEN "unknown" ELSE "dropped"
           top == scopes[Len(scopes)].wrote
           ends == Settle(fate, top, f)
<1>1. /\ IInv /\ scopes \in Seq(Scope) /\ fate \in Seq(Fates) /\ Agrees(conn) /\ Levels(conn, scopes)
      /\ Fated(scopes, fate) /\ Settled(conn, fate) /\ Len(scopes) > 0
  BY LevelsInvTypes DEF LevelsInv, InScope
<1>2. Good(r) /\ Agrees(r.conn)
  BY AgreesIsClean DEF EndCases, Good
<1>3. TypeOK'
  BY <1>1, <1>2, FailsIInv DEF IInv
<1>4. scopes' = Inner(scopes) /\ fate' = ends
  BY DEF Fails, TopScope
<1>5. f \notin {"kept", "pending"}
  OBVIOUS
<1>p. \A x \in top : x \in DOMAIN fate /\ fate[x] = "pending"
  BY <1>1, TopIsPending
<1>6. Fated(Inner(scopes), ends)
  <2> HIDE DEF f
  <2> QED BY <1>1, <1>5, FatedEnded
<1>7. Levels(r.conn, Inner(scopes))
  <2>1. CASE r.conn = conn /\ (Dialect = "Sqlite" \/ conn.status.in_error)
    BY <1>1, <2>1, StuckLevels
  <2>2. CASE /\ Engaged(conn.session)
             /\ IF conn.status.depth = 1
                THEN Valid(r.conn, 0) /\ r.conn.session = Closed(conn.session)
                ELSE /\ Valid(r.conn, conn.status.depth - 1)
                     /\ IF SavesAt(conn.session, conn.status.depth - 1) # {}
                        THEN r.conn.session = RolledBackTo(conn.session, conn.status.depth - 1)
                        ELSE r.conn.session = AfterError(conn.session)
    BY <1>1, <1>2, <2>2, UndoneLevels
  <2>3. CASE Broken(r.conn)
    BY <2>3, GoneLevels
  <2> QED BY <2>1, <2>2, <2>3 DEF EndCases
<1>8. Settled(r.conn, ends)
  <2> HIDE DEF f, top
  <2>1. CASE /\ r.conn.session.durable = conn.session.durable
             /\ r.conn.session.txn # "lost" => conn.session.txn # "lost"
    BY <1>1, <1>5, <1>p, <2>1, SettledQuietly
  <2>2. CASE /\ Broken(r.conn) /\ r.ret = "lost" /\ conn.status.depth = 1 /\ conn.session.txn = "open"
             /\ r.conn.session.durable = conn.session.durable \cup conn.session.work
    <3>1. Engaged(conn.session) /\ ~conn.status.in_error
      BY <1>1, <2>2, EngagedDepth DEF Engaged
    <3>2. Len(scopes) = 1
      BY <1>1, <2>2, <3>1, LevelsDepth
    <3>3. f \notin {"pending", "dropped"}
      BY <2>2, <3>2 DEF f
    <3>4. \A x : x \in top <=> x \in DOMAIN fate /\ fate[x] = "pending"
      BY <1>1, <3>2, TopIsPending DEF top
    <3>5. conn.session.work = top
      BY <1>1, <2>2, <3>1, <3>2, OnlyWork DEF top
    <3> QED BY <1>1, <2>2, <3>3, <3>4, <3>5, SettledCommitted
  <2>3. r.conn = conn \/ Engaged(conn.session) \/ Broken(r.conn) =>
           (r.conn.session.txn # "lost" => conn.session.txn # "lost")
    BY DEF Engaged, Broken
  <2> QED BY <2>1, <2>2, <2>3 DEF EndCases
<1> QED BY <1>2, <1>3, <1>4, <1>6, <1>7, <1>8 DEF LevelsInv

LEMMA NextLevelsInv ==
    ASSUME Obedient, LevelsInv, [Next]_vars
    PROVE  LevelsInv'
<1>1. /\ IInv /\ conn \in Conns /\ scopes \in Seq(Scope) /\ fate \in Seq(Fates) /\ Agrees(conn)
      /\ Levels(conn, scopes) /\ Fated(scopes, fate) /\ Settled(conn, fate) /\ Len(scopes) \in Nat
      /\ conn.session \in Session /\ conn.status \in Status
  BY LevelsInvTypes DEF LevelsInv
<1>2. TypeOK'
  BY <1>1, NextIInv DEF IInv
<1>3. CASE Begin
  <2>1. PICK r \in BeginTransaction(conn) : Opened(r, FALSE)
    BY <1>3 DEF Begin
  <2> QED BY <1>1, <2>1, BeginLevels, OpenedLevelsInv
<1>4. CASE BeginSqlTransaction
  <2>1. PICK r \in BeginTransactionSql(conn) : Opened(r, FALSE)
    BY <1>4 DEF BeginSqlTransaction
  <2>2. CASE IsOpen(conn.status)
    <3>1. r = [ret |-> "already_in_transaction", conn |-> conn]
      BY <2>1, <2>2 DEF BeginTransactionSql, Refused
    <3>2. r \in Outcomes /\ r.ret # "ok" /\ r.conn = conn
      BY <1>1, <3>1 DEF Outcomes, Returns
    <3>3. BeginCases(conn, r)
      BY <1>1, <3>2 DEF BeginCases, Refusal, SameLevels
    <3> QED BY <2>1, <3>3, OpenedLevelsInv
  <2>3. CASE ~IsOpen(conn.status)
    <3>1. r \in BeginTransaction(conn)
      BY <2>1, <2>3 DEF BeginTransactionSql
    <3> QED BY <1>1, <2>1, <3>1, BeginLevels, OpenedLevelsInv
  <2> QED BY <2>2, <2>3
<1>5. CASE BeginTestTransaction
  <2>1. PICK r \in BeginTransaction(conn) :
           Opened(IF r.ret = "ok" THEN [r EXCEPT !.conn.status = SetTestTransactionFlag(@)] ELSE r,
                  TRUE)
    BY <1>5 DEF BeginTestTransaction
  <2>2. BeginCases(conn, r)
    BY <1>1, <2>1, BeginLevels
  <2> DEFINE q == IF r.ret = "ok" THEN [r EXCEPT !.conn.status = SetTestTransactionFlag(@)] ELSE r
  <2>3. BeginCases(conn, q)
    BY <2>2, FlaggedBegin
  <2>4. Opened(q, TRUE)
    BY <2>1
  <2> HIDE DEF q
  <2> QED BY <2>3, <2>4, OpenedLevelsInv
<1>6. CASE Statement
  <2> DEFINE item == Len(fate) + 1
             Result(r) ==
               /\ conn' = r.conn
               /\ IF r.res = "ok"
                  THEN /\ fate' = Append(fate, IF InScope THEN "pending" ELSE "auto")
                       /\ scopes' = IF InScope
                                    THEN [scopes EXCEPT ![Len(scopes)].wrote = @ \cup {Len(fate) + 1}]
                                    ELSE scopes
                  ELSE /\ scopes' = NoteFailure(scopes)
                       /\ UNCHANGED fate
               /\ CountFailure(r.res)
  <2>0. PICK via \in StatementVias : \E r \in Exec(conn, Write(item, via)) : Result(r)
    BY <1>6 DEF Statement
  <2>1. PICK r \in Exec(conn, Write(item, via)) : Result(r)
    BY <2>0
  <2>2. item \in Items /\ item \in Nat
    BY <1>6, LevelsInvTypes DEF Statement
  <2>3. via \in Vias
    BY ViasAssumption
  <2>4. /\ Agrees(r.conn)
        /\ \/ /\ r.res = "ok" /\ SameLevels(conn, r.conn) /\ conn.session.txn \in {"idle", "open"}
              /\ r.conn.session = Written(conn.session, item)
           \/ /\ r.res # "ok" /\ Refusal(conn, r.conn)
              /\ r.conn.session.durable = conn.session.durable
           \/ /\ r.res # "ok" /\ Breaks(conn, r.conn)
              /\ \/ r.conn.session.durable = conn.session.durable
                 \/ /\ conn.session.txn = "idle"
                    /\ r.conn.session.durable = conn.session.durable \cup {item}
    BY <1>1, <2>1, <2>2, <2>3, StatementLevels
  <2>5. CASE /\ r.res = "ok" /\ SameLevels(conn, r.conn) /\ conn.session.txn \in {"idle", "open"}
             /\ r.conn.session = Written(conn.session, item)
    <3>1. Levels(r.conn, IF Len(scopes) > 0 THEN WroteTop(scopes, item) ELSE scopes)
      BY <1>1, <2>2, <2>4, <2>5, WrittenLevels
    <3>2. r.conn.session.durable = IF conn.session.txn = "idle"
                                   THEN conn.session.durable \cup {item} ELSE conn.session.durable
      BY <1>1, <2>5 DEF Written, Session
    <3>3. CASE Len(scopes) > 0
      <4>1. fate' = Append(fate, "pending") /\ scopes' = WroteTop(scopes, item) /\ conn' = r.conn
        BY <2>1, <2>5, <3>3 DEF InScope, WroteTop
      <4>2. Fated(WroteTop(scopes, item), Append(fate, "pending"))
        BY <1>1, <2>2, <3>3, FatedWritten
      <4>3. conn.session.txn = "open"
        <5>1. ~conn.status.in_error
          BY <1>1, <2>5 DEF Agrees
        <5>2. conn.status.depth # 0
          BY <3>3, <5>1, LevelsDepth
        <5> QED BY <1>1, <2>5, <5>2 DEF Agrees
      <4>4. Settled(r.conn, Append(fate, "pending"))
        BY <1>1, <3>2, <4>3, SettledWritten
      <4> QED BY <1>2, <2>4, <3>1, <3>3, <4>1, <4>2, <4>4 DEF LevelsInv
    <3>4. CASE ~(Len(scopes) > 0)
      <4>1. fate' = Append(fate, "auto") /\ scopes' = scopes /\ conn' = r.conn
        BY <2>1, <2>5, <3>4 DEF InScope
      <4>2. Fated(scopes, Append(fate, "auto"))
        BY <1>1, FatedAuto
      <4>3. Settled(r.conn, Append(fate, "auto"))
        <5>1. CASE conn.session.txn = "idle"
          BY <1>1, <3>2, <5>1, SettledWritten
        <5>2. CASE conn.session.txn # "idle"
          <6>1. r.conn.session.durable = conn.session.durable /\ conn.session.txn # "lost"
            BY <2>5, <3>2, <5>2
          <6> QED BY <1>1, <6>1, SettledAuto
        <5> QED BY <5>1, <5>2
      <4> QED BY <1>2, <2>4, <3>1, <3>4, <4>1, <4>2, <4>3 DEF LevelsInv
    <3> QED BY <3>3, <3>4
  <2>6. CASE /\ r.res # "ok" /\ (Refusal(conn, r.conn) \/ Breaks(conn, r.conn))
             /\ \/ r.conn.session.durable = conn.session.durable
                \/ /\ conn.session.txn = "idle" /\ Breaks(conn, r.conn)
                   /\ r.conn.session.durable = conn.session.durable \cup {item}
    <3> DEFINE tc == NoteFailure(scopes)
    <3>1. scopes' = tc /\ fate' = fate /\ conn' = r.conn
      BY <2>1, <2>6
    <3>2. tc \in Seq(Scope)
      BY <1>1, ScopesType
    <3>3. Len(tc) = Len(scopes)
      BY <1>1, NoteFailureIs
    <3>4. \A i \in 1..Len(scopes) : tc[i].wrote = scopes[i].wrote
      BY <1>1, NoteFailureIs
    <3> HIDE DEF tc
    <3>5. Levels(r.conn, tc)
      BY <1>1, <2>4, <2>6, <3>3, RefusedLevels, BrokenLevels DEF tc
    <3>6. Fated(tc, fate)
      BY <1>1, <3>2, <3>3, <3>4, FatedAgain
    <3>7. r.conn.session.txn # "lost" => conn.session.txn # "lost"
      BY <2>6 DEF Refusal, Breaks
    <3>8. Settled(r.conn, fate)
      <4>1. CASE r.conn.session.durable = conn.session.durable
        BY <1>1, <3>7, <4>1, SettledStill
      <4>2. CASE Breaks(conn, r.conn) /\ r.conn.session.durable = conn.session.durable \cup {item}
        <5>1. r.conn.session.txn = "lost"
          BY <4>2 DEF Breaks
        <5> QED BY <1>1, <4>2, <5>1, SettledUnknown
      <4> QED BY <2>6, <4>1, <4>2
    <3> QED BY <1>2, <2>4, <3>1, <3>5, <3>6, <3>8 DEF LevelsInv
  <2> QED BY <2>4, <2>5, <2>6
<1>7. CASE CloseOk
  <2>1. PICK r \in CommitTransaction(conn) :
           /\ conn' = r.conn
           /\ IF r.ret = "ok"
              THEN /\ scopes' = Merge(scopes)
                   /\ fate' = IF Len(scopes) > 1 THEN fate
                              ELSE Settle(fate, TopScope.wrote,
                                          IF TopScope.failed THEN "swallowed" ELSE "kept")
                   /\ UNCHANGED failures
              ELSE Fails(r)
    BY <1>7 DEF CloseOk
  <2>2. /\ r \in Outcomes /\ Agrees(r.conn)
        /\ \/ r.ret # "ok" /\ ~IsOpen(conn.status) /\ r.conn = conn
           \/ IsOpen(conn.status) /\ CommitCases(conn, r)
    BY <1>1, <2>1, CommitLevels
  <2>3. InScope /\ Len(scopes) > 0
    BY <1>7 DEF CloseOk, Closable, InScope
  <2>4. ~IsOpen(conn.status) => conn.status.in_error
    BY <2>3, LevelsDepth
  <2>5. CASE r.ret = "ok"
    <3>1. Engaged(conn.session) /\ Committing(conn, r)
      BY <2>2, <2>5 DEF CommitCases, Undoing, Stuck
    <3>2. Levels(r.conn, Merge(scopes))
      BY <1>1, <2>2, <2>3, <3>1, CommittedLevels
    <3>3. scopes' = Merge(scopes) /\ conn' = r.conn
      BY <2>1, <2>5
    <3>4. /\ conn.status.depth \in Nat \ {0} /\ ~conn.status.in_error /\ conn.session.txn # "lost"
          /\ conn.session \in Session
      BY <1>1, <3>1, EngagedDepth DEF Engaged
    <3>5. conn.status.depth # 1 =>
             r.conn.session.durable = conn.session.durable /\ r.conn.session.txn # "lost"
      BY <3>1, <3>4 DEF Committing, Released, Session
    <3>6. CASE Len(scopes) > 1
      <4>1. fate' = fate
        BY <2>1, <2>5, <3>6
      <4>2. Fated(Merge(scopes), fate)
        BY <1>1, <3>6, FatedMerged
      <4>3. conn.status.depth # 1
        <5>1. Len(scopes) # 1
          <6> DEFINE n == Len(scopes)
          <6>1. n \in Nat /\ n > 1
            BY <1>1, <3>6
          <6> HIDE DEF n
          <6>2. n # 1
            BY <6>1
          <6> QED BY <6>2 DEF n
        <5> QED BY <2>3, <3>4, <5>1, LevelsDepth
      <4>4. Settled(r.conn, fate)
        BY <1>1, <3>4, <3>5, <4>3, SettledStill
      <4> QED BY <1>2, <2>2, <3>2, <3>3, <4>1, <4>2, <4>4 DEF LevelsInv
    <3>7. CASE ~(Len(scopes) > 1)
      <4> DEFINE f == IF TopScope.failed THEN "swallowed" ELSE "kept"
                 top == scopes[Len(scopes)].wrote
                 ends == Settle(fate, top, f)
      <4>0. Len(scopes) = 1
        <5> DEFINE n == Len(scopes)
        <5>1. n \in Nat /\ n > 0 /\ ~(n > 1)
          BY <1>1, <2>3, <3>7
        <5> HIDE DEF n
        <5>2. n = 1
          BY <5>1
        <5> QED BY <5>2 DEF n
      <4>1. fate' = ends /\ Merge(scopes) = Inner(scopes)
        BY <1>1, <2>1, <2>5, <3>7, <4>0, MergeLast DEF TopScope
      <4>2. f \notin {"pending", "dropped"}
        OBVIOUS
      <4>3. Fated(Inner(scopes), ends)
        <5> HIDE DEF f
        <5> QED BY <1>1, <2>3, <4>2, FatedEnded
      <4>4. \A x : x \in top <=> x \in DOMAIN fate /\ fate[x] = "pending"
        BY <1>1, <4>0, TopIsPending
      <4>f. f = "swallowed" \/ ~scopes[Len(scopes)].failed
        BY DEF TopScope
      <4> HIDE DEF f, top
      <4>5. Settled(r.conn, ends)
        <5>1. CASE conn.status.depth = 1 /\ conn.session.txn = "open"
          <6>1. r.conn.session = Committed(conn.session)
            BY <3>1, <5>1 DEF Committing
          <6>2. r.conn.session.durable = conn.session.durable \cup conn.session.work
            BY <3>4, <6>1, LostSessions
          <6>3. conn.session.work = top
            BY <1>1, <3>1, <4>0, <5>1, OnlyWork DEF top
          <6> QED BY <1>1, <3>4, <4>2, <4>4, <6>2, <6>3, SettledCommitted
        <5>2. CASE conn.status.depth = 1 /\ conn.session.txn # "open"
          <6>1. conn.session.txn = "aborted" /\ r.conn.session = Closed(conn.session)
            BY <3>1, <5>2 DEF Committing, Engaged
          <6>2. r.conn.session.durable = conn.session.durable
            BY <3>4, <6>1, LostSessions
          <6>3. f # "kept"
            BY <1>1, <4>f, <6>1 DEF Levels
          <6> QED BY <1>1, <3>4, <4>4, <6>2, <6>3, SettledQuietly
        <5>3. CASE conn.status.depth # 1
          <6>1. Dialect # "Pg"
            BY <1>1, <3>4, <4>0, <5>3 DEF Levels
          <6> QED BY <1>1, <3>4, <3>5, <4>4, <5>3, <6>1, SettledQuietly
        <5> QED BY <5>1, <5>2, <5>3
      <4> QED BY <1>2, <2>2, <3>2, <3>3, <4>1, <4>3, <4>5 DEF LevelsInv
    <3> QED BY <3>6, <3>7
  <2>6. CASE r.ret # "ok"
    <3>1. Fails(r) /\ conn' = r.conn
      BY <2>1, <2>6
    <3>2. EndCases(conn, r)
      <4>1. CASE r.conn = conn /\ ~IsOpen(conn.status)
        BY <2>2, <2>4, <4>1 DEF EndCases
      <4>2. CASE Engaged(conn.session) /\ Undoing(conn, r)
        <5>1. /\ Closed(conn.session).durable = conn.session.durable
              /\ AfterError(conn.session).durable = conn.session.durable
              /\ \A k : RolledBackTo(conn.session, k).durable = conn.session.durable
          BY <1>1, LostSessions, ErrorMoves DEF RolledBackTo, Session
        <5>2. r.conn.session.durable = conn.session.durable
          BY <4>2, <5>1 DEF Undoing
        <5> QED BY <2>2, <4>2, <5>2 DEF EndCases, Undoing
      <4>3. CASE Stuck(conn, r)
        BY <2>2, <4>3 DEF EndCases, Stuck
      <4>4. CASE /\ Broken(r.conn)
                 /\ \/ r.conn.session.durable = conn.session.durable
                    \/ /\ r.ret = "lost" /\ conn.status.depth = 1 /\ conn.session.txn = "open"
                       /\ r.conn.session.durable = conn.session.durable \cup conn.session.work
        BY <2>2, <4>4 DEF EndCases
      <4> QED BY <2>2, <2>6, <4>1, <4>2, <4>3, <4>4 DEF CommitCases, Committing
    <3> QED BY <2>3, <3>1, <3>2, FailsLevelsInv
  <2> QED BY <2>5, <2>6
<1>8. CASE CloseErr
  <2>1. PICK r \in RollbackTransaction(conn) : conn' = r.conn /\ Fails(r)
    BY <1>8 DEF CloseErr
  <2>2. /\ r \in Outcomes /\ Agrees(r.conn)
        /\ r.conn.session.durable = conn.session.durable
        /\ \/ r.ret # "ok" /\ ~IsOpen(conn.status) /\ r.conn = conn
           \/ IsOpen(conn.status) /\ Engaged(conn.session) /\ RolledBack(conn, r)
           \/ IsOpen(conn.status) /\ r.ret # "ok" /\ Broken(r.conn)
    BY <1>1, <2>1, RollbackLevels
  <2>3. InScope /\ Len(scopes) > 0
    BY <1>8 DEF CloseErr, Closable, InScope
  <2>4. ~IsOpen(conn.status) => conn.status.in_error
    BY <2>3, LevelsDepth
  <2>5. EndCases(conn, r)
    BY <2>2, <2>4 DEF EndCases, RolledBack
  <2> QED BY <2>1, <2>3, <2>5, FailsLevelsInv
<1>9. CASE UNCHANGED vars
  BY <1>9 DEF vars, LevelsInv, TypeOK
<1> QED BY <1>3, <1>4, <1>5, <1>6, <1>7, <1>8, <1>9 DEF Next

-------------------------------------------------------------------------------
(* The theorems of LevelsInv.                                              *)

(* LevelsInv holds in every reachable state.                                *)
THEOREM LevelsInvHolds ==
    ASSUME Obedient
    PROVE  Spec => []LevelsInv
<1>1. Init => LevelsInv
  BY InitLevelsInv
<1>2. LevelsInv /\ [Next]_vars => LevelsInv'
  BY NextLevelsInv
<1> QED BY <1>1, <1>2, PTL DEF Spec

(* What LevelsInv says of PostgreSQL.                                       *)
LEMMA LevelsFollow ==
    ASSUME LevelsInv, Dialect = "Pg"
    PROVE  /\ DepthIsScopes /\ NoSilentAutocommit /\ WorkIsPending /\ SavepointsHoldOuterWork
           /\ KeptIsDurable
<1> DEFINE n == Len(scopes)
           d == conn.status.depth
<1>0. /\ n \in Nat /\ conn.session \in Session /\ Agrees(conn) /\ Levels(conn, scopes)
      /\ Settled(conn, fate)
  BY LevelsInvTypes DEF LevelsInv
<1>1. IsOpen(conn.status) => d = n
  BY <1>0 DEF Levels, IsOpen
<1>2. InOrder => d = n /\ Holds(conn.session, Works(scopes), n)
  BY <1>0, <1>1 DEF InOrder, Levels, Engaged, Agrees
<1>3. \A k \in Nat : Works(scopes)[k] = WroteUpTo(k)
  BY DEF Works, Wrote, WroteUpTo
<1>4. DepthIsScopes
  BY <1>1 DEF DepthIsScopes
<1>5. NoSilentAutocommit
  BY <1>0 DEF NoSilentAutocommit, Agrees, IsOpen
<1>6. WorkIsPending
  BY <1>0, <1>2, <1>3 DEF WorkIsPending, Holds
<1>7. SavepointsHoldOuterWork
  <2> SUFFICES ASSUME InOrder, NEW k \in 1..(d - 1)
               PROVE  /\ SavesAt(conn.session, k) # {}
                      /\ conn.session.saves[Newest(conn.session, k)].work = WroteUpTo(k)
    BY DEF SavepointsHoldOuterWork
  <2> HIDE DEF n, d
  <2>1. k \in Nat /\ k \in 1..(n - 1)
    BY <1>2
  <2>2. SavesAt(conn.session, k) # {} /\ conn.session.saves[Newest(conn.session, k)].work = Works(scopes)[k]
    BY <1>2, <2>1 DEF Holds
  <2> QED BY <1>3, <2>1, <2>2
<1>8. KeptIsDurable
  BY <1>0 DEF KeptIsDurable, FateIs, Settled
<1> QED BY <1>4, <1>5, <1>6, <1>7, <1>8

LEMMA LevelsUndo == LevelsInv => DroppedIsUndone /\ PendingIsNotDurable
BY DEF LevelsInv, Settled, DroppedIsUndone, PendingIsNotDurable, FateIs

(* Over PostgreSQL, whatever the faults: the depth is that of the closures,
   no statement commits on its own while the manager takes the transaction to
   be in order, a COMMIT would make durable what the running closures wrote,
   the newest savepoint of a level holds the work below it, and what
   transaction() returned Ok for is committed.                              *)
THEOREM PgLevels ==
    ASSUME Dialect = "Pg"
    PROVE  Spec => [](/\ DepthIsScopes /\ NoSilentAutocommit /\ WorkIsPending
                      /\ SavepointsHoldOuterWork /\ KeptIsDurable)
<1>1. Obedient
  BY DEF Obedient
<1>2. Spec => []LevelsInv
  BY <1>1, LevelsInvHolds
<1>3. LevelsInv => /\ DepthIsScopes /\ NoSilentAutocommit /\ WorkIsPending
                   /\ SavepointsHoldOuterWork /\ KeptIsDurable
  BY LevelsFollow
<1> QED BY <1>2, <1>3, PTL

(* Over an obedient database, which ends a transaction only when it is told
   to or when the connection breaks: what a closure that returned Err wrote
   never becomes durable, nor does what a running closure wrote.            *)
THEOREM ErrUndoes ==
    ASSUME Obedient
    PROVE  Spec => [](DroppedIsUndone /\ PendingIsNotDurable)
<1>1. Spec => []LevelsInv
  BY LevelsInvHolds
<1> QED BY <1>1, LevelsUndo, PTL

-------------------------------------------------------------------------------
(* The promise of Connection::transaction, over PostgreSQL.                *)

(* The stack of NestedTransaction that the closures sc stand for.           *)
Stack(sc) == [i \in DOMAIN sc |-> sc[i].wrote]

LEMMA StackIs ==
    ASSUME NEW sc \in Seq(Scope)
    PROVE  /\ Stack(sc) \in Seq(SUBSET Items) /\ Len(Stack(sc)) = Len(sc)
           /\ \A i \in 1..Len(sc) : Stack(sc)[i] = sc[i].wrote
<1>1. Len(sc) \in Nat /\ DOMAIN sc = 1..Len(sc)
  BY LenProperties
<1>2. \A i \in 1..Len(sc) : sc[i].wrote \in SUBSET Items
  <2>1. \A i \in 1..Len(sc) : sc[i] \in Scope
    BY ElementOfSeq
  <2> QED BY <2>1 DEF Scope
<1> DEFINE n == Len(sc)
           st == [i \in 1..n |-> sc[i].wrote]
<1>3. Stack(sc) = st
  BY <1>1 DEF Stack
<1> HIDE DEF n
<1>4. st \in [1..n -> SUBSET Items] /\ n \in Nat
  BY <1>1, <1>2 DEF n
<1>5. \A i \in 1..n : st[i] = sc[i].wrote
  OBVIOUS
<1> HIDE DEF st
<1>6. st \in Seq(SUBSET Items) /\ Len(st) = n
  BY <1>4
<1> QED BY <1>3, <1>5, <1>6 DEF n

LEMMA StackSame ==
    ASSUME NEW sc \in Seq(Scope), NEW tc \in Seq(Scope), Len(tc) = Len(sc),
           \A i \in 1..Len(sc) : tc[i].wrote = sc[i].wrote
    PROVE  Stack(tc) = Stack(sc)
<1>1. DOMAIN tc = 1..Len(sc) /\ DOMAIN sc = 1..Len(sc)
  BY LenProperties
<1> QED BY <1>1 DEF Stack

LEMMA StackOpened ==
    ASSUME NEW sc \in Seq(Scope), NEW test \in BOOLEAN
    PROVE  Stack(Append(sc, NewScope(test))) = Append(Stack(sc), {})
<1> DEFINE tc == Append(sc, NewScope(test))
           n == Len(sc)
           s == Stack(tc)
           t == Stack(sc)
           u == Append(t, {})
<1>1. n \in Nat
  BY LenProperties
<1>2. tc \in Seq(Scope)
  BY OpenedIs
<1>3. Len(tc) = n + 1
  BY OpenedIs
<1>4. tc[n + 1].wrote = {}
  <2>1. tc[n + 1] = NewScope(test)
    BY OpenedIs
  <2>2. NewScope(test).wrote = {}
    BY OpenedIs
  <2> QED BY <2>1, <2>2
<1>5. \A i \in 1..n : tc[i] = sc[i]
  BY OpenedIs
<1> HIDE DEF tc
<1>6. s \in Seq(SUBSET Items) /\ Len(s) = n + 1 /\ \A i \in 1..(n + 1) : s[i] = tc[i].wrote
  BY <1>2, <1>3, StackIs
<1>7. t \in Seq(SUBSET Items) /\ Len(t) = n /\ \A i \in 1..n : t[i] = sc[i].wrote
  BY StackIs
<1> HIDE DEF s, t, n
<1>8. {} \in SUBSET Items
  OBVIOUS
<1>9. /\ u \in Seq(SUBSET Items) /\ Len(u) = n + 1 /\ u[n + 1] = {}
      /\ \A i \in 1..n : u[i] = t[i]
  BY ONLY <1>7, <1>8, AppendProperties
<1> HIDE DEF u
<1>10. \A i \in 1..(n + 1) : i \in 1..n \/ i = n + 1
  BY <1>1
<1>11. ASSUME NEW i \in 1..(n + 1) PROVE s[i] = u[i]
  <2>1. CASE i \in 1..n
    BY ONLY <2>1, <1>5, <1>6, <1>7, <1>9, <1>11
  <2>2. CASE i = n + 1
    BY ONLY <2>2, <1>4, <1>6, <1>9, <1>11
  <2> QED BY <1>10, <2>1, <2>2
<1>12. s = u
  BY ONLY <1>6, <1>9, <1>11, SeqEqual
<1> QED BY <1>12 DEF s, u, t, tc

LEMMA StackWrote ==
    ASSUME NEW sc \in Seq(Scope), Len(sc) > 0, NEW item \in Items
    PROVE  Stack(WroteTop(sc, item)) = [Stack(sc) EXCEPT ![Len(Stack(sc))] = @ \cup {item}]
<1> DEFINE tc == WroteTop(sc, item)
           n == Len(sc)
           t == Stack(sc)
           u == [t EXCEPT ![n] = @ \cup {item}]
<1>1. n \in Nat /\ n \in 1..n /\ DOMAIN sc = 1..n
  BY LenProperties
<1>2. DOMAIN tc = 1..n
  BY <1>1 DEF WroteTop
<1>3. tc[n].wrote = sc[n].wrote \cup {item}
  BY WroteTopIs
<1>4. \A i \in 1..n : i # n => tc[i].wrote = sc[i].wrote
  BY WroteTopIs
<1>5. Len(t) = n
  BY StackIs
<1> HIDE DEF tc, n
<1>6. t = [i \in 1..n |-> sc[i].wrote]
  BY <1>1 DEF Stack
<1>7. Stack(tc) = [i \in 1..n |-> tc[i].wrote]
  BY <1>2 DEF Stack
<1> HIDE DEF t
<1>8. u = [i \in 1..n |-> tc[i].wrote]
  BY <1>1, <1>3, <1>4, <1>6
<1>9. Stack(tc) = u
  BY <1>7, <1>8
<1> QED BY <1>5, <1>9 DEF tc, t

LEMMA StackInner ==
    ASSUME NEW sc \in Seq(Scope), Len(sc) > 0
    PROVE  Stack(Inner(sc)) = SubSeq(Stack(sc), 1, Len(sc) - 1)
<1> DEFINE tc == Inner(sc)
           n == Len(sc)
           s == Stack(tc)
           t == Stack(sc)
           u == SubSeq(t, 1, n - 1)
<1>0. n \in Nat
  BY LenProperties
<1>g. n > 0
  OBVIOUS
<1>1. tc \in Seq(Scope)
  BY EmptySeq, ScopesType
<1>2. Len(tc) = n - 1
  BY InnerIs
<1>3. \A i \in 1..(n - 1) : tc[i] = sc[i]
  BY InnerIs
<1> HIDE DEF tc
<1>4. s \in Seq(SUBSET Items) /\ Len(s) = n - 1 /\ \A i \in 1..(n - 1) : s[i] = tc[i].wrote
  BY <1>1, <1>2, StackIs
<1>5. t \in Seq(SUBSET Items) /\ Len(t) = n /\ \A i \in 1..n : t[i] = sc[i].wrote
  BY StackIs
<1> HIDE DEF s, t, n
<1>6. 1 \in Int /\ n - 1 \in Int /\ \A i \in 1..(n - 1) : i \in 1..n /\ 1 + i - 1 = i
  BY <1>0
<1>7. \A i \in 1..(n - 1) : t[i] \in SUBSET Items
  <2>1. \A i \in 1..n : t[i] \in SUBSET Items
    BY ONLY <1>5, ElementOfSeq
  <2> QED BY <1>6, <2>1
<1>8. /\ u \in Seq(SUBSET Items) /\ Len(u) = IF 1 <= n - 1 THEN n - 1 - 1 + 1 ELSE 0
      /\ \A i \in 1..(n - 1 - 1 + 1) : u[i] = t[1 + i - 1]
  BY ONLY <1>6, <1>7, SubSeqProperties
<1> HIDE DEF u
<1>9. Len(u) = n - 1 /\ 1..(n - 1 - 1 + 1) = 1..(n - 1)
  BY <1>0, <1>g, <1>8
<1>10. \A i \in 1..Len(s) : s[i] = u[i]
  BY <1>3, <1>4, <1>5, <1>6, <1>8, <1>9
<1>11. s = u
  BY ONLY <1>4, <1>8, <1>9, <1>10, SeqEqual
<1> QED BY <1>11 DEF s, u, t, tc, n

LEMMA StackMerged ==
    ASSUME NEW sc \in Seq(Scope), Len(sc) > 1
    PROVE  Stack(Merge(sc)) =
              [SubSeq(Stack(sc), 1, Len(sc) - 1) EXCEPT ![Len(sc) - 1] = @ \cup Stack(sc)[Len(sc)]]
<1> DEFINE tc == Inner(sc)
           mc == Merge(sc)
           n == Len(sc)
           last == sc[n].wrote
           u == [Stack(tc) EXCEPT ![n - 1] = @ \cup last]
<1>0. n \in Nat
  BY LenProperties
<1>g. n > 1 /\ n > 0
  <2>1. n > 1
    OBVIOUS
  <2> HIDE DEF n
  <2> QED BY <1>0, <2>1
<1>e. sc # <<>>
  BY <1>g, EmptySeq
<1>1. tc \in Seq(Scope) /\ mc \in Seq(Scope)
  BY <1>e, ScopesType, MergeType
<1>2. Len(tc) = n - 1
  BY <1>g, InnerIs
<1>3. \A i \in 1..(n - 1) : tc[i] = sc[i]
  BY <1>g, InnerIs
<1>4. Len(mc) = n - 1
  BY MergeIs
<1>5. \A i \in 1..(n - 1) : i # n - 1 => mc[i] = sc[i]
  BY MergeIs
<1>6. mc[n - 1].wrote = sc[n - 1].wrote \cup last
  BY MergeIs
<1>7. Stack(tc) = SubSeq(Stack(sc), 1, n - 1)
  BY <1>g, StackInner
<1>8. n \in 1..n /\ n - 1 \in 1..(n - 1)
  <2> HIDE DEF n
  <2> QED BY <1>0, <1>g
<1>9. Stack(sc)[n] = last
  BY <1>8, StackIs
<1> HIDE DEF tc, mc, n, last
<1>10. DOMAIN tc = 1..(n - 1) /\ DOMAIN mc = 1..(n - 1)
  BY <1>1, <1>2, <1>4, LenProperties
<1>11. Stack(tc) = [i \in 1..(n - 1) |-> tc[i].wrote]
  BY <1>10 DEF Stack
<1>12. Stack(mc) = [i \in 1..(n - 1) |-> mc[i].wrote]
  BY <1>10 DEF Stack
<1>13. u = [i \in 1..(n - 1) |-> mc[i].wrote]
  <2> DEFINE t == Stack(tc)
             v == [i \in 1..(n - 1) |-> IF i = n - 1 THEN t[n - 1] \cup last ELSE t[i]]
  <2>1. u = v
    BY <1>11
  <2>2. \A i \in 1..(n - 1) : t[i] = sc[i].wrote
    BY <1>3, <1>11
  <2>3. \A i \in 1..(n - 1) : v[i] = mc[i].wrote
    <3> HIDE DEF t
    <3> QED BY <1>5, <1>6, <1>8, <2>2
  <2>4. v = [i \in 1..(n - 1) |-> v[i]]
    OBVIOUS
  <2> HIDE DEF v
  <2>5. v = [i \in 1..(n - 1) |-> mc[i].wrote]
    BY <2>3, <2>4
  <2> QED BY <2>1, <2>5
<1>14. Stack(mc) = u
  BY <1>12, <1>13
<1> QED BY <1>7, <1>9, <1>14 DEF mc, n

(* The promise of Connection::transaction, with the closures of the model.  *)
Nested == INSTANCE NestedTransaction WITH
    Item      <- Items,
    stack     <- Stack(scopes),
    durable   <- conn.session.durable,
    doomed    <- conn.session.txn = "aborted",
    connected <- conn.session.txn # "lost"

NestedStep == Nested!NestedNext \/ UNCHANGED Nested!nestedVars

LEMMA OpenStep ==
    ASSUME scopes \in Seq(Scope), NEW test \in BOOLEAN, scopes' = Append(scopes, NewScope(test)),
           conn.session.txn \in {"idle", "open"}, conn'.session.txn = "open",
           conn'.session.durable = conn.session.durable
    PROVE  NestedStep
<1>1. Stack(scopes') = Append(Stack(scopes), {})
  BY StackOpened
<1>2. Nested!Open
  BY <1>1 DEF Nested!Open
<1> QED BY <1>2 DEF NestedStep, Nested!NestedNext

LEMMA PutStep ==
    ASSUME scopes \in Seq(Scope), NEW item \in Items,
           conn.session.txn \in {"idle", "open"}, conn'.session.txn = conn.session.txn,
           IF Len(scopes) > 0
           THEN scopes' = WroteTop(scopes, item) /\ conn'.session.durable = conn.session.durable
           ELSE /\ Stack(scopes') = Stack(scopes)
                /\ conn'.session.durable = conn.session.durable \cup {item}
    PROVE  NestedStep
<1>1. Len(scopes) \in Nat /\ Len(Stack(scopes)) = Len(scopes)
  BY LenProperties, StackIs
<1>2. CASE Len(scopes) > 0
  <2>1. Stack(scopes') = [Stack(scopes) EXCEPT ![Len(Stack(scopes))] = @ \cup {item}]
    BY <1>2, StackWrote
  <2>2. Len(Stack(scopes)) # 0
    BY <1>1, <1>2
  <2>3. Nested!Put(item)
    BY <1>2, <2>1, <2>2 DEF Nested!Put, Nested!Depth
  <2> QED BY <2>3 DEF NestedStep, Nested!NestedNext
<1>3. CASE ~(Len(scopes) > 0)
  <2>1. Len(Stack(scopes)) = 0
    BY <1>1, <1>3
  <2>2. Nested!Put(item)
    BY <1>3, <2>1 DEF Nested!Put, Nested!Depth
  <2> QED BY <2>2 DEF NestedStep, Nested!NestedNext
<1> QED BY <1>2, <1>3

LEMMA DoomStep ==
    ASSUME scopes \in Seq(Scope), Len(scopes) > 0, Stack(scopes') = Stack(scopes),
           conn.session.txn = "open", conn'.session.txn = "aborted",
           conn'.session.durable = conn.session.durable
    PROVE  NestedStep
<1>1. Len(Stack(scopes)) = Len(scopes)
  BY StackIs
<1>2. Len(Stack(scopes)) > 0
  BY <1>1
<1>3. Nested!Doom
  BY <1>2 DEF Nested!Doom, Nested!Depth
<1> QED BY <1>3 DEF NestedStep, Nested!NestedNext

LEMMA StutterStep ==
    ASSUME Stack(scopes') = Stack(scopes), conn'.session.txn = conn.session.txn,
           conn'.session.durable = conn.session.durable
    PROVE  NestedStep
BY DEF NestedStep, Nested!nestedVars

LEMMA KeepStep ==
    ASSUME scopes \in Seq(Scope), Len(scopes) > 0, scopes' = Merge(scopes),
           conn.session.txn = "open", conn'.session.txn \in {"idle", "open"},
           conn'.session.durable = IF Len(scopes) = 1
                                   THEN conn.session.durable \cup scopes[Len(scopes)].wrote
                                   ELSE conn.session.durable
    PROVE  NestedStep
<1> DEFINE n == Len(scopes)
<1>0. n \in Nat /\ n > 0 /\ n \in 1..n
  BY LenProperties
<1>1. Len(Stack(scopes)) = n /\ Stack(scopes)[n] = scopes[n].wrote
  BY <1>0, StackIs
<1>2. CASE n = 1
  <2>1. scopes' = <<>>
    BY <1>2 DEF Merge
  <2>2. Stack(scopes') = <<>>
    BY <2>1, StackIs, EmptySeq
  <2>3. Nested!Keep
    BY <1>1, <1>2, <2>2 DEF Nested!Keep, Nested!Depth, Nested!Top
  <2> QED BY <2>3 DEF NestedStep, Nested!NestedNext
<1>3. CASE n # 1
  <2>1. n > 1
    <3> HIDE DEF n
    <3> QED BY <1>0, <1>3
  <2>2. Stack(scopes') = [SubSeq(Stack(scopes), 1, n - 1) EXCEPT ![n - 1] = @ \cup Stack(scopes)[n]]
    BY <2>1, StackMerged
  <2>3. conn'.session.durable = conn.session.durable
    BY <1>3
  <2> HIDE DEF n
  <2>4. Nested!Keep
    BY <1>0, <1>1, <1>3, <2>2, <2>3 DEF Nested!Keep, Nested!Depth, Nested!Top, Nested!Outer
  <2> QED BY <2>4 DEF NestedStep, Nested!NestedNext
<1> QED BY <1>2, <1>3

LEMMA DropStep ==
    ASSUME scopes \in Seq(Scope), Len(scopes) > 0, scopes' = Inner(scopes),
           conn'.session.txn # "aborted", conn'.session.txn = "lost" <=> conn.session.txn = "lost",
           conn'.session.durable = conn.session.durable
    PROVE  NestedStep
<1>1. Stack(scopes') = SubSeq(Stack(scopes), 1, Len(scopes) - 1)
  BY StackInner
<1>2. Len(Stack(scopes)) = Len(scopes)
  BY StackIs
<1>3. Nested!Drop
  BY <1>1, <1>2 DEF Nested!Drop, Nested!Depth, Nested!Outer
<1> QED BY <1>3 DEF NestedStep, Nested!NestedNext

LEMMA BreakStep ==
    ASSUME scopes \in Seq(Scope), conn'.session.txn = "lost",
           \/ /\ Stack(scopes') = Stack(scopes)
              /\ \/ conn'.session.durable = conn.session.durable
                 \/ /\ Len(scopes) = 0
                    /\ \E item \in Items : conn'.session.durable = conn.session.durable \cup {item}
           \/ /\ Len(scopes) > 0 /\ scopes' = Inner(scopes)
              /\ \/ conn'.session.durable = conn.session.durable
                 \/ /\ Len(scopes) = 1 /\ conn.session.txn = "open"
                    /\ conn'.session.durable = conn.session.durable \cup scopes[Len(scopes)].wrote
    PROVE  NestedStep
<1>1. Len(Stack(scopes)) = Len(scopes) /\ Len(scopes) \in Nat
  BY StackIs, LenProperties
<1>2. CASE Stack(scopes') = Stack(scopes)
              /\ (\/ conn'.session.durable = conn.session.durable
                  \/ /\ Len(scopes) = 0
                     /\ \E item \in Items : conn'.session.durable = conn.session.durable \cup {item})
  <2>1. Nested!Break
    BY <1>1, <1>2 DEF Nested!Break, Nested!Depth
  <2> QED BY <2>1 DEF NestedStep, Nested!NestedNext
<1>3. CASE /\ Len(scopes) > 0 /\ scopes' = Inner(scopes)
           /\ \/ conn'.session.durable = conn.session.durable
              \/ /\ Len(scopes) = 1 /\ conn.session.txn = "open"
                 /\ conn'.session.durable = conn.session.durable \cup scopes[Len(scopes)].wrote
  <2>1. Stack(scopes') = SubSeq(Stack(scopes), 1, Len(Stack(scopes)) - 1)
    BY <1>1, <1>3, StackInner
  <2>2. Len(scopes) \in 1..Len(scopes)
    BY <1>1, <1>3
  <2>3. Stack(scopes)[Len(Stack(scopes))] = scopes[Len(scopes)].wrote
    BY <1>1, <2>2, StackIs
  <2>4. Len(Stack(scopes)) > 0
    BY <1>1, <1>3
  <2>5. Nested!Break
    BY <1>1, <1>3, <2>1, <2>3, <2>4 DEF Nested!Break, Nested!Depth, Nested!Top, Nested!Outer
  <2> QED BY <2>5 DEF NestedStep, Nested!NestedNext
<1> QED BY <1>2, <1>3

LEMMA NoteStack ==
    ASSUME NEW sc \in Seq(Scope)
    PROVE  Stack(NoteFailure(sc)) = Stack(sc)
<1> DEFINE tc == NoteFailure(sc)
<1>1. tc \in Seq(Scope)
  BY ScopesType
<1>2. Len(tc) = Len(sc)
  BY NoteFailureIs
<1>3. \A i \in 1..Len(sc) : tc[i].wrote = sc[i].wrote
  BY NoteFailureIs
<1> HIDE DEF tc
<1>4. Stack(tc) = Stack(sc)
  BY <1>1, <1>2, <1>3, StackSame
<1> QED BY <1>4 DEF tc

(* On PostgreSQL the closures are the levels.                               *)
LEMMA PgDepth ==
    ASSUME Dialect = "Pg", LevelsInv
    PROVE  /\ scopes \in Seq(Scope) /\ Len(scopes) \in Nat /\ conn.session \in Session
           /\ conn.session.txn \in {"idle", "open", "aborted", "lost"}
           /\ conn.session.txn = "idle" => Len(scopes) = 0
           /\ conn.session.txn \in {"open", "aborted"} => Len(scopes) > 0 /\ conn.status.depth = Len(scopes)
<1> DEFINE n == Len(scopes)
           d == conn.status.depth
<1>1. n \in Nat /\ d \in Nat /\ scopes \in Seq(Scope) /\ conn.session \in Session
  BY LevelsInvTypes DEF Status
<1>2. /\ conn.session.txn \in {"idle", "open", "aborted", "lost"}
      /\ conn.session.txn # "lost" => ~conn.status.in_error /\ (conn.session.txn = "idle" <=> d = 0)
      /\ ~conn.status.in_error => d = n
  BY DEF LevelsInv, Agrees, Levels
<1> HIDE DEF n, d
<1>3. conn.session.txn = "idle" => n = 0
  BY <1>2
<1>4. conn.session.txn \in {"open", "aborted"} => n > 0 /\ d = n
  BY <1>1, <1>2
<1> QED BY <1>1, <1>2, <1>3, <1>4 DEF n, d

LEMMA RefusedNested ==
    ASSUME Dialect = "Pg", LevelsInv, scopes' = NoteFailure(scopes),
           \/ Refusal(conn, conn') /\ conn'.session.durable = conn.session.durable
           \/ /\ Breaks(conn, conn')
              /\ \/ conn'.session.durable = conn.session.durable
                 \/ /\ conn.session.txn = "idle"
                    /\ \E item \in Items : conn'.session.durable = conn.session.durable \cup {item}
    PROVE  NestedStep
<1>1. scopes \in Seq(Scope) /\ conn.session \in Session
  BY PgDepth
<1>2. Stack(scopes') = Stack(scopes)
  BY <1>1, NoteStack
<1>3. CASE conn'.session = conn.session
  BY <1>2, <1>3, StutterStep
<1>4. CASE conn.session.txn = "open" /\ conn'.session = [conn.session EXCEPT !.txn = "aborted"]
  <2>1. conn'.session.txn = "aborted" /\ conn'.session.durable = conn.session.durable
    BY <1>1, <1>4 DEF Session
  <2>2. Len(scopes) > 0
    BY <1>4, PgDepth
  <2> QED BY <1>1, <1>2, <1>4, <2>1, <2>2, DoomStep
<1>5. CASE Breaks(conn, conn')
  <2>1. conn'.session.txn = "lost"
    BY <1>5 DEF Breaks
  <2>2. conn.session.txn = "idle" => Len(scopes) = 0
    BY PgDepth
  <2>3. \/ conn'.session.durable = conn.session.durable
        \/ /\ conn.session.txn = "idle"
           /\ \E item \in Items : conn'.session.durable = conn.session.durable \cup {item}
    BY DEF Refusal
  <2> QED BY <1>1, <1>2, <2>1, <2>2, <2>3, BreakStep
<1> QED BY <1>3, <1>4, <1>5 DEF Refusal

LEMMA OpenedNested ==
    ASSUME Dialect = "Pg", LevelsInv, NEW r, BeginCases(conn, r), NEW test \in BOOLEAN,
           Opened(r, test)
    PROVE  NestedStep
<1>1. scopes \in Seq(Scope) /\ conn.session \in Session
  BY PgDepth
<1>2. conn' = r.conn /\ r.conn.session.durable = conn.session.durable
  BY DEF BeginCases, Opened
<1>3. CASE /\ r.ret = "ok" /\ ~conn.status.in_error /\ Valid(r.conn, conn.status.depth + 1)
           /\ \/ /\ conn.session.txn = "idle" /\ conn.status.depth = 0
                 /\ r.conn.session = [conn.session EXCEPT !.txn = "open"]
              \/ /\ conn.session.txn = "open" /\ conn.status.depth > 0
                 /\ r.conn.session = SavepointSet(conn.session, conn.status.depth)
  <2>1. scopes' = Append(scopes, NewScope(test))
    BY <1>3 DEF Opened
  <2>2. conn.session.txn \in {"idle", "open"} /\ r.conn.session.txn = "open"
    BY <1>1, <1>3 DEF Session, SavepointSet
  <2> QED BY <1>1, <1>2, <2>1, <2>2, OpenStep
<1>4. CASE r.ret # "ok" /\ (Refusal(conn, r.conn) \/ Breaks(conn, r.conn))
  <2>1. scopes' = NoteFailure(scopes)
    BY <1>4 DEF Opened
  <2> QED BY <1>2, <1>4, <2>1, RefusedNested
<1> QED BY <1>3, <1>4 DEF BeginCases

(* A commit that does not succeed ends the level with Err.                  *)
LEMMA CommitEnds ==
    ASSUME NEW c, Agrees(c), NEW r \in Outcomes, Agrees(r.conn), r.ret # "ok",
           \/ r.conn = c /\ c.status.in_error
           \/ CommitCases(c, r)
    PROVE  EndCases(c, r)
<1>0. c.session \in Session
  BY DEF Agrees, Conns
<1>1. CASE r.conn = c /\ c.status.in_error
  BY <1>1 DEF EndCases
<1>2. CASE Engaged(c.session) /\ Undoing(c, r)
  <2>1. /\ Closed(c.session).durable = c.session.durable
        /\ AfterError(c.session).durable = c.session.durable
        /\ \A k : RolledBackTo(c.session, k).durable = c.session.durable
    BY <1>0, LostSessions, ErrorMoves DEF RolledBackTo, Session
  <2>2. r.conn.session.durable = c.session.durable
    BY <1>2, <2>1 DEF Undoing
  <2> QED BY <1>2, <2>2 DEF EndCases, Undoing
<1>3. CASE Stuck(c, r)
  BY <1>3 DEF EndCases, Stuck
<1>4. CASE /\ Broken(r.conn)
           /\ \/ r.conn.session.durable = c.session.durable
              \/ /\ r.ret = "lost" /\ c.status.depth = 1 /\ c.session.txn = "open"
                 /\ r.conn.session.durable = c.session.durable \cup c.session.work
  BY <1>4 DEF EndCases
<1> QED BY <1>1, <1>2, <1>3, <1>4 DEF CommitCases, Committing

LEMMA FailsNested ==
    ASSUME Dialect = "Pg", LevelsInv, InScope, NEW r, EndCases(conn, r), conn' = r.conn, Fails(r)
    PROVE  NestedStep
<1>1. /\ scopes \in Seq(Scope) /\ Len(scopes) > 0 /\ scopes' = Inner(scopes)
      /\ Agrees(conn) /\ Levels(conn, scopes) /\ Agrees(r.conn)
  BY PgDepth DEF InScope, Fails, LevelsInv, EndCases
<1>2. CASE r.conn = conn /\ conn.status.in_error
  <2>1. conn.session.txn = "lost"
    BY <1>1, <1>2 DEF Agrees
  <2> QED BY <1>1, <1>2, <2>1, DropStep
<1>3. CASE /\ Engaged(conn.session) /\ r.conn.session.durable = conn.session.durable
           /\ IF conn.status.depth = 1
              THEN Valid(r.conn, 0) /\ r.conn.session = Closed(conn.session)
              ELSE /\ Valid(r.conn, conn.status.depth - 1)
                   /\ IF SavesAt(conn.session, conn.status.depth - 1) # {}
                      THEN r.conn.session = RolledBackTo(conn.session, conn.status.depth - 1)
                      ELSE r.conn.session = AfterError(conn.session)
  <2>1. r.conn.session.txn \notin {"aborted", "lost"}
    BY <1>1, <1>3, UndoneLevels
  <2>2. conn.session.txn # "lost"
    BY <1>3 DEF Engaged
  <2> QED BY <1>1, <1>3, <2>1, <2>2, DropStep
<1>4. CASE /\ Broken(r.conn)
           /\ \/ r.conn.session.durable = conn.session.durable
              \/ /\ conn.status.depth = 1 /\ conn.session.txn = "open"
                 /\ r.conn.session.durable = conn.session.durable \cup conn.session.work
  <2>1. r.conn.session.txn = "lost"
    BY <1>4 DEF Broken
  <2>2. CASE r.conn.session.durable = conn.session.durable
    BY <1>1, <2>1, <2>2, BreakStep
  <2>3. CASE /\ conn.status.depth = 1 /\ conn.session.txn = "open"
             /\ r.conn.session.durable = conn.session.durable \cup conn.session.work
    <3>1. Len(scopes) = 1
      BY <2>3, PgDepth
    <3>2. conn.session.work = scopes[Len(scopes)].wrote
      BY <1>1, <2>3, <3>1, OnlyWork DEF LevelsInv, Engaged
    <3> QED BY <1>1, <2>1, <2>3, <3>1, <3>2, BreakStep
  <2> QED BY <1>4, <2>2, <2>3
<1> QED BY <1>2, <1>3, <1>4 DEF EndCases

LEMMA KeptNested ==
    ASSUME Dialect = "Pg", LevelsInv, InScope, NEW r, CommitCases(conn, r), r.ret = "ok",
           conn' = r.conn, scopes' = Merge(scopes)
    PROVE  NestedStep
<1>1. /\ scopes \in Seq(Scope) /\ Len(scopes) > 0 /\ conn.session \in Session
      /\ Levels(conn, scopes) /\ Fated(scopes, fate)
  BY PgDepth DEF InScope, LevelsInv
<1>2. Engaged(conn.session) /\ Committing(conn, r)
  BY DEF CommitCases, Undoing, Stuck
<1>3. conn.status.depth = Len(scopes)
  BY <1>2, PgDepth DEF Engaged
<1>4. CASE Len(scopes) = 1 /\ conn.session.txn = "open"
  <2>1. r.conn.session = Committed(conn.session)
    BY <1>2, <1>3, <1>4 DEF Committing
  <2>2. r.conn.session.durable = conn.session.durable \cup conn.session.work /\ r.conn.session.txn = "idle"
    BY <1>1, <2>1, LostSessions
  <2>3. conn.session.work = scopes[Len(scopes)].wrote
    BY <1>1, <1>2, <1>3, <1>4, OnlyWork
  <2> QED BY <1>1, <1>4, <2>2, <2>3, KeepStep
<1>5. CASE Len(scopes) = 1 /\ conn.session.txn # "open"
  <2>1. conn.session.txn = "aborted" /\ r.conn.session = Closed(conn.session)
    BY <1>2, <1>3, <1>5 DEF Committing, Engaged
  <2>2. r.conn.session.durable = conn.session.durable /\ r.conn.session.txn = "idle"
    BY <1>1, <2>1, LostSessions
  <2>3. scopes' = Inner(scopes)
    BY <1>1, <1>5, MergeLast
  <2> QED BY <1>1, <2>1, <2>2, <2>3, DropStep
<1>6. CASE Len(scopes) # 1
  <2>1. conn.session.txn = "open" /\ r.conn.session = Released(conn.session, conn.status.depth - 1)
    BY <1>2, <1>3, <1>6 DEF Committing
  <2>2. r.conn.session.durable = conn.session.durable /\ r.conn.session.txn = "open"
    BY <1>1, <2>1 DEF Released, Session
  <2> QED BY <1>1, <1>6, <2>1, <2>2, KeepStep
<1> QED BY <1>4, <1>5, <1>6

(* Every step of the manager over PostgreSQL is one of NestedTransaction.   *)
LEMMA NextNested ==
    ASSUME Dialect = "Pg", LevelsInv, [Next]_vars
    PROVE  NestedStep
<1>1. /\ scopes \in Seq(Scope) /\ Agrees(conn) /\ conn.session \in Session /\ conn \in Conns
      /\ Obedient
  BY PgDepth, LevelsInvTypes DEF LevelsInv, Obedient
<1>3. CASE Begin
  <2>1. PICK r \in BeginTransaction(conn) : Opened(r, FALSE)
    BY <1>3 DEF Begin
  <2> QED BY <1>1, <2>1, BeginLevels, OpenedNested
<1>4. CASE BeginSqlTransaction
  <2>1. PICK r \in BeginTransactionSql(conn) : Opened(r, FALSE)
    BY <1>4 DEF BeginSqlTransaction
  <2>2. CASE IsOpen(conn.status)
    <3>1. r = [ret |-> "already_in_transaction", conn |-> conn]
      BY <2>1, <2>2 DEF BeginTransactionSql, Refused
    <3>2. r \in Outcomes /\ r.ret # "ok" /\ r.conn = conn
      BY <1>1, <3>1 DEF Outcomes, Returns
    <3>3. BeginCases(conn, r)
      BY <1>1, <3>2 DEF BeginCases, Refusal, SameLevels
    <3> QED BY <2>1, <3>3, OpenedNested
  <2>3. CASE ~IsOpen(conn.status)
    <3>1. r \in BeginTransaction(conn)
      BY <2>1, <2>3 DEF BeginTransactionSql
    <3> QED BY <1>1, <2>1, <3>1, BeginLevels, OpenedNested
  <2> QED BY <2>2, <2>3
<1>5. CASE BeginTestTransaction
  <2>1. PICK r \in BeginTransaction(conn) :
           Opened(IF r.ret = "ok" THEN [r EXCEPT !.conn.status = SetTestTransactionFlag(@)] ELSE r,
                  TRUE)
    BY <1>5 DEF BeginTestTransaction
  <2>2. BeginCases(conn, r)
    BY <1>1, <2>1, BeginLevels
  <2> DEFINE q == IF r.ret = "ok" THEN [r EXCEPT !.conn.status = SetTestTransactionFlag(@)] ELSE r
  <2>3. BeginCases(conn, q)
    BY <2>2, FlaggedBegin
  <2>4. Opened(q, TRUE)
    BY <2>1
  <2> HIDE DEF q
  <2> QED BY <2>3, <2>4, OpenedNested
<1>6. CASE Statement
  <2> DEFINE item == Len(fate) + 1
             Result(r) ==
               /\ conn' = r.conn
               /\ IF r.res = "ok"
                  THEN /\ fate' = Append(fate, IF InScope THEN "pending" ELSE "auto")
                       /\ scopes' = IF InScope
                                    THEN [scopes EXCEPT ![Len(scopes)].wrote = @ \cup {Len(fate) + 1}]
                                    ELSE scopes
                  ELSE /\ scopes' = NoteFailure(scopes)
                       /\ UNCHANGED fate
               /\ CountFailure(r.res)
  <2>0. PICK via \in StatementVias : \E r \in Exec(conn, Write(item, via)) : Result(r)
    BY <1>6 DEF Statement
  <2>1. PICK r \in Exec(conn, Write(item, via)) : Result(r)
    BY <2>0
  <2>2. item \in Items /\ item \in Nat
    BY <1>6, LevelsInvTypes DEF Statement
  <2>3. via \in Vias
    BY ViasAssumption
  <2>4. \/ /\ r.res = "ok" /\ SameLevels(conn, r.conn) /\ conn.session.txn \in {"idle", "open"}
           /\ r.conn.session = Written(conn.session, item)
        \/ /\ r.res # "ok" /\ Refusal(conn, r.conn)
           /\ r.conn.session.durable = conn.session.durable
        \/ /\ r.res # "ok" /\ Breaks(conn, r.conn)
           /\ \/ r.conn.session.durable = conn.session.durable
              \/ /\ conn.session.txn = "idle"
                 /\ r.conn.session.durable = conn.session.durable \cup {item}
    BY <1>1, <2>1, <2>2, <2>3, StatementLevels
  <2>5. CASE /\ r.res = "ok" /\ conn.session.txn \in {"idle", "open"}
             /\ r.conn.session = Written(conn.session, item)
    <3>1. /\ r.conn.session.txn = conn.session.txn
          /\ r.conn.session.durable = IF conn.session.txn = "idle"
                                      THEN conn.session.durable \cup {item} ELSE conn.session.durable
      BY <1>1, <2>5 DEF Written, Session
    <3>2. /\ conn' = r.conn
          /\ scopes' = IF Len(scopes) > 0 THEN WroteTop(scopes, item) ELSE scopes
      BY <2>1, <2>5 DEF InScope, WroteTop
    <3>3. conn.session.txn = "open" <=> Len(scopes) > 0
      BY <2>5, PgDepth
    <3>4. CASE Len(scopes) > 0
      <4>1. scopes' = WroteTop(scopes, item) /\ conn'.session.durable = conn.session.durable
        BY <3>1, <3>2, <3>3, <3>4
      <4> HIDE DEF item
      <4> QED BY <1>1, <2>2, <2>5, <3>1, <3>2, <3>4, <4>1, PutStep
    <3>5. CASE ~(Len(scopes) > 0)
      <4>1. scopes' = scopes /\ conn'.session.durable = conn.session.durable \cup {item}
        BY <2>5, <3>1, <3>2, <3>3, <3>5
      <4> HIDE DEF item
      <4> QED BY <1>1, <2>2, <2>5, <3>1, <3>2, <3>5, <4>1, PutStep
    <3> QED BY <3>4, <3>5
  <2>6. CASE /\ r.res # "ok"
             /\ \/ Refusal(conn, r.conn) /\ r.conn.session.durable = conn.session.durable
                \/ /\ Breaks(conn, r.conn)
                   /\ \/ r.conn.session.durable = conn.session.durable
                      \/ /\ conn.session.txn = "idle"
                         /\ r.conn.session.durable = conn.session.durable \cup {item}
    <3>1. scopes' = NoteFailure(scopes) /\ conn' = r.conn
      BY <2>1, <2>6
    <3> HIDE DEF item
    <3> QED BY <2>2, <2>6, <3>1, RefusedNested
  <2> QED BY <2>4, <2>5, <2>6
<1>7. CASE CloseOk
  <2>1. PICK r \in CommitTransaction(conn) :
           /\ conn' = r.conn
           /\ r.ret = "ok" => scopes' = Merge(scopes)
           /\ r.ret # "ok" => Fails(r)
    BY <1>7 DEF CloseOk
  <2>2. /\ r \in Outcomes /\ Agrees(r.conn)
        /\ \/ r.ret # "ok" /\ ~IsOpen(conn.status) /\ r.conn = conn
           \/ IsOpen(conn.status) /\ CommitCases(conn, r)
    BY <1>1, <2>1, CommitLevels
  <2>3. InScope
    BY <1>7 DEF CloseOk, Closable
  <2>4. ~IsOpen(conn.status) => conn.status.in_error
    BY <2>3, LevelsDepth DEF InScope
  <2>5. CASE r.ret = "ok"
    BY <2>1, <2>2, <2>3, <2>5, KeptNested
  <2>6. CASE r.ret # "ok"
    <3>1. EndCases(conn, r)
      BY <1>1, <2>2, <2>4, <2>6, CommitEnds
    <3> QED BY <2>1, <2>3, <2>6, <3>1, FailsNested
  <2> QED BY <2>5, <2>6
<1>8. CASE CloseErr
  <2>1. PICK r \in RollbackTransaction(conn) : conn' = r.conn /\ Fails(r)
    BY <1>8 DEF CloseErr
  <2>2. /\ r \in Outcomes /\ Agrees(r.conn)
        /\ r.conn.session.durable = conn.session.durable
        /\ \/ r.ret # "ok" /\ ~IsOpen(conn.status) /\ r.conn = conn
           \/ IsOpen(conn.status) /\ Engaged(conn.session) /\ RolledBack(conn, r)
           \/ IsOpen(conn.status) /\ r.ret # "ok" /\ Broken(r.conn)
    BY <1>1, <2>1, RollbackLevels
  <2>3. InScope
    BY <1>8 DEF CloseErr, Closable
  <2>4. ~IsOpen(conn.status) => conn.status.in_error
    BY <2>3, LevelsDepth DEF InScope
  <2>5. EndCases(conn, r)
    BY <2>2, <2>4 DEF EndCases, RolledBack
  <2> QED BY <2>1, <2>3, <2>5, FailsNested
<1>9. CASE UNCHANGED vars
  BY <1>9, StutterStep DEF vars
<1> QED BY <1>3, <1>4, <1>5, <1>6, <1>7, <1>8, <1>9 DEF Next

LEMMA InitNested == Init => Nested!NestedInit
<1> SUFFICES ASSUME Init PROVE Nested!NestedInit
  OBVIOUS
<1>1. scopes = <<>> /\ conn.session.txn = "idle" /\ conn.session.durable = {}
  BY DEF Init, FreshSession
<1>2. Stack(scopes) = <<>>
  BY <1>1, StackIs, EmptySeq
<1> QED BY <1>1, <1>2 DEF Nested!NestedInit

(* Over PostgreSQL the manager implements NestedTransaction, whatever the
   nesting, the failures and the breaks: transaction() keeps what its closure
   wrote exactly when it returns Ok, and undoes it, alone, when it returns
   Err (diesel/src/connection/transaction_manager.rs, transaction).         *)
THEOREM PgPromise ==
    ASSUME Dialect = "Pg"
    PROVE  Spec => Nested!NestedSpec
<1>1. Init => Nested!NestedInit
  BY InitNested
<1>2. LevelsInv /\ [Next]_vars => [Nested!NestedNext]_(Nested!nestedVars)
  BY NextNested DEF NestedStep
<1>3. Spec => []LevelsInv
  BY LevelsInvHolds DEF Obedient
<1> QED BY <1>1, <1>2, <1>3, PTL DEF Spec, Nested!NestedSpec

(***************************************************************************)
(* MySQL.  The hook lowers no depth, and lifts the flag when a deadlock has *)
(* rolled everything back; what follows it is undone or autocommits.        *)
(***************************************************************************)
MysqlLost(s) == s.txn = "lost" /\ s.work = {}

MysqlTied(c, sc) ==
    /\ c \in Conns /\ c.session.txn \in {"idle", "open", "lost"}
    /\ c.status.in_error => c.session.txn = "lost"
    /\ c.session.txn \in {"idle", "lost"} => c.session.work = {}
    /\ ~c.status.in_error =>
          /\ c.status.depth >= Len(sc)
          /\ c.session.txn # "lost" => c.status.depth = Len(sc)
          /\ c.status.depth = 0 => c.session.txn # "open" /\ ~c.status.requires_rollback
          /\ c.status.depth > 0 /\ ~c.status.requires_rollback => c.session.txn # "idle"
          /\ c.status.depth > 0 /\ ~c.status.requires_rollback /\ c.session.txn = "open" =>
                Holds(c.session, Works(sc), Len(sc))

(* The answer to what batch_execute sends.                                  *)
MysqlReply(c, x, stmt) ==
    /\ x.res \in Results /\ x.conn \in Conns /\ x.conn.status = c.status
    /\ \/ c.session.txn = "lost" /\ x.res = "lost" /\ x.conn.session = c.session
       \/ c.session.txn # "lost" /\ x.res = "lost" /\ MysqlLost(x.conn.session)
       \/ /\ c.session.txn # "lost"
          /\ \E a \in ServerReplies(c.session, stmt) : x.res = a.res /\ x.conn.session = a.session

LEMMA MysqlBatch ==
    ASSUME Dialect = "Mysql", NEW c \in Conns, NEW stmt \in Stmt, stmt.via = "batch",
           NEW x \in Exec(c, stmt)
    PROVE  MysqlReply(c, x, stmt)
<1>0. c.status \in Status /\ c.session \in Session
  BY DEF Conns
<1>1. PICK a \in Answers(c.session, stmt) :
         /\ x.res = a.res /\ x.conn.session = a.session
         /\ x.conn.status = Hook(c.status, "batch", a.res, a.session.txn)
  BY DEF Exec
<1>2. x.res \in Results /\ x.conn \in Conns
  BY <1>0, ExecType
<1>3. x.conn.status = c.status
  BY <1>1 DEF Hook, MysqlHook
<1>4. CASE c.session.txn = "lost"
  BY <1>1, <1>2, <1>3, <1>4 DEF Answers, Reply, MysqlReply
<1>5. CASE c.session.txn # "lost" /\ a \in LostReplies(c.session, stmt)
  <2>1. a.res = "lost" /\ a.session.txn = "lost" /\ a.session.work = {}
    BY <1>0, <1>5, LostAnswers
  <2> QED BY <1>1, <1>2, <1>3, <1>5, <2>1 DEF MysqlReply, MysqlLost
<1>6. CASE c.session.txn # "lost" /\ a \in ServerReplies(c.session, stmt)
  BY <1>1, <1>2, <1>3, <1>6 DEF MysqlReply
<1> QED BY <1>4, <1>5, <1>6 DEF Answers

(* The manager takes a level, or nothing but the connection changes.        *)
MysqlBegun(c, r) ==
    /\ r \in Outcomes
    /\ \/ /\ r.ret = "ok" /\ ~c.status.in_error /\ c.session.txn # "lost"
          /\ r.conn.status = IncreaseDepth(c.status)
          /\ \/ /\ c.status.depth = 0 /\ c.session.txn = "idle"
                /\ r.conn.session = [c.session EXCEPT !.txn = "open"]
             \/ /\ c.status.depth > 0 /\ c.session.txn = "open"
                /\ r.conn.session = SavepointSet(c.session, c.status.depth)
             \/ c.status.depth > 0 /\ c.session.txn = "idle" /\ r.conn.session = c.session
       \/ r.ret # "ok" /\ r.conn = c
       \/ r.ret # "ok" /\ r.conn.status = c.status /\ MysqlLost(r.conn.session)

LEMMA MysqlBegins ==
    ASSUME Dialect = "Mysql", NEW c, NEW sc, MysqlTied(c, sc), NEW r \in BeginTransaction(c)
    PROVE  MysqlBegun(c, r)
<1>0. c \in Conns /\ c.status \in Status /\ c.session \in Session /\ c.status.depth \in Nat
  BY DEF MysqlTied, Conns, Status
<1>r. r \in Outcomes /\ Clean(c)
  <2>1. Clean(c)
    BY DEF MysqlTied, Clean
  <2> QED BY <1>0, <2>1, BeginOutcomes DEF Good
<1>1. CASE c.status.in_error
  BY <1>0, <1>1, <1>r DEF BeginTransaction, Refused, MysqlBegun
<1>2. CASE ~c.status.in_error
  <2> DEFINE stmt == BeginSql(c.status)
  <2>1. stmt \in Stmt /\ stmt.via = "batch"
    BY <1>0, SqlType DEF BeginSql, TransactionSql
  <2>2. PICK x \in Exec(c, stmt) : r = Outcome(AfterBegin(x.conn.status, x.res), x.conn.session)
    BY <1>2 DEF BeginTransaction
  <2> HIDE DEF stmt
  <2>3. MysqlReply(c, x, stmt)
    BY <1>0, <2>1, MysqlBatch
  <2>4. x.conn \in Conns /\ x.conn.status = c.status
    BY <2>3 DEF MysqlReply
  <2>5. x.res # "ok" => r.ret # "ok" /\ r.conn = x.conn
    BY <2>2, <2>4 DEF Outcome, AfterBegin, Return, Conns
  <2>6. x.res = "ok" => /\ r.ret = "ok" /\ r.conn.status = IncreaseDepth(c.status)
                        /\ r.conn.session = x.conn.session
    BY <1>2, <2>2, <2>4 DEF Outcome, AfterBegin, Return
  <2>7. CASE c.session.txn = "lost" /\ x.res = "lost" /\ x.conn.session = c.session
    <3>1. x.conn = c
      BY <1>0, <2>4, <2>7 DEF Conns
    <3> QED BY <1>r, <2>5, <2>7, <3>1 DEF MysqlBegun
  <2>8. CASE x.res = "lost" /\ MysqlLost(x.conn.session)
    BY <1>r, <2>4, <2>5, <2>8 DEF MysqlBegun
  <2>9. CASE /\ c.session.txn # "lost"
             /\ \E a \in ServerReplies(c.session, stmt) : x.res = a.res /\ x.conn.session = a.session
    <3>1. PICK a \in ServerReplies(c.session, stmt) : x.res = a.res /\ x.conn.session = a.session
      BY <2>9
    <3>2. \/ a.res # "ok" /\ a.session = c.session
          \/ /\ a.res = "ok"
             /\ \/ /\ c.status.depth = 0 /\ c.session.txn = "idle"
                   /\ a.session = [c.session EXCEPT !.txn = "open"]
                \/ /\ c.status.depth > 0 /\ c.session.txn = "open"
                   /\ a.session = SavepointSet(c.session, c.status.depth)
                \/ c.status.depth > 0 /\ c.session.txn = "idle" /\ a.session = c.session
      <4>1. CASE c.status.depth = 0
        <5>1. a \in BeginReplies(c.session)
          BY <3>1, <4>1 DEF stmt, BeginSql, TransactionSql, ServerReplies
        <5>2. c.session.txn = "idle"
          BY <1>2, <2>9, <4>1 DEF MysqlTied
        <5> QED BY <4>1, <5>1, <5>2 DEF BeginReplies, Fault, Reply
      <4>2. CASE c.status.depth # 0
        <5>1. a \in SavepointReplies(c.session, c.status.depth)
          BY <3>1, <4>2 DEF stmt, BeginSql, TransactionSql, ServerReplies
        <5>2. c.session.txn \in {"idle", "open"} /\ c.status.depth > 0
          BY <1>0, <2>9, <4>2 DEF MysqlTied
        <5>3. AfterError(c.session) = c.session
          BY DEF AfterError
        <5>4. CASE c.session.txn = "idle"
          BY <5>1, <5>2, <5>4 DEF SavepointReplies, Embedded, Reply
        <5>5. CASE c.session.txn = "open"
          <6>1. a \in {Reply("ok", SavepointSet(c.session, c.status.depth)), Reply("error", c.session)}
            BY <5>1, <5>3, <5>5 DEF SavepointReplies, Fault
          <6> QED BY <5>2, <5>5, <6>1 DEF Reply
        <5> QED BY <5>2, <5>4, <5>5
      <4> QED BY <4>1, <4>2
    <3>3. CASE a.res # "ok"
      <4>1. x.conn = c
        BY <1>0, <2>4, <3>1, <3>2, <3>3 DEF Conns
      <4> QED BY <1>r, <2>5, <3>1, <3>3, <4>1 DEF MysqlBegun
    <3>4. CASE a.res = "ok"
      BY <1>2, <1>r, <2>6, <2>9, <3>1, <3>2, <3>4 DEF MysqlBegun
    <3> QED BY <3>3, <3>4
  <2> QED BY <2>3, <2>7, <2>8, <2>9 DEF MysqlReply
<1> QED BY <1>1, <1>2

(* transaction() that starts.                                               *)
LEMMA MysqlOpened ==
    ASSUME Dialect = "Mysql", NEW c, NEW sc \in Seq(Scope), MysqlTied(c, sc),
           NEW r, MysqlBegun(c, r), r.ret = "ok", NEW test \in BOOLEAN
    PROVE  MysqlTied(r.conn, Append(sc, NewScope(test)))
<1> DEFINE tc == Append(sc, NewScope(test))
           n == Len(sc)
           d == c.status.depth
           k == r.conn
<1>0. n \in Nat /\ d \in Nat /\ c.session \in Session /\ c.status \in Status /\ k \in Conns
  BY LenProperties DEF MysqlTied, MysqlBegun, Outcomes, Conns, Status
<1>1. Len(tc) = n + 1
  BY OpenedIs
<1>2. Works(tc)[n + 1] = Works(sc)[n]
  BY WorksOpened
<1>3. \A j \in 0..n : Works(tc)[j] = Works(sc)[j]
  BY WorksOpened
<1>4. ~c.status.in_error /\ d = n /\ k.status = IncreaseDepth(c.status)
  BY DEF MysqlBegun, MysqlTied
<1>5. k.status.depth = n + 1 /\ ~k.status.in_error
      /\ (k.status.requires_rollback <=> c.status.requires_rollback)
  BY <1>0, <1>4 DEF IncreaseDepth, Status
<1> HIDE DEF tc
<1>6. CASE c.session.txn = "idle" /\ d = 0 /\ k.session = [c.session EXCEPT !.txn = "open"]
  <2>1. Works(sc)[0] = {}
    BY WorksSplit, <1>0
  <2>2. k.session.work = {} /\ k.session.txn = "open"
    BY <1>0, <1>6 DEF MysqlTied, Session
  <2>3. 1..((n + 1) - 1) = {}
    BY <1>4, <1>6
  <2>4. k.session.work = Works(tc)[n + 1]
    BY <1>2, <1>4, <1>6, <2>1, <2>2
  <2>5. Holds(k.session, Works(tc), n + 1)
    BY <2>3, <2>4 DEF Holds
  <2> HIDE DEF k, n
  <2>6. MysqlTied(k, tc)
    BY <1>0, <1>1, <1>5, <2>2, <2>5 DEF MysqlTied
  <2> QED BY <2>6 DEF tc, k
<1>7. CASE c.session.txn = "open" /\ d > 0 /\ k.session = SavepointSet(c.session, d)
  <2>1. n \in Nat \ {0} /\ \A j \in 1..n : Works(tc)[j] = Works(sc)[j]
    BY <1>0, <1>3, <1>4, <1>7
  <2>2. ~c.status.requires_rollback => Holds(c.session, Works(sc), n)
    BY <1>4, <1>7 DEF MysqlTied
  <2>3. k.session.txn = "open"
    BY <1>0, <1>7 DEF SavepointSet, Session
  <2> HIDE DEF n, d, k
  <2>4. ~c.status.requires_rollback => Holds(SavepointSet(c.session, n), Works(tc), n + 1)
    BY <1>0, <1>2, <2>1, <2>2, HoldsSavepointSet
  <2>5. MysqlTied(k, tc)
    BY <1>0, <1>1, <1>4, <1>5, <1>7, <2>3, <2>4 DEF MysqlTied
  <2> QED BY <2>5 DEF tc, k
<1>8. CASE d > 0 /\ c.session.txn = "idle" /\ k.session = c.session
  <2>1. c.status.requires_rollback /\ c.session.work = {}
    BY <1>4, <1>8 DEF MysqlTied
  <2> HIDE DEF n, d, k
  <2>2. MysqlTied(k, tc)
    BY <1>0, <1>1, <1>5, <1>8, <2>1 DEF MysqlTied
  <2> QED BY <2>2 DEF tc, k
<1> QED BY <1>6, <1>7, <1>8 DEF MysqlBegun

(* A call that changes nothing but that the connection may break, and that
   lifts the flag when the transaction is gone.                             *)
MysqlRefused(c, k) ==
    /\ k \in Conns
    /\ \/ k = c
       \/ k.status = c.status /\ MysqlLost(k.session)
       \/ /\ k.status = SetRequiresRollback(c.status, TRUE) /\ c.session.txn # "lost"
          /\ k.session = Closed(c.session)

LEMMA MysqlNoted ==
    ASSUME Dialect = "Mysql", NEW c, NEW sc \in Seq(Scope), MysqlTied(c, sc),
           NEW k, MysqlRefused(c, k)
    PROVE  MysqlTied(k, NoteFailure(sc))
<1> DEFINE tc == NoteFailure(sc)
           n == Len(sc)
           d == c.status.depth
<1>0. n \in Nat /\ d \in Nat /\ c.session \in Session /\ c.status \in Status /\ k \in Conns
  BY LenProperties DEF MysqlTied, MysqlRefused, Conns, Status
<1>1. Len(tc) = n
  BY NoteFailureIs
<1>2. \A j \in 0..n : Works(tc)[j] = Works(sc)[j]
  BY WorksNoted
<1> HIDE DEF tc
<1>3. CASE k = c
  <2>1. ASSUME Holds(c.session, Works(sc), n) PROVE Holds(c.session, Works(tc), n)
    <3> HIDE DEF n
    <3>1. n \in 0..n /\ \A j \in 0..(n - 1) : j \in 0..n
      BY <1>0
    <3>2. c.session.work = Works(tc)[n]
      BY <1>2, <2>1, <3>1 DEF Holds
    <3>3. \A j \in 0..(n - 1) : Works(tc)[j] = Works(sc)[j]
      BY <1>2, <3>1
    <3> QED BY <1>0, <2>1, <3>2, <3>3, HoldsAgain
  <2>2. MysqlTied(c, tc)
    BY <1>1, <2>1 DEF MysqlTied
  <2> QED BY <1>3, <2>2 DEF tc
<1>4. CASE k.status = c.status /\ MysqlLost(k.session)
  <2>1. MysqlTied(k, tc)
    BY <1>0, <1>1, <1>4 DEF MysqlTied, MysqlLost
  <2> QED BY <2>1 DEF tc
<1>5. CASE /\ k.status = SetRequiresRollback(c.status, TRUE) /\ c.session.txn # "lost"
           /\ k.session = Closed(c.session)
  <2>1. k.session.txn = "idle" /\ k.session.work = {}
    BY <1>0, <1>5, LostSessions
  <2>2. ~c.status.in_error /\ d = n
    BY <1>5 DEF MysqlTied
  <2>3. /\ ~k.status.in_error /\ k.status.depth = d
        /\ d > 0 => k.status.requires_rollback
        /\ d = 0 => k.status = c.status
    BY <1>0, <1>5, <2>2 DEF SetRequiresRollback, IsOpen, Status
  <2>4. d = 0 => ~k.status.requires_rollback
    BY <2>2, <2>3 DEF MysqlTied
  <2> HIDE DEF n, d
  <2>5. MysqlTied(k, tc)
    BY <1>0, <1>1, <2>1, <2>2, <2>3, <2>4 DEF MysqlTied
  <2> QED BY <2>5 DEF tc
<1> QED BY <1>3, <1>4, <1>5 DEF MysqlRefused

(* A level that ends without its work.                                      *)
MysqlEnds(c, k) ==
    /\ k \in Conns
    /\ \/ MysqlLost(k.session) /\ k.status.in_error
       \/ /\ MysqlLost(k.session) /\ ~c.status.in_error
          /\ ~k.status.in_error /\ k.status.depth > 0 /\ k.status.depth >= c.status.depth - 1
       \/ /\ c.status.depth = 1 /\ c.session.txn # "lost" /\ ~c.status.in_error
          /\ k.status = NoTransaction /\ k.session = Closed(c.session)
       \/ /\ c.status.depth > 1 /\ c.session.txn # "lost" /\ ~c.status.in_error
          /\ ~k.status.in_error /\ k.status.depth = c.status.depth - 1
          /\ \/ k.status.requires_rollback /\ k.session = c.session
             \/ /\ k.status.requires_rollback <=> c.status.requires_rollback
                /\ c.session.txn = "open" /\ SavesAt(c.session, c.status.depth - 1) # {}
                /\ k.session = RolledBackTo(c.session, c.status.depth - 1)

LEMMA MysqlRollsBack ==
    ASSUME Dialect = "Mysql", NEW c, NEW sc, MysqlTied(c, sc), IsOpen(c.status),
           NEW r \in RollbackTransaction(c)
    PROVE  /\ r \in Outcomes /\ MysqlEnds(c, r.conn)
           /\ c.status.depth > 1 /\ c.status.requires_rollback => r.ret = "ok"
           /\ c.status.depth = 1 /\ r.ret # "ok" => MysqlLost(r.conn.session)
<1> DEFINE stmt == RollbackSql(c.status)
           d == c.status.depth
<1>0. c \in Conns /\ c.status \in Status /\ c.session \in Session /\ d \in Nat \ {0}
      /\ ~c.status.in_error /\ IsOpen(c.status)
  BY DEF MysqlTied, Conns, Status, IsOpen
<1>r. r \in Outcomes /\ r.conn \in Conns
  <2>1. Clean(c)
    BY DEF MysqlTied, Clean
  <2> QED BY <1>0, <2>1, RollbackOutcomes DEF Good, Outcomes
<1>1. stmt \in Stmt /\ stmt.via = "batch"
  BY <1>0, SqlType DEF RollbackSql, TransactionSql
<1>2. PICK x \in Exec(c, stmt) :
         r = Outcome(AfterRollback(c.status, x.conn.status, x.res), x.conn.session)
  BY DEF RollbackTransaction, IsOpen
<1> HIDE DEF stmt
<1>3. MysqlReply(c, x, stmt)
  BY <1>0, <1>1, MysqlBatch
<1>4. x.conn.status = c.status /\ x.conn.session \in Session
  BY <1>3 DEF MysqlReply, Conns
<1>5. \A ret, new : AfterRollback(c.status, c.status, x.res) = Return(ret, new) =>
         r.ret = ret /\ r.conn.status = new /\ r.conn.session = x.conn.session
  BY <1>2, <1>4 DEF Outcome, Return
<1>6. ExitIs(c.status, c.status, x.res)
  BY <1>0, ExitCases
<1>7. ASSUME x.res = "ok"
      PROVE  r.ret = "ok" /\ r.conn.status = DecreaseDepth(c.status) /\ r.conn.session = x.conn.session
  <2>1. AfterRollback(c.status, c.status, x.res) = Return("ok", DecreaseDepth(c.status))
    BY <1>0, <1>6, <1>7 DEF ExitIs
  <2> QED BY <1>5, <2>1
<1>8. ASSUME x.res # "ok", d > 1
      PROVE  /\ r.conn.session = x.conn.session /\ ~r.conn.status.in_error
             /\ r.conn.status.depth = d - 1 /\ r.conn.status.requires_rollback
             /\ c.status.requires_rollback => r.ret = "ok"
  <2> DEFINE new == [c.status EXCEPT !.depth = @ - 1, !.requires_rollback = TRUE]
             ret == IF c.status.requires_rollback THEN "ok" ELSE x.res
  <2>1. AfterRollback(c.status, c.status, x.res) = Return(ret, new)
    BY <1>0, <1>6, <1>8 DEF ExitIs
  <2>2. new.depth = d - 1 /\ ~new.in_error /\ new.requires_rollback
    BY <1>0 DEF Status
  <2>3. c.status.requires_rollback => ret = "ok"
    OBVIOUS
  <2> HIDE DEF new, ret
  <2> QED BY <1>5, <2>1, <2>2, <2>3
<1>9. ASSUME x.res # "ok", d = 1
      PROVE  r.ret = x.res /\ r.conn.status.in_error /\ r.conn.session = x.conn.session
  <2>1. c.status # NoTransaction
    BY <1>9 DEF NoTransaction
  <2>2. AfterRollback(c.status, c.status, x.res) = Return(x.res, InError)
    BY <1>9, <2>1 DEF AfterRollback
  <2>3. InError.in_error
    BY DEF InError, NoTransaction
  <2> QED BY <1>5, <2>2, <2>3
<1>10. d = 1 => DecreaseDepth(c.status) = NoTransaction
  BY DEF DecreaseDepth
<1>11. d > 1 => /\ ~DecreaseDepth(c.status).in_error /\ DecreaseDepth(c.status).depth = d - 1
                /\ DecreaseDepth(c.status).requires_rollback <=> c.status.requires_rollback
  BY <1>0 DEF DecreaseDepth, Status
<1>d. d = 1 \/ d > 1
  BY <1>0
<1>12. CASE x.res = "lost" /\ MysqlLost(x.conn.session)
  <2>1. CASE d = 1
    BY <1>9, <1>12, <1>r, <2>1 DEF MysqlEnds
  <2>2. CASE d > 1
    <3>1. d - 1 > 0 /\ d - 1 >= d - 1
      BY <1>0, <2>2
    <3>2. r.conn.session = x.conn.session /\ ~r.conn.status.in_error /\ r.conn.status.depth = d - 1
      BY <1>8, <1>12, <2>2
    <3>3. MysqlEnds(c, r.conn)
      BY <1>0, <1>12, <1>r, <3>1, <3>2 DEF MysqlEnds
    <3> QED BY <1>8, <1>12, <1>r, <2>2, <3>3
  <2> QED BY <1>d, <2>1, <2>2
<1>13. CASE c.session.txn = "lost" /\ x.res = "lost" /\ x.conn.session = c.session
  <2>1. MysqlLost(c.session)
    BY <1>13 DEF MysqlTied, MysqlLost
  <2> QED BY <1>12, <1>13, <2>1
<1>14. CASE /\ c.session.txn # "lost"
            /\ \E a \in ServerReplies(c.session, stmt) : x.res = a.res /\ x.conn.session = a.session
  <2>1. PICK a \in ServerReplies(c.session, stmt) : x.res = a.res /\ x.conn.session = a.session
    BY <1>14
  <2>2. CASE d = 1
    <3>1. a \in RollbackReplies(c.session)
      BY <2>1, <2>2 DEF stmt, RollbackSql, TransactionSql, ServerReplies
    <3>2. x.res = "ok" /\ x.conn.session = Closed(c.session)
      BY <2>1, <3>1 DEF RollbackReplies, Embedded, Reply
    <3>3. r.ret = "ok" /\ r.conn.status = NoTransaction /\ r.conn.session = Closed(c.session)
      BY <1>7, <1>10, <2>2, <3>2
    <3> QED BY <1>0, <1>14, <1>r, <2>2, <3>3 DEF MysqlEnds
  <2>3. CASE d > 1
    <3>1. a \in RollbackToReplies(c.session, d - 1) /\ d # 1
      BY <1>0, <2>1, <2>3 DEF stmt, RollbackSql, TransactionSql, ServerReplies
    <3>2. AfterError(c.session) = c.session
      BY DEF AfterError
    <3>3. c.session.txn \in {"idle", "open"}
      BY <1>14 DEF MysqlTied
    <3>4. \/ /\ x.res = "ok" /\ c.session.txn = "open" /\ SavesAt(c.session, d - 1) # {}
             /\ x.conn.session = RolledBackTo(c.session, d - 1)
          \/ x.res = "error" /\ x.conn.session = c.session
      <4> HIDE DEF d
      <4> QED BY <2>1, <3>1, <3>2, <3>3 DEF RollbackToReplies, InTransaction, Reply
    <3>5. CASE x.res = "ok"
      <4>1. /\ r.ret = "ok" /\ ~r.conn.status.in_error /\ r.conn.status.depth = d - 1
            /\ r.conn.status.requires_rollback <=> c.status.requires_rollback
            /\ r.conn.session = x.conn.session
        BY <1>7, <1>11, <2>3, <3>5
      <4>2. MysqlEnds(c, r.conn)
        BY <1>0, <1>14, <1>r, <2>3, <3>4, <3>5, <4>1 DEF MysqlEnds
      <4> QED BY <1>r, <3>1, <4>1, <4>2
    <3>6. CASE x.res # "ok"
      <4>1. /\ r.conn.session = x.conn.session /\ ~r.conn.status.in_error
            /\ r.conn.status.depth = d - 1 /\ r.conn.status.requires_rollback
            /\ c.status.requires_rollback => r.ret = "ok"
        BY <1>8, <2>3, <3>6
      <4>2. MysqlEnds(c, r.conn)
        BY <1>0, <1>14, <1>r, <2>3, <3>4, <3>6, <4>1 DEF MysqlEnds
      <4> QED BY <1>r, <3>1, <4>1, <4>2
    <3> QED BY <3>5, <3>6
  <2> QED BY <1>d, <2>2, <2>3
<1> QED BY <1>3, <1>12, <1>13, <1>14 DEF MysqlReply

LEMMA MysqlUndone ==
    ASSUME Dialect = "Mysql", NEW c, NEW sc \in Seq(Scope), Len(sc) > 0, MysqlTied(c, sc),
           NEW k, MysqlEnds(c, k)
    PROVE  MysqlTied(k, Inner(sc))
<1> DEFINE tc == Inner(sc)
           n == Len(sc)
           d == c.status.depth
<1>0. n \in Nat /\ d \in Nat /\ c.session \in Session /\ c.status \in Status /\ k \in Conns
  BY LenProperties DEF MysqlTied, MysqlEnds, Conns, Status
<1>1. n > 0
  OBVIOUS
<1>2. Len(tc) = n - 1
  BY InnerIs
<1>3. \A j \in 0..(n - 1) : Works(tc)[j] = Works(sc)[j]
  BY WorksInner
<1>4. ~c.status.in_error => d >= n /\ (c.session.txn # "lost" => d = n)
  BY DEF MysqlTied
<1> HIDE DEF tc
<1>5. CASE MysqlLost(k.session) /\ k.status.in_error
  <2>1. MysqlTied(k, tc)
    BY <1>0, <1>5 DEF MysqlTied, MysqlLost
  <2> QED BY <2>1 DEF tc
<1>6. CASE /\ MysqlLost(k.session) /\ ~c.status.in_error
           /\ ~k.status.in_error /\ k.status.depth > 0 /\ k.status.depth >= d - 1
  <2>1. k.status.depth \in Nat
    BY <1>0 DEF Conns, Status
  <2> HIDE DEF n, d
  <2>2. k.status.depth >= n - 1 /\ k.status.depth # 0
    BY <1>0, <1>4, <1>6, <2>1
  <2>3. MysqlTied(k, tc)
    BY <1>0, <1>2, <1>6, <2>2 DEF MysqlTied, MysqlLost
  <2> QED BY <2>3 DEF tc
<1>7. CASE /\ d = 1 /\ c.session.txn # "lost" /\ ~c.status.in_error
           /\ k.status = NoTransaction /\ k.session = Closed(c.session)
  <2>1. k.session.txn = "idle" /\ k.session.work = {}
    BY <1>0, <1>7, LostSessions
  <2>2. ~k.status.in_error /\ k.status.depth = 0 /\ ~k.status.requires_rollback
    BY <1>7 DEF NoTransaction
  <2>3. n - 1 = 0
    BY <1>4, <1>7
  <2> HIDE DEF n, d
  <2>4. MysqlTied(k, tc)
    BY <1>0, <1>2, <2>1, <2>2, <2>3 DEF MysqlTied
  <2> QED BY <2>4 DEF tc
<1>8. CASE /\ d > 1 /\ c.session.txn # "lost" /\ ~c.status.in_error
           /\ ~k.status.in_error /\ k.status.depth = d - 1
           /\ \/ k.status.requires_rollback /\ k.session = c.session
              \/ /\ k.status.requires_rollback <=> c.status.requires_rollback
                 /\ c.session.txn = "open" /\ SavesAt(c.session, d - 1) # {}
                 /\ k.session = RolledBackTo(c.session, d - 1)
  <2>1. d = n /\ k.status.depth = n - 1
    BY <1>4, <1>8
  <2>2. n > 1 /\ n - 1 > 0 /\ n - 1 \in Nat /\ n - 1 \in 0..(n - 1) /\ n - 1 >= n - 1
        /\ \A j \in 0..((n - 1) - 1) : j \in 0..(n - 1)
    <3>1. n > 1
      BY <1>8, <2>1
    <3> HIDE DEF n, d
    <3> QED BY <1>0, <3>1
  <2>3. CASE k.status.requires_rollback /\ k.session = c.session
    <3>1. /\ c.session.txn \in {"idle", "open"}
          /\ c.session.txn = "idle" => c.session.work = {}
      BY <1>8 DEF MysqlTied
    <3> HIDE DEF n, d
    <3>2. MysqlTied(k, tc)
      BY <1>0, <1>2, <1>8, <2>1, <2>2, <2>3, <3>1 DEF MysqlTied
    <3> QED BY <3>2 DEF tc
  <2>4. CASE /\ k.status.requires_rollback <=> c.status.requires_rollback
             /\ c.session.txn = "open" /\ SavesAt(c.session, d - 1) # {}
             /\ k.session = RolledBackTo(c.session, d - 1)
    <3>1. k.session.txn = "open" /\ k.session \in Session
      BY <1>0, <2>4 DEF RolledBackTo, Session, Conns
    <3>2. ASSUME ~k.status.requires_rollback PROVE Holds(k.session, Works(tc), n - 1)
      <4>1. Holds(c.session, Works(sc), n)
        BY <1>1, <1>8, <2>1, <2>4, <3>2 DEF MysqlTied
      <4> HIDE DEF n, d
      <4>2. Holds(k.session, Works(sc), n - 1)
        BY <1>0, <2>1, <2>2, <2>4, <4>1, HoldsRolledBackTo
      <4>3. k.session.work = Works(tc)[n - 1]
        BY <1>3, <2>2, <4>2 DEF Holds
      <4>4. \A j \in 0..((n - 1) - 1) : Works(tc)[j] = Works(sc)[j]
        BY <1>3, <2>2
      <4> QED BY <2>2, <3>1, <4>2, <4>3, <4>4, HoldsAgain
    <3> HIDE DEF n, d
    <3>3. MysqlTied(k, tc)
      BY <1>0, <1>2, <1>8, <2>1, <2>2, <3>1, <3>2 DEF MysqlTied
    <3> QED BY <3>3 DEF tc
  <2> QED BY <1>8, <2>3, <2>4
<1> QED BY <1>5, <1>6, <1>7, <1>8 DEF MysqlEnds

(* A level that ends with its work.                                         *)
MysqlKeeps(c, k) ==
    /\ k \in Conns /\ ~c.status.in_error /\ c.session.txn # "lost"
    /\ \/ /\ c.status.depth = 1 /\ k.status = NoTransaction
          /\ k.session.txn = "idle" /\ k.session.work = {}
       \/ /\ c.status.depth > 1 /\ c.session.txn = "open" /\ SavesAt(c.session, c.status.depth - 1) # {}
          /\ ~k.status.in_error /\ k.status.depth = c.status.depth - 1
          /\ k.status.requires_rollback <=> c.status.requires_rollback
          /\ k.session = Released(c.session, c.status.depth - 1)

(* A commit that fails.                                                     *)
LEMMA MysqlFailedCommit ==
    ASSUME Dialect = "Mysql", NEW c, NEW sc, MysqlTied(c, sc), IsOpen(c.status),
           NEW y \in Conns, y.status = c.status,
           \/ MysqlLost(y.session)
           \/ y = c /\ c.status.depth > 1 /\ c.status.requires_rollback,
           NEW res \in Results, NEW r \in AfterFailedCommit(res, y)
    PROVE  MysqlEnds(c, r.conn) /\ r.ret \in {res, "rollback_error_on_commit"}
<1>0. c \in Conns /\ c.status \in Status /\ c.session \in Session /\ c.status.depth \in Nat \ {0}
      /\ ~c.status.in_error
  BY DEF MysqlTied, Conns, Status, IsOpen
<1>1. MysqlTied(y, sc)
  BY <1>0 DEF MysqlTied, MysqlLost
<1>2. CASE ~c.status.requires_rollback
  <2>1. r = [ret |-> res, conn |-> y]
    BY <1>2 DEF AfterFailedCommit
  <2>2. r.conn = y /\ r.ret = res /\ MysqlLost(y.session)
    BY <1>2, <2>1
  <2>3. c.status.depth > 0 /\ c.status.depth >= c.status.depth - 1
    BY <1>0
  <2> QED BY <1>0, <2>2, <2>3 DEF MysqlEnds
<1>3. CASE c.status.requires_rollback
  <2>1. PICK b \in RollbackTransaction(y) :
           r = IF b.ret = "ok" THEN [b EXCEPT !.ret = res]
               ELSE [ret  |-> "rollback_error_on_commit",
                     conn |-> [b.conn EXCEPT !.status = InError]]
    BY <1>3 DEF AfterFailedCommit
  <2>2. /\ b \in Outcomes /\ MysqlEnds(y, b.conn)
        /\ c.status.depth > 1 => b.ret = "ok"
        /\ c.status.depth = 1 /\ b.ret # "ok" => MysqlLost(b.conn.session)
    BY <1>1, <1>3, <2>1, MysqlRollsBack
  <2>3. MysqlEnds(c, b.conn)
    <3>1. CASE y = c
      BY <2>2, <3>1
    <3>2. CASE MysqlLost(y.session)
      BY <2>2, <3>2 DEF MysqlEnds, MysqlLost
    <3> QED BY <3>1, <3>2
  <2>4. CASE b.ret = "ok"
    <3>1. r.conn = b.conn /\ r.ret = res
      BY <2>1, <2>2, <2>4 DEF Outcomes
    <3> QED BY <2>3, <3>1
  <2>5. CASE b.ret # "ok"
    <3>1. MysqlLost(b.conn.session)
      <4>1. c.status.depth = 1
        BY <1>0, <2>2, <2>5
      <4> QED BY <2>2, <2>5, <4>1
    <3>2. InError.in_error /\ InError \in Status
      BY StatusConstants DEF InError, NoTransaction
    <3>3. r.ret = "rollback_error_on_commit" /\ r.conn = [b.conn EXCEPT !.status = InError] /\ b.conn \in Conns
      BY <2>1, <2>2, <2>5 DEF Outcomes
    <3>4. r.conn \in Conns /\ r.conn.status = InError /\ r.conn.session = b.conn.session
      BY <3>2, <3>3 DEF Conns
    <3> QED BY <3>1, <3>2, <3>3, <3>4 DEF MysqlEnds
  <2> QED BY <2>4, <2>5
<1> QED BY <1>2, <1>3

LEMMA MysqlCommits ==
    ASSUME Dialect = "Mysql", NEW c, NEW sc, Len(sc) > 0, MysqlTied(c, sc), IsOpen(c.status),
           NEW r \in CommitTransaction(c)
    PROVE  \/ r.ret = "ok" /\ MysqlKeeps(c, r.conn)
           \/ r.ret # "ok" /\ MysqlEnds(c, r.conn)
<1> DEFINE stmt == CommitSql(c.status)
           d == c.status.depth
<1>0. c \in Conns /\ c.status \in Status /\ c.session \in Session /\ d \in Nat \ {0}
      /\ ~c.status.in_error /\ IsOpen(c.status)
  BY DEF MysqlTied, Conns, Status, IsOpen
<1>r. r \in Outcomes /\ r.conn \in Conns
  <2>1. Clean(c)
    BY DEF MysqlTied, Clean
  <2> QED BY <1>0, <2>1, CommitOutcomes DEF Good, Outcomes
<1>1. stmt \in Stmt /\ stmt.via = "batch"
  BY <1>0, SqlType DEF CommitSql, TransactionSql
<1>2. PICK x \in Exec(c, stmt) :
         r \in IF x.res = "ok"
               THEN {Outcome(AfterExit(c.status, x.conn.status), x.conn.session)}
               ELSE AfterFailedCommit(x.res, x.conn)
  BY DEF CommitTransaction, IsOpen
<1> HIDE DEF stmt
<1>3. MysqlReply(c, x, stmt)
  BY <1>0, <1>1, MysqlBatch
<1>4. x.res \in Results /\ x.conn \in Conns /\ x.conn.status = c.status /\ x.conn.session \in Session
  BY <1>3 DEF MysqlReply, Conns
<1>6. ExitIs(c.status, c.status, x.res)
  BY <1>0, ExitCases
<1>7. ASSUME x.res = "ok"
      PROVE  r.ret = "ok" /\ r.conn.status = DecreaseDepth(c.status) /\ r.conn.session = x.conn.session
  <2>1. AfterExit(c.status, c.status) = Return("ok", DecreaseDepth(c.status))
    BY <1>0, <1>6 DEF ExitIs
  <2> QED BY <1>2, <1>4, <1>7, <2>1 DEF Outcome, Return
<1>8. d = 1 => DecreaseDepth(c.status) = NoTransaction
  BY DEF DecreaseDepth
<1>9. d > 1 => /\ ~DecreaseDepth(c.status).in_error /\ DecreaseDepth(c.status).depth = d - 1
               /\ DecreaseDepth(c.status).requires_rollback <=> c.status.requires_rollback
  BY <1>0 DEF DecreaseDepth, Status
<1>d. d = 1 \/ d > 1
  BY <1>0
<1>10. CASE x.res = "lost" /\ MysqlLost(x.conn.session)
  <2>1. r \in AfterFailedCommit("lost", x.conn)
    BY <1>2, <1>10
  <2>2. MysqlEnds(c, r.conn) /\ r.ret \in {"lost", "rollback_error_on_commit"}
    BY <1>4, <1>10, <2>1, MysqlFailedCommit
  <2> QED BY <2>2
<1>11. CASE c.session.txn = "lost" /\ x.res = "lost" /\ x.conn.session = c.session
  <2>1. MysqlLost(c.session)
    BY <1>11 DEF MysqlTied, MysqlLost
  <2> QED BY <1>10, <1>11, <2>1
<1>12. CASE /\ c.session.txn # "lost"
            /\ \E a \in ServerReplies(c.session, stmt) : x.res = a.res /\ x.conn.session = a.session
  <2>1. PICK a \in ServerReplies(c.session, stmt) : x.res = a.res /\ x.conn.session = a.session
    BY <1>12
  <2>t. c.session.txn \in {"idle", "open"} /\ (c.session.txn = "idle" => c.session.work = {})
    BY <1>12 DEF MysqlTied
  <2>2. CASE d = 1
    <3>1. a \in CommitReplies(c.session)
      BY <2>1, <2>2 DEF stmt, CommitSql, TransactionSql, ServerReplies
    <3>2. /\ Committed(c.session).txn = "idle" /\ Committed(c.session).work = {}
      BY <1>0, LostSessions
    <3>3. a \in {Reply("ok", c.session), Reply("ok", Committed(c.session))}
          /\ (a = Reply("ok", c.session) => c.session.txn = "idle" \/ a = Reply("ok", Committed(c.session)))
      BY <2>t, <3>1 DEF CommitReplies, Embedded
    <3>4. x.res = "ok" /\ x.conn.session.txn = "idle" /\ x.conn.session.work = {}
      BY <2>1, <2>t, <3>2, <3>3 DEF Reply
    <3>5. r.ret = "ok" /\ r.conn.status = NoTransaction /\ r.conn.session = x.conn.session
      BY <1>7, <1>8, <2>2, <3>4
    <3> QED BY <1>0, <1>12, <1>r, <2>2, <3>4, <3>5 DEF MysqlKeeps
  <2>3. CASE d > 1
    <3>1. a \in ReleaseReplies(c.session, d - 1) /\ d # 1
      BY <1>0, <2>1, <2>3 DEF stmt, CommitSql, TransactionSql, ServerReplies
    <3>2. AfterError(c.session) = c.session
      BY DEF AfterError
    <3>4. \/ /\ x.res = "ok" /\ c.session.txn = "open" /\ SavesAt(c.session, d - 1) # {}
             /\ x.conn.session = Released(c.session, d - 1)
          \/ x.res = "error" /\ x.conn.session = c.session /\ (c.session.txn = "idle" \/ SavesAt(c.session, d - 1) = {})
      <4> HIDE DEF d
      <4>1. CASE c.session.txn = "idle" \/ SavesAt(c.session, d - 1) = {}
        BY <2>1, <2>t, <3>1, <3>2, <4>1 DEF ReleaseReplies, InTransaction, Reply
      <4>2. CASE ~(c.session.txn = "idle" \/ SavesAt(c.session, d - 1) = {})
        BY <2>1, <2>t, <3>1, <4>2 DEF ReleaseReplies, InTransaction, Reply
      <4> QED BY <4>1, <4>2
    <3>5. CASE x.res = "ok"
      <4>1. /\ r.ret = "ok" /\ ~r.conn.status.in_error /\ r.conn.status.depth = d - 1
            /\ r.conn.status.requires_rollback <=> c.status.requires_rollback
            /\ r.conn.session = x.conn.session
        BY <1>7, <1>9, <2>3, <3>5
      <4> QED BY <1>0, <1>12, <1>r, <2>3, <3>4, <3>5, <4>1 DEF MysqlKeeps
    <3>6. CASE x.res # "ok"
      <4>1. x.conn = c
        BY <1>0, <1>4, <3>4, <3>6 DEF Conns
      <4>2. c.status.requires_rollback
        <5> SUFFICES ASSUME ~c.status.requires_rollback PROVE FALSE
          OBVIOUS
        <5>1. c.session.txn = "open" /\ Holds(c.session, Works(sc), Len(sc)) /\ d = Len(sc)
          BY <1>0, <1>12, <2>t, <2>3 DEF MysqlTied
        <5>2. d - 1 \in 1..(d - 1)
          BY <1>0, <2>3
        <5> HIDE DEF d
        <5>3. SavesAt(c.session, d - 1) # {}
          BY <5>1, <5>2 DEF Holds
        <5> QED BY <3>4, <3>6, <5>1, <5>3
      <4>3. r \in AfterFailedCommit("error", c) /\ "error" \in Results
        BY <1>2, <3>4, <3>6, <4>1 DEF Results
      <4>4. MysqlEnds(c, r.conn) /\ r.ret \in {"error", "rollback_error_on_commit"}
        BY <1>0, <2>3, <4>2, <4>3, MysqlFailedCommit
      <4> QED BY <4>4
    <3> QED BY <3>5, <3>6
  <2> QED BY <1>d, <2>2, <2>3
<1> QED BY <1>3, <1>10, <1>11, <1>12 DEF MysqlReply

LEMMA MysqlKept ==
    ASSUME Dialect = "Mysql", NEW c, NEW sc \in Seq(Scope), Len(sc) > 0, MysqlTied(c, sc),
           NEW k, MysqlKeeps(c, k)
    PROVE  MysqlTied(k, Merge(sc))
<1> DEFINE tc == Merge(sc)
           n == Len(sc)
           d == c.status.depth
<1>0. n \in Nat /\ d \in Nat /\ c.session \in Session /\ c.status \in Status /\ k \in Conns
  BY LenProperties DEF MysqlTied, MysqlKeeps, Conns, Status
<1>4. ~c.status.in_error /\ d = n
  BY DEF MysqlTied, MysqlKeeps
<1>7. CASE d = 1 /\ k.status = NoTransaction /\ k.session.txn = "idle" /\ k.session.work = {}
  <2>2. ~k.status.in_error /\ k.status.depth = 0 /\ ~k.status.requires_rollback
    BY <1>7 DEF NoTransaction
  <2>3. tc = <<>>
    BY <1>4, <1>7 DEF Merge
  <2>4. Len(tc) = 0
    BY <2>3
  <2> HIDE DEF tc
  <2>5. MysqlTied(k, tc)
    BY <1>0, <1>7, <2>2, <2>4 DEF MysqlTied
  <2> QED BY <2>5 DEF tc
<1>8. CASE /\ d > 1 /\ c.session.txn = "open"
           /\ ~k.status.in_error /\ k.status.depth = d - 1
           /\ k.status.requires_rollback <=> c.status.requires_rollback
           /\ k.session = Released(c.session, d - 1)
  <2>1. n > 1
    BY <1>4, <1>8
  <2>2. Len(tc) = n - 1
    BY <2>1, MergeIs
  <2>3. Works(tc)[n - 1] = Works(sc)[n]
    BY <2>1, WorksMerged
  <2>4. \A j \in 0..(n - 2) : Works(tc)[j] = Works(sc)[j]
    BY <2>1, WorksMerged
  <2> HIDE DEF tc
  <2>5. ASSUME ~k.status.requires_rollback PROVE Holds(k.session, Works(tc), n - 1)
    <3>0. d > 0
      BY <1>0, <1>8
    <3>1. Holds(c.session, Works(sc), n)
      BY <1>4, <1>8, <2>5, <3>0 DEF MysqlTied
    <3>2. k.session = Released(c.session, n - 1)
      BY <1>4, <1>8
    <3> HIDE DEF n, d
    <3>3. \A j \in 1..(n - 2) : Works(tc)[j] = Works(sc)[j]
      BY <2>4
    <3>4. Holds(Released(c.session, n - 1), Works(tc), n - 1)
      BY <1>0, <2>1, <2>3, <3>1, <3>3, HoldsReleased
    <3> QED BY <3>2, <3>4
  <2>6. k.session.txn = "open"
    BY <1>0, <1>8 DEF Released, Session
  <2> HIDE DEF n, d
  <2>7. k.status.depth = n - 1 /\ n - 1 # 0 /\ n - 1 >= n - 1
    BY <1>0, <1>4, <1>8, <2>1
  <2>8. MysqlTied(k, tc)
    BY <1>0, <1>8, <2>2, <2>5, <2>6, <2>7 DEF MysqlTied
  <2> QED BY <2>8 DEF tc
<1> QED BY <1>7, <1>8 DEF MysqlKeeps

LEMMA MysqlStatement ==
    ASSUME Dialect = "Mysql", NEW c, NEW sc, MysqlTied(c, sc), NEW item \in Nat,
           NEW r \in Exec(c, Write(item, "query"))
    PROVE  \/ r.res = "ok" /\ c.session.txn # "lost" /\ r.conn \in Conns /\ r.conn.status = c.status
              /\ r.conn.session = Written(c.session, item)
           \/ r.res # "ok" /\ MysqlRefused(c, r.conn)
<1> DEFINE stmt == Write(item, "query")
<1>0. c \in Conns /\ c.status \in Status /\ c.session \in Session /\ stmt \in Stmt /\ stmt.via = "query"
  BY DEF MysqlTied, Conns, Write, Stmt, Ops, Vias
<1>1. PICK a \in Answers(c.session, stmt) :
         /\ r.res = a.res /\ r.conn.session = a.session
         /\ r.conn.status = Hook(c.status, stmt.via, a.res, a.session.txn)
  BY DEF Exec
<1>2. r.res \in Results /\ r.conn \in Conns
  BY <1>0, ExecType
<1>3. r.conn.status = IF a.res = "serialization" THEN SetRequiresRollback(c.status, TRUE) ELSE c.status
  BY <1>0, <1>1 DEF Hook, MysqlHook
<1> HIDE DEF stmt
<1>4. CASE c.session.txn = "lost"
  <2>1. a.res = "lost" /\ a.session = c.session
    BY <1>4 DEF Answers, Reply
  <2>2. r.conn = c
    BY <1>0, <1>1, <1>2, <1>3, <2>1 DEF Conns
  <2> QED BY <1>1, <1>2, <2>1, <2>2 DEF MysqlRefused
<1>5. CASE c.session.txn # "lost" /\ a \in LostReplies(c.session, stmt)
  <2>1. a.res = "lost" /\ a.session.txn = "lost" /\ a.session.work = {}
    BY <1>0, <1>5, LostAnswers
  <2>2. r.conn.status = c.status /\ MysqlLost(r.conn.session)
    BY <1>1, <1>3, <2>1 DEF MysqlLost
  <2> QED BY <1>1, <1>2, <2>1, <2>2 DEF MysqlRefused
<1>6. CASE c.session.txn # "lost" /\ a \in ServerReplies(c.session, stmt)
  <2>1. a \in WriteReplies(c.session, item)
    BY <1>6 DEF stmt, Write, ServerReplies
  <2>2. c.session.txn \in {"idle", "open"} /\ AfterError(c.session) = c.session
    BY <1>6 DEF MysqlTied, AfterError
  <2>3. a \in {Reply("ok", Written(c.session, item)), Reply("error", c.session),
               Reply("serialization", Closed(c.session))}
    BY <2>1, <2>2 DEF WriteReplies, Fault, Embedded
  <2>4. CASE a = Reply("ok", Written(c.session, item))
    BY <1>1, <1>2, <1>3, <1>6, <2>4 DEF Reply
  <2>5. CASE a = Reply("error", c.session)
    <3>1. r.res = "error" /\ r.conn = c
      BY <1>0, <1>1, <1>2, <1>3, <2>5 DEF Reply, Conns
    <3> QED BY <1>2, <3>1 DEF MysqlRefused
  <2>6. CASE a = Reply("serialization", Closed(c.session))
    <3>1. /\ r.res = "serialization" /\ r.conn.status = SetRequiresRollback(c.status, TRUE)
          /\ r.conn.session = Closed(c.session)
      BY <1>1, <1>3, <2>6 DEF Reply
    <3> QED BY <1>2, <1>6, <3>1 DEF MysqlRefused
  <2> QED BY <2>3, <2>4, <2>5, <2>6
<1> QED BY <1>4, <1>5, <1>6 DEF Answers

LEMMA MysqlWritten ==
    ASSUME Dialect = "Mysql", NEW c, NEW sc \in Seq(Scope), MysqlTied(c, sc), NEW item \in Items,
           c.session.txn # "lost", NEW k \in Conns, k.status = c.status,
           k.session = Written(c.session, item)
    PROVE  MysqlTied(k, IF Len(sc) > 0 THEN WroteTop(sc, item) ELSE sc)
<1> DEFINE tc == WroteTop(sc, item)
           n == Len(sc)
<1>0. n \in Nat /\ item \in Nat /\ c.session \in Session /\ k.session \in Session
  BY LenProperties DEF Items, MysqlTied, Conns
<1>1. /\ k.session.txn = c.session.txn /\ k.session.saves = c.session.saves
      /\ c.session.txn = "idle" => k.session.work = c.session.work
      /\ c.session.txn # "idle" => k.session.work = c.session.work \cup {item}
  BY <1>0 DEF Written, Session
<1>d. ~c.status.in_error /\ c.status.depth = n
  BY DEF MysqlTied
<1>3. CASE n > 0
  <2>1. Len(tc) = n
    BY <1>3, WroteTopIs
  <2>2. Works(tc)[n] = Works(sc)[n] \cup {item}
    BY <1>3, WorksTop
  <2>3. \A j \in 0..(n - 1) : Works(tc)[j] = Works(sc)[j]
    BY <1>3, WorksTop
  <2> HIDE DEF tc
  <2>4. ASSUME ~c.status.requires_rollback, c.session.txn = "open" PROVE Holds(k.session, Works(tc), n)
    <3>1. Holds(c.session, Works(sc), n)
      BY <1>3, <1>d, <2>4 DEF MysqlTied
    <3> HIDE DEF n
    <3>3. k.session.work = Works(tc)[n]
      BY <1>1, <2>2, <2>4, <3>1 DEF Holds
    <3> QED BY <1>0, <1>1, <2>3, <3>1, <3>3, HoldsAgain
  <2>5. MysqlTied(k, tc)
    BY <1>0, <1>1, <1>d, <2>1, <2>4 DEF MysqlTied
  <2> QED BY <1>3, <2>5 DEF tc
<1>4. CASE ~(n > 0)
  <2>1. n = 0
    BY <1>0, <1>4
  <2>2. c.session.txn # "open" /\ ~c.status.requires_rollback
    BY <1>d, <2>1 DEF MysqlTied
  <2>3. MysqlTied(k, sc)
    BY <1>0, <1>1, <1>d, <2>1, <2>2 DEF MysqlTied
  <2> QED BY <1>4, <2>3
<1> QED BY <1>3, <1>4

MysqlInv == TypeOK /\ MysqlTied(conn, scopes)

LEMMA MysqlTypes ==
    ASSUME MysqlInv
    PROVE  /\ IInv /\ conn \in Conns /\ scopes \in Seq(Scope)
           /\ Len(scopes) \in Nat /\ conn.status.depth \in Nat
           /\ Len(fate) < MaxWrites => Len(fate) + 1 \in Items /\ Len(fate) + 1 \in Nat
<1>1. IInv
  BY DEF MysqlInv, IInv, CleanWhenIdle, Clean, MysqlTied
<1>2. conn \in Conns /\ scopes \in Seq(Scope) /\ fate \in Seq(Fates) /\ MaxWrites \in Nat
  BY BoundsAssumption DEF MysqlInv, TypeOK, Conns
<1>3. Len(scopes) \in Nat /\ Len(fate) \in Nat /\ conn.status.depth \in Nat
  BY <1>2, LenProperties DEF Conns, Status
<1>4. Len(fate) < MaxWrites => Len(fate) + 1 \in Items /\ Len(fate) + 1 \in Nat
  <2> DEFINE m == Len(fate)
  <2>1. m \in Nat /\ MaxWrites \in Nat
    BY <1>2, <1>3
  <2> HIDE DEF m
  <2>2. m < MaxWrites => m + 1 \in Items /\ m + 1 \in Nat
    BY <2>1 DEF Items
  <2> QED BY <2>2 DEF m
<1> QED BY <1>1, <1>2, <1>3, <1>4

LEMMA InitMysqlInv == Init => MysqlInv
<1> SUFFICES ASSUME Init PROVE MysqlInv
  OBVIOUS
<1>1. TypeOK
  BY InitIInv DEF IInv
<1>2. /\ conn.session.txn = "idle" /\ conn.session.work = {} /\ ~conn.status.in_error
      /\ conn.status.depth = 0 /\ ~conn.status.requires_rollback /\ Len(scopes) = 0
  BY DEF Init, FreshSession, NoTransaction
<1>3. MysqlTied(conn, scopes)
  BY <1>1, <1>2 DEF MysqlTied, TypeOK, Conns
<1> QED BY <1>1, <1>3 DEF MysqlInv

LEMMA MysqlOpens ==
    ASSUME Dialect = "Mysql", MysqlInv, TypeOK', NEW r, MysqlBegun(conn, r), NEW test \in BOOLEAN,
           Opened(r, test)
    PROVE  MysqlInv'
<1>1. scopes \in Seq(Scope) /\ MysqlTied(conn, scopes)
  BY MysqlTypes DEF MysqlInv
<1>2. CASE r.ret = "ok"
  <2>1. conn' = r.conn /\ scopes' = Append(scopes, NewScope(test))
    BY <1>2 DEF Opened
  <2>2. MysqlTied(r.conn, Append(scopes, NewScope(test)))
    BY <1>1, <1>2, MysqlOpened
  <2> QED BY <2>1, <2>2 DEF MysqlInv
<1>3. CASE r.ret # "ok"
  <2>1. conn' = r.conn /\ scopes' = NoteFailure(scopes)
    BY <1>3 DEF Opened
  <2>2. MysqlRefused(conn, r.conn)
    BY <1>3 DEF MysqlBegun, MysqlRefused, Outcomes
  <2>3. MysqlTied(r.conn, NoteFailure(scopes))
    BY <1>1, <2>2, MysqlNoted
  <2> QED BY <2>1, <2>3 DEF MysqlInv
<1> QED BY <1>2, <1>3

(* Setting the flag of a test transaction.                                  *)
LEMMA MysqlFlagged ==
    ASSUME Dialect = "Mysql", NEW c, NEW k \in Conns, NEW sc, MysqlTied(k, sc), NEW f \in Conns,
           f.session = k.session, f.status = SetTestTransactionFlag(k.status)
    PROVE  MysqlTied(f, sc)
<1>1. /\ f.status.in_error <=> k.status.in_error
      /\ f.status.depth = k.status.depth
      /\ f.status.requires_rollback <=> k.status.requires_rollback
  BY DEF SetTestTransactionFlag, Conns, Status
<1> QED BY <1>1 DEF MysqlTied

LEMMA NextMysqlInv ==
    ASSUME Dialect = "Mysql", StatementVias \subseteq {"query"}, MysqlInv, [Next]_vars
    PROVE  MysqlInv'
<1>1. IInv /\ conn \in Conns /\ scopes \in Seq(Scope) /\ MysqlTied(conn, scopes)
      /\ Len(scopes) \in Nat /\ conn.status.depth \in Nat
  BY MysqlTypes DEF MysqlInv
<1>2. TypeOK'
  BY <1>1, NextIInv DEF IInv
<1>o. InScope => IsOpen(conn.status) \/ conn.status.in_error
  <2> DEFINE n == Len(scopes)
             d == conn.status.depth
  <2>1. n \in Nat /\ d \in Nat /\ (~conn.status.in_error => d >= n)
    BY <1>1 DEF MysqlTied
  <2> HIDE DEF n, d
  <2>2. n > 0 /\ ~conn.status.in_error => d > 0
    BY <2>1
  <2> QED BY <2>2 DEF InScope, IsOpen, n, d
<1>3. CASE Begin
  <2>1. PICK r \in BeginTransaction(conn) : Opened(r, FALSE)
    BY <1>3 DEF Begin
  <2> QED BY <1>1, <1>2, <2>1, MysqlBegins, MysqlOpens
<1>4. CASE BeginSqlTransaction
  <2>1. PICK r \in BeginTransactionSql(conn) : Opened(r, FALSE)
    BY <1>4 DEF BeginSqlTransaction
  <2>2. CASE IsOpen(conn.status)
    <3>1. r = [ret |-> "already_in_transaction", conn |-> conn]
      BY <2>1, <2>2 DEF BeginTransactionSql, Refused
    <3>2. MysqlBegun(conn, r)
      BY <1>1, <3>1 DEF MysqlBegun, Outcomes, Returns
    <3> QED BY <1>2, <2>1, <3>2, MysqlOpens
  <2>3. CASE ~IsOpen(conn.status)
    <3>1. r \in BeginTransaction(conn)
      BY <2>1, <2>3 DEF BeginTransactionSql
    <3> QED BY <1>1, <1>2, <2>1, <3>1, MysqlBegins, MysqlOpens
  <2> QED BY <2>2, <2>3
<1>5. CASE BeginTestTransaction
  <2>1. PICK r \in BeginTransaction(conn) :
           Opened(IF r.ret = "ok" THEN [r EXCEPT !.conn.status = SetTestTransactionFlag(@)] ELSE r,
                  TRUE)
    BY <1>5 DEF BeginTestTransaction
  <2>2. MysqlBegun(conn, r) /\ r \in Outcomes
    BY <1>1, <2>1, MysqlBegins DEF MysqlBegun
  <2>3. CASE r.ret # "ok"
    <3>1. Opened(r, TRUE)
      BY <2>1, <2>3
    <3> QED BY <1>2, <2>2, <3>1, MysqlOpens
  <2>4. CASE r.ret = "ok"
    <3> DEFINE q == [r EXCEPT !.conn.status = SetTestTransactionFlag(@)]
    <3>1. /\ q.ret = "ok" /\ q.conn.session = r.conn.session
          /\ q.conn.status = SetTestTransactionFlag(r.conn.status) /\ q.conn \in Conns
      <4>1. SetTestTransactionFlag(r.conn.status) \in Status
        BY <2>2, StatusMoves DEF Outcomes, Conns
      <4> QED BY <2>2, <2>4, <4>1 DEF Outcomes, Conns
    <3>2. conn' = q.conn /\ scopes' = Append(scopes, NewScope(TRUE))
      BY <2>1, <2>4, <3>1 DEF Opened
    <3> HIDE DEF q
    <3>3. MysqlTied(r.conn, Append(scopes, NewScope(TRUE)))
      BY <1>1, <2>2, <2>4, MysqlOpened
    <3>4. MysqlTied(q.conn, Append(scopes, NewScope(TRUE)))
      BY <2>2, <3>1, <3>3, MysqlFlagged DEF Outcomes
    <3> QED BY <1>2, <3>2, <3>4 DEF MysqlInv
  <2> QED BY <2>3, <2>4
<1>6. CASE Statement
  <2> DEFINE item == Len(fate) + 1
             Result(r) ==
               /\ conn' = r.conn
               /\ IF r.res = "ok"
                  THEN /\ fate' = Append(fate, IF InScope THEN "pending" ELSE "auto")
                       /\ scopes' = IF InScope
                                    THEN [scopes EXCEPT ![Len(scopes)].wrote = @ \cup {Len(fate) + 1}]
                                    ELSE scopes
                  ELSE /\ scopes' = NoteFailure(scopes)
                       /\ UNCHANGED fate
               /\ CountFailure(r.res)
  <2>0. PICK via \in StatementVias : \E r \in Exec(conn, Write(item, via)) : Result(r)
    BY <1>6 DEF Statement
  <2>1. PICK r \in Exec(conn, Write(item, "query")) : Result(r)
    <3>1. via = "query"
      OBVIOUS
    <3> QED BY <2>0, <3>1
  <2>2. item \in Items /\ item \in Nat
    BY <1>6, MysqlTypes DEF Statement
  <2>3. /\ conn' = r.conn
        /\ r.res = "ok" => scopes' = IF Len(scopes) > 0 THEN WroteTop(scopes, item) ELSE scopes
        /\ r.res # "ok" => scopes' = NoteFailure(scopes)
    BY <2>1 DEF InScope, WroteTop
  <2> HIDE DEF item
  <2>4. \/ r.res = "ok" /\ conn.session.txn # "lost" /\ r.conn \in Conns /\ r.conn.status = conn.status
           /\ r.conn.session = Written(conn.session, item)
        \/ r.res # "ok" /\ MysqlRefused(conn, r.conn)
    BY <1>1, <2>1, <2>2, MysqlStatement
  <2>5. CASE r.res = "ok"
    <3>1. MysqlTied(r.conn, IF Len(scopes) > 0 THEN WroteTop(scopes, item) ELSE scopes)
      BY <1>1, <2>2, <2>4, <2>5, MysqlWritten
    <3> QED BY <1>2, <2>3, <2>5, <3>1 DEF MysqlInv
  <2>6. CASE r.res # "ok"
    <3>1. MysqlTied(r.conn, NoteFailure(scopes))
      BY <1>1, <2>4, <2>6, MysqlNoted
    <3> QED BY <1>2, <2>3, <2>6, <3>1 DEF MysqlInv
  <2> QED BY <2>5, <2>6
<1>7. CASE CloseOk
  <2>1. PICK r \in CommitTransaction(conn) :
           /\ conn' = r.conn
           /\ r.ret = "ok" => scopes' = Merge(scopes)
           /\ r.ret # "ok" => Fails(r)
    BY <1>7 DEF CloseOk
  <2>2. InScope /\ Len(scopes) > 0
    BY <1>7 DEF CloseOk, Closable, InScope
  <2>3. CASE IsOpen(conn.status)
    <3>1. \/ r.ret = "ok" /\ MysqlKeeps(conn, r.conn)
          \/ r.ret # "ok" /\ MysqlEnds(conn, r.conn)
      BY <1>1, <2>1, <2>2, <2>3, MysqlCommits
    <3>2. CASE r.ret = "ok"
      <4>1. MysqlTied(r.conn, Merge(scopes))
        BY <1>1, <2>2, <3>1, <3>2, MysqlKept
      <4> QED BY <1>2, <2>1, <3>2, <4>1 DEF MysqlInv
    <3>3. CASE r.ret # "ok"
      <4>1. MysqlTied(r.conn, Inner(scopes))
        BY <1>1, <2>2, <3>1, <3>3, MysqlUndone
      <4> QED BY <1>2, <2>1, <3>3, <4>1 DEF MysqlInv, Fails
    <3> QED BY <3>2, <3>3
  <2>4. CASE conn.status.in_error
    <3>1. r = [ret |-> "broken", conn |-> conn]
      BY <2>1, <2>4 DEF CommitTransaction, Refused, IsOpen
    <3>2. r.ret # "ok" /\ r.conn = conn
      BY <3>1
    <3>3. MysqlTied(conn, Inner(scopes))
      BY <1>1, <2>4 DEF MysqlTied
    <3> QED BY <1>2, <2>1, <3>2, <3>3 DEF MysqlInv, Fails
  <2> QED BY <1>o, <2>2, <2>3, <2>4
<1>8. CASE CloseErr
  <2>1. PICK r \in RollbackTransaction(conn) : conn' = r.conn /\ Fails(r)
    BY <1>8 DEF CloseErr
  <2>2. InScope /\ Len(scopes) > 0
    BY <1>8 DEF CloseErr, Closable, InScope
  <2>3. CASE IsOpen(conn.status)
    <3>1. MysqlEnds(conn, r.conn)
      BY <1>1, <2>1, <2>3, MysqlRollsBack
    <3>2. MysqlTied(r.conn, Inner(scopes))
      BY <1>1, <2>2, <3>1, MysqlUndone
    <3> QED BY <1>2, <2>1, <3>2 DEF MysqlInv, Fails
  <2>4. CASE conn.status.in_error
    <3>1. r = [ret |-> "broken", conn |-> conn]
      BY <2>1, <2>4 DEF RollbackTransaction, Refused, IsOpen
    <3>2. r.conn = conn
      BY <3>1
    <3>3. MysqlTied(conn, Inner(scopes))
      BY <1>1, <2>4 DEF MysqlTied
    <3> QED BY <1>2, <2>1, <3>2, <3>3 DEF MysqlInv, Fails
  <2> QED BY <1>o, <2>2, <2>3, <2>4
<1>9. CASE UNCHANGED vars
  BY <1>9 DEF vars, MysqlInv, TypeOK
<1> QED BY <1>3, <1>4, <1>5, <1>6, <1>7, <1>8, <1>9 DEF Next

LEMMA MysqlFollows ==
    ASSUME MysqlInv
    PROVE  /\ DepthCoversScopes /\ (conn.session.txn # "lost" => DepthIsScopes)
           /\ NoSilentAutocommit /\ SavepointsHoldOuterWork
<1> DEFINE n == Len(scopes)
           d == conn.status.depth
<1>0. MysqlTied(conn, scopes) /\ n \in Nat /\ d \in Nat
  BY MysqlTypes DEF MysqlInv
<1>1. DepthCoversScopes /\ (conn.session.txn # "lost" => DepthIsScopes)
  BY <1>0 DEF DepthCoversScopes, DepthIsScopes, MysqlTied, IsOpen
<1>2. NoSilentAutocommit
  BY <1>0 DEF NoSilentAutocommit, MysqlTied, IsOpen
<1>3. \A k \in Nat : Works(scopes)[k] = WroteUpTo(k)
  BY DEF Works, Wrote, WroteUpTo
<1>4. InOrder => d = n /\ Holds(conn.session, Works(scopes), n)
  BY <1>0 DEF InOrder, MysqlTied, IsOpen
<1>5. SavepointsHoldOuterWork
  <2> SUFFICES ASSUME InOrder, NEW k \in 1..(d - 1)
               PROVE  /\ SavesAt(conn.session, k) # {}
                      /\ conn.session.saves[Newest(conn.session, k)].work = WroteUpTo(k)
    BY DEF SavepointsHoldOuterWork
  <2> HIDE DEF n, d
  <2>1. k \in Nat /\ k \in 1..(n - 1)
    BY <1>4
  <2>2. SavesAt(conn.session, k) # {} /\ conn.session.saves[Newest(conn.session, k)].work = Works(scopes)[k]
    BY <1>4, <2>1 DEF Holds
  <2> QED BY <1>3, <2>1, <2>2
<1> QED BY <1>1, <1>2, <1>5

(* Over MySQL, with statements that execute or load sends, whatever the
   deadlocks and the breaks: the manager is never behind the closures, and
   level with them while the connection stands, no statement commits on its
   own while it takes the transaction to be in order, and the newest
   savepoint of a level holds the work below it.                             *)
THEOREM MysqlFollowsScopes ==
    ASSUME Dialect = "Mysql", StatementVias \subseteq {"query"}
    PROVE  Spec => [](/\ DepthCoversScopes /\ (conn.session.txn # "lost" => DepthIsScopes)
                      /\ NoSilentAutocommit /\ SavepointsHoldOuterWork)
<1>1. Init => MysqlInv
  BY InitMysqlInv
<1>2. MysqlInv /\ [Next]_vars => MysqlInv'
  BY NextMysqlInv
<1>3. MysqlInv => /\ DepthCoversScopes /\ (conn.session.txn # "lost" => DepthIsScopes)
                  /\ NoSilentAutocommit /\ SavepointsHoldOuterWork
  BY MysqlFollows
<1> QED BY <1>1, <1>2, <1>3, PTL DEF Spec

-------------------------------------------------------------------------------
(***************************************************************************)
(* SQLite, whatever fails: a COMMIT or a RELEASE that fails leaves its      *)
(* level up, a ROLLBACK TO that fails ends it, and a disk that is full ends *)
(* the transaction under the manager, which has no hook to see it.  The    *)
(* levels of the manager never fall behind the closures all the same, so    *)
(* that no nested closure ends with the COMMIT of the one around it.        *)
(***************************************************************************)
Covers(c, sc) == c.status.in_error \/ c.status.depth >= Len(sc)

SqliteInv == IInv /\ Covers(conn, scopes)

LEMMA SqliteExec ==
    ASSUME Dialect = "Sqlite", NEW c, NEW stmt, NEW x \in Exec(c, stmt)
    PROVE  x.conn.status = c.status
BY DEF Exec, Hook

SqliteBegun(c, r) ==
    \/ r.ret = "ok" /\ ~c.status.in_error /\ Valid(r.conn, c.status.depth + 1)
    \/ r.ret # "ok" /\ r.conn.status = c.status

LEMMA SqliteBegins ==
    ASSUME Dialect = "Sqlite", NEW c \in Conns, NEW r \in BeginTransaction(c)
    PROVE  SqliteBegun(c, r)
<1>1. CASE c.status.in_error
  BY <1>1 DEF BeginTransaction, Refused, SqliteBegun
<1>2. CASE ~c.status.in_error
  <2>1. PICK x \in Exec(c, BeginSql(c.status)) :
           r = Outcome(AfterBegin(x.conn.status, x.res), x.conn.session)
    BY <1>2 DEF BeginTransaction
  <2>2. x.conn.status = c.status /\ c.status \in Status
    BY SqliteExec DEF Conns
  <2> QED BY <1>2, <2>1, <2>2 DEF Outcome, AfterBegin, Return, IncreaseDepth, Valid, Status,
                                       SqliteBegun
<1> QED BY <1>1, <1>2

(* One level at most, of a manager that is not in error, goes down.          *)
Lowers(st, after) ==
    after.in_error \/ (~st.in_error /\ st.depth > 0 /\ after.depth \in {st.depth, st.depth - 1})

LEMMA SqliteRollsBack ==
    ASSUME Dialect = "Sqlite", NEW c \in Conns, NEW r \in RollbackTransaction(c)
    PROVE  Lowers(c.status, r.conn.status) \/ r.conn = c
<1>1. CASE ~IsOpen(c.status)
  BY <1>1 DEF RollbackTransaction, Refused
<1>2. CASE IsOpen(c.status)
  <2>1. PICK x \in Exec(c, RollbackSql(c.status)) :
           r = Outcome(AfterRollback(c.status, x.conn.status, x.res), x.conn.session)
    BY <1>2 DEF RollbackTransaction, IsOpen
  <2>2. x.conn.status = c.status /\ c.status \in Status
    BY SqliteExec DEF Conns
  <2>3. r.conn.status = AfterRollback(c.status, c.status, x.res).status
    BY <2>1, <2>2 DEF Outcome
  <2> QED BY <1>2, <2>2, <2>3
          DEF AfterRollback, AfterExit, Return, DecreaseDepth, NoTransaction, InError, IsOpen,
              Lowers, Status
<1> QED BY <1>1, <1>2

LEMMA SqliteCommits ==
    ASSUME Dialect = "Sqlite", NEW c \in Conns, NEW r \in CommitTransaction(c)
    PROVE  Lowers(c.status, r.conn.status) \/ r.conn = c
<1>1. CASE ~IsOpen(c.status)
  BY <1>1 DEF CommitTransaction, Refused
<1>2. CASE IsOpen(c.status)
  <2>1. PICK x \in Exec(c, CommitSql(c.status)) :
           r \in IF x.res = "ok"
                 THEN {Outcome(AfterExit(c.status, x.conn.status), x.conn.session)}
                 ELSE AfterFailedCommit(x.res, x.conn)
    BY <1>2 DEF CommitTransaction, IsOpen
  <2>2. x.conn.status = c.status /\ c.status \in Status /\ x.conn \in Conns
    <3>1. CommitSql(c.status) \in Stmt
      BY <1>2, SqlType DEF Conns
    <3> QED BY <3>1, SqliteExec, ExecType DEF Conns
  <2>3. CASE x.res = "ok"
    <3>1. r.conn.status = AfterExit(c.status, c.status).status
      BY <2>1, <2>2, <2>3 DEF Outcome
    <3> QED BY <1>2, <2>2, <3>1 DEF AfterExit, Return, DecreaseDepth, NoTransaction, IsOpen,
                                    Lowers, Status
  <2>4. CASE x.res # "ok" /\ ~c.status.requires_rollback
    <3>1. r.conn.status = c.status
      BY <2>1, <2>2, <2>4 DEF AfterFailedCommit
    <3> QED BY <1>2, <2>2, <3>1 DEF Lowers, IsOpen, Status
  <2>5. CASE x.res # "ok" /\ c.status.requires_rollback
    <3>1. PICK b \in RollbackTransaction(x.conn) :
             r = IF b.ret = "ok" THEN [b EXCEPT !.ret = x.res]
                 ELSE [ret  |-> "rollback_error_on_commit",
                       conn |-> [b.conn EXCEPT !.status = InError]]
      BY <1>2, <2>1, <2>2, <2>5 DEF AfterFailedCommit
    <3>2. PICK e \in Exec(x.conn, RollbackSql(x.conn.status)) :
             b = Outcome(AfterRollback(x.conn.status, e.conn.status, e.res), e.conn.session)
      BY <1>2, <2>2, <3>1 DEF RollbackTransaction, IsOpen
    <3>3. r.conn.status \in {b.conn.status, InError}
      BY <3>1, <3>2 DEF Outcome
    <3>4. Lowers(c.status, b.conn.status) \/ b.conn.status = c.status
      BY <2>2, <3>1, SqliteRollsBack
    <3> QED BY <1>2, <2>2, <3>3, <3>4 DEF Lowers, IsOpen, InError, NoTransaction, Status
  <2> QED BY <2>3, <2>4, <2>5
<1> QED BY <1>1, <1>2

LEMMA SqliteTypes ==
    ASSUME SqliteInv
    PROVE  /\ conn \in Conns /\ conn.status.depth \in Nat
           /\ scopes \in Seq(Scope) /\ Len(scopes) \in Nat /\ Covers(conn, scopes)
BY LenProperties DEF SqliteInv, IInv, TypeOK, Conns, Status

(* transaction() starts, or does not.                                        *)
LEMMA SqliteOpened ==
    ASSUME Dialect = "Sqlite", SqliteInv, NEW r, NEW test \in BOOLEAN, Opened(r, test),
           SqliteBegun(conn, r)
    PROVE  Covers(conn', scopes')
<1> DEFINE n == Len(scopes)
           d == conn.status.depth
<1>1. n \in Nat /\ d \in Nat /\ scopes \in Seq(Scope) /\ (conn.status.in_error \/ d >= n)
  BY SqliteTypes DEF Covers
<1>2. CASE r.ret = "ok"
  <2>1. conn'.status.depth = d + 1 /\ Len(scopes') = n + 1
    BY <1>1, <1>2, OpenedIs DEF Opened, Valid, SqliteBegun
  <2>2. d >= n
    BY <1>1, <1>2 DEF SqliteBegun
  <2> HIDE DEF n, d
  <2>3. d + 1 >= n + 1
    BY <1>1, <2>2
  <2> QED BY <2>1, <2>3 DEF Covers
<1>3. CASE r.ret # "ok"
  BY <1>1, <1>3, NoteFailureIs DEF Opened, Covers, SqliteBegun
<1> QED BY <1>2, <1>3

(* transaction() ends, whichever way.                                        *)
LEMMA SqliteClosed ==
    ASSUME Dialect = "Sqlite", SqliteInv, Closable, scopes' \in {Inner(scopes), Merge(scopes)},
           Lowers(conn.status, conn'.status) \/ conn' = conn
    PROVE  Covers(conn', scopes')
<1> DEFINE n == Len(scopes)
           d == conn.status.depth
           e == conn'.status.depth
<1>1. n \in Nat /\ d \in Nat /\ scopes \in Seq(Scope) /\ n > 0 /\ (conn.status.in_error \/ d >= n)
  BY SqliteTypes DEF Covers, Closable, InScope
<1>2. Len(scopes') = n - 1
  <2>1. Len(Inner(scopes)) = n - 1
    BY <1>1, InnerIs
  <2>2. CASE n = 1
    BY <2>1, <2>2 DEF Merge
  <2>3. CASE n # 1
    <3>1. n > 1
      <4> HIDE DEF n
      <4> QED BY <1>1, <2>3
    <3> QED BY <1>1, <2>1, <3>1, MergeIs
  <2> QED BY <2>2, <2>3
<1>3. conn'.status.in_error \/ (d >= n /\ e \in {d, d - 1})
  BY <1>1 DEF Lowers
<1> HIDE DEF n, d, e
<1>4. conn'.status.in_error \/ e >= n - 1
  BY <1>1, <1>3
<1> QED BY <1>2, <1>4 DEF Covers, e

LEMMA NextSqliteInv ==
    ASSUME Dialect = "Sqlite", SqliteInv, [Next]_vars
    PROVE  SqliteInv'
<1> SUFFICES Covers(conn', scopes')
  BY NextIInv DEF SqliteInv
<1>2. conn \in Conns /\ scopes \in Seq(Scope) /\ Len(scopes) \in Nat /\ Covers(conn, scopes)
  BY SqliteTypes
<1>3. ASSUME NEW r \in BeginTransaction(conn), Opened(r, FALSE) PROVE Covers(conn', scopes')
  BY <1>2, <1>3, SqliteBegins, SqliteOpened
<1>4. CASE Begin
  BY <1>3, <1>4 DEF Begin
<1>5. CASE BeginSqlTransaction
  <2>1. PICK r \in BeginTransactionSql(conn) : Opened(r, FALSE)
    BY <1>5 DEF BeginSqlTransaction
  <2>2. CASE IsOpen(conn.status)
    <3>1. SqliteBegun(conn, r)
      BY <2>1, <2>2 DEF BeginTransactionSql, Refused, SqliteBegun
    <3> QED BY <2>1, <3>1, SqliteOpened
  <2>3. CASE ~IsOpen(conn.status)
    BY <1>3, <2>1, <2>3 DEF BeginTransactionSql
  <2> QED BY <2>2, <2>3
<1>6. CASE BeginTestTransaction
  <2>1. PICK r \in BeginTransaction(conn) :
           Opened(IF r.ret = "ok" THEN [r EXCEPT !.conn.status = SetTestTransactionFlag(@)] ELSE r,
                  TRUE)
    BY <1>6 DEF BeginTestTransaction
  <2>b. SqliteBegun(conn, r)
    BY <1>2, <2>1, SqliteBegins
  <2>2. CASE r.ret # "ok"
    BY <2>1, <2>b, <2>2, SqliteOpened
  <2>3. CASE r.ret = "ok"
    <3> DEFINE q == [r EXCEPT !.conn.status = SetTestTransactionFlag(@)]
               st == SetTestTransactionFlag(r.conn.status)
    <3>1. r \in Outcomes
      BY <1>2, BeginOutcomes DEF SqliteInv, IInv, CleanWhenIdle, Good
    <3>2. st.depth = r.conn.status.depth /\ st.in_error = r.conn.status.in_error
      BY <3>1 DEF SetTestTransactionFlag, Outcomes, Conns, Status
    <3> HIDE DEF st
    <3>3. q.ret = r.ret /\ q.conn.status = st
      BY <3>1 DEF Outcomes, Conns, st
    <3> HIDE DEF q
    <3>4. SqliteBegun(conn, q)
      BY <2>b, <2>3, <3>2, <3>3 DEF Valid, SqliteBegun
    <3>5. Opened(q, TRUE)
      BY <2>1, <2>3 DEF q
    <3> QED BY <3>4, <3>5, SqliteOpened
  <2> QED BY <2>2, <2>3
<1>7. CASE Statement
  <2>1. conn'.status = conn.status
    BY <1>7, SqliteExec DEF Statement
  <2>2. Len(scopes') = Len(scopes)
    <3> DEFINE item == Len(fate) + 1
    <3>1. \/ scopes' \in {NoteFailure(scopes), scopes}
          \/ Len(scopes) > 0 /\ scopes' = WroteTop(scopes, item)
      BY <1>7 DEF Statement, InScope, WroteTop
    <3>2. Len(NoteFailure(scopes)) = Len(scopes)
      BY <1>2, NoteFailureIs
    <3>3. item \in Items
      <4> DEFINE m == Len(fate)
      <4>1. m \in Nat /\ MaxWrites \in Nat /\ m < MaxWrites
        BY <1>7, BoundsAssumption, LenProperties DEF SqliteInv, IInv, TypeOK, Statement
      <4> HIDE DEF m
      <4>2. m + 1 \in Items
        BY <4>1 DEF Items
      <4> QED BY <4>2 DEF m
    <3>4. Len(scopes) > 0 => Len(WroteTop(scopes, item)) = Len(scopes)
      BY <1>2, <3>3, WroteTopIs
    <3> QED BY <3>1, <3>2, <3>4
  <2> QED BY <1>2, <2>1, <2>2 DEF Covers
<1>8. CASE CloseOk
  <2>1. PICK r \in CommitTransaction(conn) :
           conn' = r.conn /\ scopes' \in {Inner(scopes), Merge(scopes)}
    BY <1>8 DEF CloseOk, Fails
  <2>2. Closable
    BY <1>8 DEF CloseOk
  <2>3. Lowers(conn.status, conn'.status) \/ conn' = conn
    BY <1>2, <2>1, SqliteCommits
  <2> QED BY <2>1, <2>2, <2>3, SqliteClosed
<1>9. CASE CloseErr
  <2>1. PICK r \in RollbackTransaction(conn) : conn' = r.conn /\ scopes' = Inner(scopes)
    BY <1>9 DEF CloseErr, Fails
  <2>2. Closable
    BY <1>9 DEF CloseErr
  <2>3. Lowers(conn.status, conn'.status) \/ conn' = conn
    BY <1>2, <2>1, SqliteRollsBack
  <2> QED BY <2>1, <2>2, <2>3, SqliteClosed
<1>10. CASE UNCHANGED vars
  BY <1>2, <1>10 DEF vars, Covers
<1> QED BY <1>4, <1>5, <1>6, <1>7, <1>8, <1>9, <1>10 DEF Next

LEMMA InitSqliteInv == Init => SqliteInv
<1>1. Init => IInv
  BY InitIInv
<1>2. Init => Covers(conn, scopes)
  BY DEF Init, NoTransaction, Covers
<1> QED BY <1>1, <1>2 DEF SqliteInv

LEMMA SqliteCovers == SqliteInv => DepthCoversScopes
BY DEF SqliteInv, Covers, DepthCoversScopes, IsOpen

(* Over SQLite, for every set of faults, a disk that is full and rolls
   everything back included: the manager is never behind the closures.       *)
THEOREM SqliteCoversScopes ==
    ASSUME Dialect = "Sqlite"
    PROVE  Spec => []DepthCoversScopes
<1>1. Init => SqliteInv
  BY InitSqliteInv
<1>2. SqliteInv /\ [Next]_vars => SqliteInv'
  BY NextSqliteInv
<1> QED BY <1>1, <1>2, SqliteCovers, PTL DEF Spec

-------------------------------------------------------------------------------
(***************************************************************************)
(* R2d2Pool over PostgreSQL.  A panic that is caught leaves the manager    *)
(* with more levels than there are closures, so that the invariant of the  *)
(* manager alone does not hold here; what does is that the manager and the *)
(* server agree on whether a transaction is open (Agrees), and, in a test  *)
(* pool, that no closure ends below the one that never ends.               *)
(***************************************************************************)

(* The inductive invariant.  A new connection is fresh; one without the
   customizer never carries the flag of a test transaction, which is what
   HasBroken excuses an open transaction for; one with it keeps the closure
   that never ends at the bottom, and the levels of the manager never fall
   below the closures, so that no COMMIT is ever sent.                       *)
Wraps(c, sc) ==
    Len(sc) > 0 /\ sc[1].test /\ (c.status.in_error \/ c.status.depth >= Len(sc))

PoolTypes == place \in {"new", "idle", "out"} /\ customizer \in {"none", "test"}
NewIsFresh ==
    place = "new" => /\ scopes = <<>> /\ conn.session.txn = "idle"
                     /\ ~conn.status.in_error /\ conn.status.depth = 0
Untested ==
    customizer = "none" => /\ ~conn.status.test
                           /\ place # "out" => conn.session.txn \in {"idle", "lost"}
Tested ==
    customizer = "test" => /\ conn.session.durable = {}
                           /\ place # "new" => Wraps(conn, scopes)

PoolInv == TypeOK /\ PoolTypes /\ Agrees(conn) /\ NewIsFresh /\ Untested /\ Tested

-------------------------------------------------------------------------------
(* No call but that of the customizer puts the flag of a test transaction up. *)

LEMMA FlagMoves ==
    ASSUME NEW st \in Status, ~st.test
    PROVE  /\ ~IncreaseDepth(st).test /\ ~DecreaseDepth(st).test
           /\ ~NoTransaction.test /\ ~InError.test
           /\ \A to \in BOOLEAN : ~SetRequiresRollback(st, to).test
           /\ ~[st EXCEPT !.depth = @ - 1, !.requires_rollback = TRUE].test
BY DEF Status, IncreaseDepth, DecreaseDepth, NoTransaction, InError, SetRequiresRollback

LEMMA FlagHook ==
    ASSUME NEW st \in Status, ~st.test, NEW via, NEW res, NEW txn
    PROVE  ~Hook(st, via, res, txn).test
<1>1. ~PgHook(st, via, res, txn).test
  BY FlagMoves DEF PgHook
<1>2. ~MysqlHook(st, via, res).test
  BY FlagMoves DEF MysqlHook
<1> QED BY <1>1, <1>2 DEF Hook

LEMMA FlagExec ==
    ASSUME NEW c \in Conns, ~c.status.test, NEW stmt \in Stmt, NEW x \in Exec(c, stmt)
    PROVE  ~x.conn.status.test /\ x.conn \in Conns
<1>1. c.status \in Status
  BY DEF Conns
<1>2. PICK a \in Answers(c.session, stmt) :
         x.conn.status = Hook(c.status, stmt.via, a.res, a.session.txn)
  BY DEF Exec
<1> QED BY <1>1, <1>2, FlagHook, ExecType

LEMMA FlagBegin ==
    ASSUME NEW c \in Conns, ~c.status.test, NEW r \in BeginTransaction(c)
    PROVE  ~r.conn.status.test
<1>1. CASE c.status.in_error
  BY <1>1 DEF BeginTransaction, Refused
<1>2. CASE ~c.status.in_error
  <2>1. BeginSql(c.status) \in Stmt
    BY SqlType DEF Conns
  <2>2. PICK x \in Exec(c, BeginSql(c.status)) :
           r = Outcome(AfterBegin(x.conn.status, x.res), x.conn.session)
    BY <1>2 DEF BeginTransaction
  <2>3. ~x.conn.status.test /\ x.conn.status \in Status
    BY <2>1, FlagExec DEF Conns
  <2> QED BY <2>2, <2>3, FlagMoves DEF Outcome, AfterBegin, Return
<1> QED BY <1>1, <1>2

LEMMA FlagRollback ==
    ASSUME NEW c \in Conns, ~c.status.test, NEW r \in RollbackTransaction(c)
    PROVE  ~r.conn.status.test
<1>1. CASE ~IsOpen(c.status)
  BY <1>1 DEF RollbackTransaction, Refused
<1>2. CASE IsOpen(c.status)
  <2>1. RollbackSql(c.status) \in Stmt
    BY <1>2, SqlType DEF Conns
  <2>2. PICK x \in Exec(c, RollbackSql(c.status)) :
           r = Outcome(AfterRollback(c.status, x.conn.status, x.res), x.conn.session)
    BY <1>2 DEF RollbackTransaction, IsOpen
  <2>3. ~x.conn.status.test /\ x.conn.status \in Status
    BY <2>1, FlagExec DEF Conns
  <2>4. r.conn.status = AfterRollback(c.status, x.conn.status, x.res).status
    BY <2>2 DEF Outcome
  <2> QED BY <2>3, <2>4, FlagMoves DEF AfterRollback, AfterExit, Return
<1> QED BY <1>1, <1>2

LEMMA FlagCommit ==
    ASSUME NEW c \in Conns, ~c.status.test, NEW r \in CommitTransaction(c)
    PROVE  ~r.conn.status.test
<1>1. CASE ~IsOpen(c.status)
  BY <1>1 DEF CommitTransaction, Refused
<1>2. CASE IsOpen(c.status)
  <2>1. CommitSql(c.status) \in Stmt
    BY <1>2, SqlType DEF Conns
  <2>2. PICK x \in Exec(c, CommitSql(c.status)) :
           r \in IF x.res = "ok"
                 THEN {Outcome(AfterExit(c.status, x.conn.status), x.conn.session)}
                 ELSE AfterFailedCommit(x.res, x.conn)
    BY <1>2 DEF CommitTransaction, IsOpen
  <2>3. ~x.conn.status.test /\ x.conn.status \in Status /\ x.conn \in Conns
    BY <2>1, FlagExec DEF Conns
  <2>4. CASE x.res = "ok"
    <3>1. r.conn.status = AfterExit(c.status, x.conn.status).status
      BY <2>2, <2>4 DEF Outcome
    <3> QED BY <2>3, <3>1, FlagMoves DEF AfterExit, Return
  <2>5. CASE x.res # "ok" /\ ~(IsOpen(x.conn.status) /\ x.conn.status.requires_rollback)
    BY <2>2, <2>3, <2>5 DEF AfterFailedCommit
  <2>6. CASE x.res # "ok" /\ IsOpen(x.conn.status) /\ x.conn.status.requires_rollback
    <3>1. PICK b \in RollbackTransaction(x.conn) :
             r = IF b.ret = "ok" THEN [b EXCEPT !.ret = x.res]
                 ELSE [ret  |-> "rollback_error_on_commit",
                       conn |-> [b.conn EXCEPT !.status = InError]]
      BY <2>2, <2>6 DEF AfterFailedCommit
    <3>2. ~b.conn.status.test
      BY <2>3, FlagRollback
    <3>3. r.conn.status \in {b.conn.status, InError}
      <4>1. IsOpen(x.conn.status)
        BY <2>6
      <4>2. PICK e \in Exec(x.conn, RollbackSql(x.conn.status)) :
               b = Outcome(AfterRollback(x.conn.status, e.conn.status, e.res), e.conn.session)
        BY <3>1, <4>1 DEF RollbackTransaction, IsOpen
      <4> QED BY <3>1, <4>2 DEF Outcome
    <3>4. ~InError.test
      BY DEF InError, NoTransaction
    <3> QED BY <3>2, <3>3, <3>4
  <2> QED BY <2>4, <2>5, <2>6
<1> QED BY <1>1, <1>2

-------------------------------------------------------------------------------
(* What becomes of the closure at the bottom.                                *)

LEMMA WrapsAlike ==
    ASSUME NEW c, NEW k, SameLevels(c, k) \/ k.status.in_error, NEW sc, NEW tc,
           Wraps(c, sc), Len(tc) = Len(sc), tc[1].test = sc[1].test
    PROVE  Wraps(k, tc)
BY DEF Wraps, SameLevels

LEMMA WrapsOpened ==
    ASSUME NEW c, NEW k, c.status.depth \in Nat, Valid(k, c.status.depth + 1), ~c.status.in_error,
           NEW sc \in Seq(Scope), Wraps(c, sc), NEW test \in BOOLEAN
    PROVE  Wraps(k, Append(sc, NewScope(test)))
<1> DEFINE tc == Append(sc, NewScope(test))
           n == Len(sc)
           m == Len(tc)
           d == c.status.depth
           e == k.status.depth
<1>1. n \in Nat /\ n > 0 /\ sc[1].test /\ d >= n /\ d \in Nat /\ e = d + 1
  BY LenProperties DEF Wraps, Valid
<1>2. m = n + 1 /\ \A i \in 1..n : tc[i] = sc[i]
  BY OpenedIs
<1> HIDE DEF tc, n, m, d, e
<1>3. tc[1].test /\ m > 0 /\ e >= m
  BY <1>1, <1>2
<1>4. Wraps(k, tc)
  BY <1>3 DEF Wraps, m, e
<1> QED BY <1>4 DEF tc

LEMMA WrapsInner ==
    ASSUME NEW c, NEW k, c.status.depth \in Nat, NEW sc \in Seq(Scope), Len(sc) > 1, Wraps(c, sc),
           \/ k.status.in_error
           \/ ~c.status.in_error /\ Valid(k, c.status.depth - 1)
           \/ SameLevels(c, k)
    PROVE  /\ Wraps(k, Inner(sc)) /\ Wraps(k, Merge(sc))
<1> DEFINE tc == Inner(sc)
           uc == Merge(sc)
           n == Len(sc)
           m == Len(tc)
           d == c.status.depth
           e == k.status.depth
<1>1. n \in Nat /\ n > 1 /\ sc[1].test /\ d \in Nat
  BY LenProperties DEF Wraps
<1>2. k.status.in_error \/ (d >= n /\ e = d - 1) \/ (d >= n /\ e = d)
  BY DEF Wraps, Valid, SameLevels
<1>3. m = n - 1 /\ \A i \in 1..(n - 1) : tc[i] = sc[i]
  BY InnerIs
<1>4. Len(uc) = n - 1
  BY MergeIs
<1>5. \A i \in 1..(n - 1) : i # n - 1 => uc[i] = sc[i]
  BY MergeIs
<1>6. uc[n - 1].test = sc[n - 1].test
  BY MergeIs
<1> HIDE DEF tc, uc, n, m, d, e
<1>7. 1 \in 1..(n - 1) /\ n - 1 > 0
  BY <1>1
<1>8. tc[1].test /\ m > 0 /\ (k.status.in_error \/ e >= m)
  BY <1>1, <1>2, <1>3, <1>7
<1>9. uc[1].test
  BY <1>1, <1>5, <1>6, <1>7
<1>10. Len(tc) > 0 /\ Len(uc) > 0 /\ Len(uc) = Len(tc)
  BY <1>3, <1>4, <1>7 DEF m
<1>11. k.status.in_error \/ (k.status.depth >= Len(tc) /\ k.status.depth >= Len(uc))
  BY <1>3, <1>4, <1>8 DEF m, e
<1>12. Wraps(k, tc) /\ Wraps(k, uc)
  BY <1>8, <1>9, <1>10, <1>11 DEF Wraps
<1> QED BY <1>12 DEF tc, uc

(* A panic that is caught ends closures, but not the one at the bottom.      *)
LEMMA CaughtScopes ==
    ASSUME NEW sc \in Seq(Scope), NEW k \in DOMAIN sc
    PROVE  /\ SubSeq(sc, 1, k - 1) \in Seq(Scope)
           /\ \A c : c.status.depth \in Nat /\ Wraps(c, sc) /\ ~sc[k].test =>
                        Wraps(c, SubSeq(sc, 1, k - 1))
<1> DEFINE tc == SubSeq(sc, 1, k - 1)
           n == Len(sc)
<1>1. n \in Nat /\ k \in 1..n /\ k - 1 \in Nat
  BY LenProperties
<1>2. \A i \in 1..(k - 1) : sc[i] \in Scope
  BY <1>1, ElementOfSeq
<1>3. tc \in Seq(Scope) /\ Len(tc) = IF 1 <= k - 1 THEN (k - 1) - 1 + 1 ELSE 0
  BY <1>1, <1>2, SubSeqProperties
<1>4. \A i \in 1..Len(tc) : tc[i] = sc[1 + i - 1]
  BY <1>1, <1>2, SubSeqProperties
<1> HIDE DEF tc
<1>5. ASSUME NEW c, c.status.depth \in Nat, Wraps(c, sc), ~sc[k].test
      PROVE  Wraps(c, tc)
  <2> DEFINE d == c.status.depth
  <2>1. sc[1].test /\ (c.status.in_error \/ d >= n) /\ d \in Nat
    BY <1>5 DEF Wraps
  <2>2. k # 1 /\ k > 1
    BY <1>1, <1>5, <2>1
  <2> HIDE DEF n, d
  <2>3. Len(tc) = k - 1 /\ k - 1 > 0 /\ 1 \in 1..(k - 1)
    BY <1>1, <1>3, <2>2
  <2>4. tc[1] = sc[1]
    BY <1>1, <1>4, <2>3
  <2>5. c.status.in_error \/ d >= k - 1
    BY <1>1, <2>1, <2>2
  <2> QED BY <2>1, <2>3, <2>4, <2>5 DEF Wraps, d
<1> QED BY <1>3, <1>5 DEF tc

-------------------------------------------------------------------------------
(* The steps.                                                                *)

LEMMA PoolTypesHold ==
    ASSUME PoolInv
    PROVE  /\ IInv /\ conn \in Conns /\ conn.status \in Status /\ conn.session \in Session
           /\ conn.status.depth \in Nat /\ scopes \in Seq(Scope) /\ Len(scopes) \in Nat
           /\ failures \in Nat /\ Agrees(conn)
<1>1. IInv
  BY AgreesIsClean DEF PoolInv, IInv, CleanWhenIdle
<1>2. conn \in Conns /\ conn.status \in Status /\ conn.session \in Session
      /\ conn.status.depth \in Nat
  BY DEF PoolInv, Agrees, Conns, Status
<1>3. scopes \in Seq(Scope) /\ failures \in Nat
  BY DEF PoolInv, TypeOK
<1>4. Len(scopes) \in Nat
  BY <1>3, LenProperties
<1> QED BY <1>1, <1>2, <1>3, <1>4 DEF PoolInv

(* The caller that has the connection is the only one to change it.          *)
LEMMA OutPoolInv ==
    ASSUME PoolInv, place = "out", UNCHANGED pool, TypeOK', NEW k, conn' = k, Agrees(k),
           customizer = "none" => ~k.status.test,
           customizer = "test" => k.session.durable = conn.session.durable /\ Wraps(k, scopes')
    PROVE  PoolInv'
<1>1. place' = "out" /\ customizer' = customizer
  BY DEF pool
<1>2. PoolTypes' /\ NewIsFresh'
  BY <1>1 DEF PoolInv, PoolTypes, NewIsFresh
<1>3. Untested'
  BY <1>1 DEF Untested
<1>4. Tested'
  BY <1>1 DEF PoolInv, Tested
<1> QED BY <1>2, <1>3, <1>4 DEF PoolInv

LEMMA ReplacePoolInv ==
    ASSUME Dialect = "Pg", PoolInv, Replace, failures' \in Nat
    PROVE  PoolInv'
<1> DEFINE s == [FreshSession EXCEPT !.durable = conn.session.durable]
<1>1. conn.session \in Session /\ customizer' = customizer /\ place' = "new" /\ scopes' = <<>>
  BY PoolTypesHold DEF Replace
<1>2. /\ s \in Session /\ s.txn = "idle" /\ s.work = {} /\ s.durable = conn.session.durable
  <2>1. <<>> \in Seq(Save)
    OBVIOUS
  <2>2. FreshSession \in Session
    BY <2>1 DEF FreshSession, Session, Txn
  <2>3. /\ s.txn = "idle" /\ s.work = {} /\ s.durable = conn.session.durable
    BY DEF FreshSession
  <2>4. s \in Session
    BY <1>1, <2>2 DEF Session
  <2> QED BY <2>3, <2>4
<1>3. conn' = [status |-> NoTransaction, session |-> s]
  BY DEF Replace
<1> HIDE DEF s
<1>4. conn'.status = NoTransaction /\ conn'.session = s /\ conn' \in Conns
  BY <1>2, <1>3, StatusConstants DEF Conns
<1>5. ~NoTransaction.in_error /\ NoTransaction.depth = 0 /\ ~NoTransaction.test
  BY DEF NoTransaction
<1>6. Agrees(conn')
  BY <1>2, <1>4, <1>5 DEF Agrees
<1>7. fate' \in Seq(Fates) /\ Len(fate') <= MaxWrites
  <2>1. TypeOK /\ "cancelled" \in Fates
    BY DEF PoolInv, Fates
  <2> QED BY <2>1, SettleType DEF Replace
<1>8. TypeOK'
  BY <1>1, <1>4, <1>7 DEF TypeOK, Conns
<1>9. PoolTypes' /\ NewIsFresh' /\ Untested'
  BY <1>1, <1>2, <1>4, <1>5 DEF PoolInv, PoolTypes, NewIsFresh, Untested
<1>10. Tested'
  BY <1>1, <1>2, <1>4 DEF PoolInv, Tested
<1> QED BY <1>6, <1>8, <1>9, <1>10 DEF PoolInv

(* transaction() that starts, and the nested closures of it.                 *)
LEMMA OpenedPoolInv ==
    ASSUME Dialect = "Pg", PoolInv, place = "out", UNCHANGED pool, TypeOK',
           NEW r, BeginCases(conn, r), Opened(r, FALSE), customizer = "none" => ~r.conn.status.test
    PROVE  PoolInv'
<1>1. /\ scopes \in Seq(Scope) /\ conn.status.depth \in Nat /\ Len(scopes) \in Nat
  BY PoolTypesHold
<1>2. /\ conn' = r.conn /\ Agrees(r.conn) /\ r.conn.session.durable = conn.session.durable
      /\ scopes' = IF r.ret = "ok" THEN Append(scopes, NewScope(FALSE)) ELSE NoteFailure(scopes)
  BY DEF Opened, BeginCases
<1>3. ASSUME customizer = "test" PROVE Wraps(r.conn, scopes')
  <2>1. Wraps(conn, scopes)
    BY <1>3 DEF PoolInv, Tested
  <2>2. CASE r.ret = "ok"
    <3>1. ~conn.status.in_error /\ Valid(r.conn, conn.status.depth + 1)
      BY <2>2 DEF BeginCases
    <3> QED BY <1>1, <1>2, <2>1, <2>2, <3>1, WrapsOpened
  <2>3. CASE r.ret # "ok"
    <3>1. SameLevels(conn, r.conn) \/ r.conn.status.in_error
      BY <2>3 DEF BeginCases, Refusal, Breaks
    <3>2. Len(scopes') = Len(scopes) /\ scopes'[1].test = scopes[1].test
      <4>1. 1 \in 1..Len(scopes)
        BY <1>1, <2>1 DEF Wraps
      <4> QED BY <1>1, <1>2, <2>3, <4>1, NoteFailureIs
    <3> QED BY <2>1, <3>1, <3>2, WrapsAlike
  <2> QED BY <2>2, <2>3
<1> QED BY <1>2, <1>3, OutPoolInv

LEMMA StatementPoolInv ==
    ASSUME Dialect = "Pg", PoolInv, place = "out", UNCHANGED pool, TypeOK', Statement
    PROVE  PoolInv'
<1> DEFINE item == Len(fate) + 1
           Result(r) ==
             /\ conn' = r.conn
             /\ IF r.res = "ok"
                THEN scopes' = IF InScope
                               THEN [scopes EXCEPT ![Len(scopes)].wrote = @ \cup {Len(fate) + 1}]
                               ELSE scopes
                ELSE scopes' = NoteFailure(scopes)
<1>1. /\ scopes \in Seq(Scope) /\ conn.status.depth \in Nat /\ Len(scopes) \in Nat /\ conn \in Conns
      /\ Agrees(conn) /\ conn.session \in Session
  BY PoolTypesHold
<1>2. item \in Items /\ item \in Nat
  <2> DEFINE m == Len(fate)
  <2>1. m \in Nat /\ MaxWrites \in Nat /\ m < MaxWrites
    BY BoundsAssumption, LenProperties DEF PoolInv, TypeOK, Statement
  <2> HIDE DEF m
  <2>2. m + 1 \in Items /\ m + 1 \in Nat
    BY <2>1 DEF Items
  <2> QED BY <2>2 DEF m
<1>3. PICK via \in StatementVias : \E r \in Exec(conn, Write(item, via)) : Result(r)
  BY DEF Statement
<1>4. PICK r \in Exec(conn, Write(item, via)) : Result(r)
  BY <1>3
<1>5. via \in Vias
  BY ViasAssumption
<1>6. Write(item, via) \in Stmt
  BY <1>2, <1>5 DEF Write, Stmt, Ops
<1>7. customizer = "none" => ~r.conn.status.test
  BY <1>1, <1>6, FlagExec DEF PoolInv, Untested
<1>o. Obedient
  BY DEF Obedient
<1>8. /\ Agrees(r.conn)
      /\ \/ /\ r.res = "ok" /\ SameLevels(conn, r.conn) /\ conn.session.txn \in {"idle", "open"}
            /\ r.conn.session = Written(conn.session, item)
         \/ /\ r.res # "ok" /\ Refusal(conn, r.conn)
            /\ r.conn.session.durable = conn.session.durable
         \/ /\ r.res # "ok" /\ Breaks(conn, r.conn)
            /\ \/ r.conn.session.durable = conn.session.durable
               \/ /\ conn.session.txn = "idle"
                  /\ r.conn.session.durable = conn.session.durable \cup {item}
  BY <1>1, <1>2, <1>5, <1>o, StatementLevels
<1>9. SameLevels(conn, r.conn) \/ r.conn.status.in_error
  BY <1>4, <1>8 DEF Refusal, Breaks
<1>10. ASSUME customizer = "test"
       PROVE  r.conn.session.durable = conn.session.durable /\ Wraps(r.conn, scopes')
  <2>1. Wraps(conn, scopes) /\ Len(scopes) > 0 /\ 1 \in 1..Len(scopes)
    BY <1>1, <1>10 DEF PoolInv, Tested, Wraps
  <2>2. conn.session.txn # "idle"
    BY <1>1, <2>1 DEF Agrees, Wraps
  <2>3. Written(conn.session, item).durable = conn.session.durable
    BY <1>1, <1>2, <2>2, WrittenIs
  <2>4. r.conn.session.durable = conn.session.durable
    BY <1>8, <2>2, <2>3
  <2>5. scopes' = IF r.res = "ok" THEN WroteTop(scopes, item) ELSE NoteFailure(scopes)
    BY <1>4, <2>1 DEF InScope, WroteTop
  <2>6. Len(scopes') = Len(scopes) /\ scopes'[1].test = scopes[1].test
    BY <1>1, <1>2, <2>1, <2>5, WroteTopIs, NoteFailureIs
  <2>7. SameLevels(conn, r.conn) \/ r.conn.status.in_error
    BY <1>9
  <2>8. Wraps(r.conn, scopes')
    BY <2>1, <2>6, <2>7, WrapsAlike
  <2> QED BY <2>4, <2>8
<1>11. conn' = r.conn
  BY <1>4
<1> QED BY <1>7, <1>8, <1>10, <1>11, OutPoolInv

(* The end of a closure above the bottom, whichever way.                     *)
LEMMA ClosedPoolInv ==
    ASSUME Dialect = "Pg", PoolInv, place = "out", UNCHANGED pool, TypeOK', Closable,
           NEW r, conn' = r.conn, Agrees(r.conn), scopes' \in {Inner(scopes), Merge(scopes)},
           customizer = "none" => ~r.conn.status.test,
           \/ r.conn = conn /\ ~IsOpen(conn.status)
           \/ /\ IsOpen(conn.status)
              /\ conn.status.depth # 1 =>
                    /\ r.conn.session.durable = conn.session.durable
                    /\ r.conn.status.in_error \/ Valid(r.conn, conn.status.depth - 1)
    PROVE  PoolInv'
<1> DEFINE n == Len(scopes)
           d == conn.status.depth
<1>1. /\ scopes \in Seq(Scope) /\ d \in Nat /\ n \in Nat /\ n > 0 /\ ~scopes[n].test
  BY PoolTypesHold DEF Closable, InScope, TopScope
<1>2. ASSUME customizer = "test"
      PROVE  r.conn.session.durable = conn.session.durable /\ Wraps(r.conn, scopes')
  <2>1. Wraps(conn, scopes)
    BY <1>2 DEF PoolInv, Tested
  <2>2. scopes[1].test /\ (conn.status.in_error \/ d >= n)
    BY <2>1 DEF Wraps
  <2> HIDE DEF n, d
  <2>3. n # 1 /\ n > 1 /\ (d >= n => d # 1 /\ d > 0)
    BY <1>1, <2>2
  <2>4. \/ r.conn = conn /\ conn.status.in_error
        \/ /\ ~conn.status.in_error /\ d # 1
           /\ r.conn.session.durable = conn.session.durable
           /\ r.conn.status.in_error \/ Valid(r.conn, d - 1)
    BY <2>2, <2>3 DEF IsOpen, d
  <2>5. Len(scopes) > 1 /\ conn.status.depth \in Nat
    BY <1>1, <2>3 DEF n, d
  <2>6. \/ r.conn.status.in_error
        \/ ~conn.status.in_error /\ Valid(r.conn, conn.status.depth - 1)
    BY <2>4 DEF d
  <2>7. Wraps(r.conn, Inner(scopes)) /\ Wraps(r.conn, Merge(scopes))
    BY <1>1, <2>1, <2>5, <2>6, WrapsInner
  <2>8. r.conn.session.durable = conn.session.durable
    BY <2>4
  <2> QED BY <2>7, <2>8
<1> QED BY <1>2, OutPoolInv

LEMMA CommitDurable ==
    ASSUME Dialect = "Pg", NEW c, Agrees(c), NEW r \in CommitTransaction(c)
    PROVE  /\ r \in Outcomes /\ Agrees(r.conn)
           /\ \/ r.conn = c /\ ~IsOpen(c.status)
              \/ /\ IsOpen(c.status)
                 /\ c.status.depth # 1 =>
                       /\ r.conn.session.durable = c.session.durable
                       /\ r.conn.status.in_error \/ Valid(r.conn, c.status.depth - 1)
<1>0. Obedient /\ c.session \in Session
  BY DEF Obedient, Agrees, Conns
<1>1. /\ r \in Outcomes /\ Agrees(r.conn)
      /\ \/ r.ret # "ok" /\ ~IsOpen(c.status) /\ r.conn = c
         \/ IsOpen(c.status) /\ CommitCases(c, r)
  BY <1>0, CommitLevels
<1>2. /\ \A k : Released(c.session, k).durable = c.session.durable
      /\ \A k : RolledBackTo(c.session, k).durable = c.session.durable
      /\ AfterError(c.session).durable = c.session.durable
  BY <1>0, ErrorMoves DEF Released, RolledBackTo, Session
<1>3. ASSUME IsOpen(c.status), CommitCases(c, r), c.status.depth # 1
      PROVE  /\ r.conn.session.durable = c.session.durable
             /\ r.conn.status.in_error \/ Valid(r.conn, c.status.depth - 1)
  <2>1. CASE Committing(c, r)
    BY <1>2, <1>3, <2>1 DEF Committing
  <2>2. CASE Undoing(c, r)
    BY <1>2, <1>3, <2>2 DEF Undoing
  <2>3. CASE ~Committing(c, r) /\ ~Undoing(c, r)
    BY <1>3, <2>3 DEF CommitCases, Stuck, Broken
  <2> QED BY <2>1, <2>2, <2>3
<1> QED BY <1>1, <1>3

LEMMA RollbackDurable ==
    ASSUME Dialect = "Pg", NEW c, Agrees(c), NEW r \in RollbackTransaction(c)
    PROVE  /\ Agrees(r.conn)
           /\ \/ r.conn = c /\ ~IsOpen(c.status)
              \/ /\ IsOpen(c.status)
                 /\ c.status.depth # 1 =>
                       /\ r.conn.session.durable = c.session.durable
                       /\ r.conn.status.in_error \/ Valid(r.conn, c.status.depth - 1)
<1>0. Obedient
  BY DEF Obedient
<1> QED BY <1>0, RollbackLevels DEF RolledBack, Broken

LEMMA UsePoolInv ==
    ASSUME Dialect = "Pg", PoolInv, Use
    PROVE  PoolInv'
<1>1. /\ IInv /\ conn \in Conns /\ Agrees(conn) /\ place = "out" /\ UNCHANGED pool
  BY PoolTypesHold DEF Use
<1>o. Obedient
  BY DEF Obedient
<1>2. TypeOK'
  BY <1>1, NextIInv DEF IInv, Use, Next
<1>3. customizer = "none" => ~conn.status.test
  BY DEF PoolInv, Untested
<1>4. ASSUME NEW r \in BeginTransaction(conn), Opened(r, FALSE) PROVE PoolInv'
  <2>1. BeginCases(conn, r)
    BY <1>1, <1>4, <1>o, BeginLevels
  <2>2. customizer = "none" => ~r.conn.status.test
    BY <1>1, <1>3, <1>4, FlagBegin
  <2> QED BY <1>1, <1>2, <1>4, <2>1, <2>2, OpenedPoolInv
<1>5. CASE Begin
  BY <1>4, <1>5 DEF Begin
<1>6. CASE BeginSqlTransaction
  <2>1. PICK r \in BeginTransactionSql(conn) : Opened(r, FALSE)
    BY <1>6 DEF BeginSqlTransaction
  <2>2. CASE IsOpen(conn.status)
    <3>1. r = [ret |-> "already_in_transaction", conn |-> conn]
      BY <2>1, <2>2 DEF BeginTransactionSql, Refused
    <3>2. r \in Outcomes /\ r.ret # "ok" /\ r.conn = conn
      BY <1>1, <3>1 DEF Outcomes, Returns
    <3>3. BeginCases(conn, r)
      BY <1>1, <3>2 DEF BeginCases, Refusal, SameLevels
    <3> QED BY <1>1, <1>2, <1>3, <2>1, <3>2, <3>3, OpenedPoolInv
  <2>3. CASE ~IsOpen(conn.status)
    BY <1>4, <2>1, <2>3 DEF BeginTransactionSql
  <2> QED BY <2>2, <2>3
<1>7. CASE Statement
  BY <1>1, <1>2, <1>7, StatementPoolInv
<1>8. CASE CloseOk
  <2>1. PICK r \in CommitTransaction(conn) :
           /\ conn' = r.conn
           /\ scopes' \in {Inner(scopes), Merge(scopes)}
    BY <1>8 DEF CloseOk, Fails
  <2>2. customizer = "none" => ~r.conn.status.test
    BY <1>1, <1>3, FlagCommit
  <2>3. Closable
    BY <1>8 DEF CloseOk
  <2> QED BY <1>1, <1>2, <2>1, <2>2, <2>3, CommitDurable, ClosedPoolInv
<1>9. CASE CloseErr
  <2>1. PICK r \in RollbackTransaction(conn) : conn' = r.conn /\ scopes' = Inner(scopes)
    BY <1>9 DEF CloseErr, Fails
  <2>2. customizer = "none" => ~r.conn.status.test
    BY <1>1, <1>3, FlagRollback
  <2>3. Closable
    BY <1>9 DEF CloseErr
  <2> QED BY <1>1, <1>2, <2>1, <2>2, <2>3, RollbackDurable, ClosedPoolInv
<1> QED BY <1>5, <1>6, <1>7, <1>8, <1>9 DEF Use

(* A new connection in a test pool begins the transaction that never ends.   *)
LEMMA AcquirePoolInv ==
    ASSUME Dialect = "Pg", PoolInv, Acquire
    PROVE  PoolInv'
<1>1. /\ conn \in Conns /\ conn.status \in Status /\ Agrees(conn) /\ failures \in Nat
  BY PoolTypesHold
<1>2. /\ scopes = <<>> /\ conn.session.txn = "idle" /\ ~conn.status.in_error
      /\ conn.status.depth = 0
  BY DEF PoolInv, NewIsFresh, Acquire
<1>3. CASE customizer = "none"
  <2>1. place' = "idle" /\ UNCHANGED <<vars, customizer>>
    BY <1>3 DEF Acquire
  <2>2. conn' = conn /\ scopes' = scopes /\ fate' = fate /\ failures' = failures
        /\ customizer' = customizer
    BY <2>1 DEF vars
  <2>3. TypeOK' /\ Agrees(conn')
    BY <1>1, <2>2 DEF PoolInv, TypeOK
  <2>4. PoolTypes' /\ NewIsFresh'
    BY <2>1, <2>2 DEF PoolInv, PoolTypes, NewIsFresh
  <2>5. Untested' /\ Tested'
    BY <1>2, <1>3, <2>1, <2>2 DEF PoolInv, Untested, Tested
  <2> QED BY <2>3, <2>4, <2>5 DEF PoolInv
<1>4. CASE customizer # "none"
  <2>1. PICK r \in BeginTransaction(conn) :
           /\ CountFailure(r.ret)
           /\ IF r.ret = "ok"
              THEN /\ conn' = [r.conn EXCEPT !.status = SetTestTransactionFlag(@)]
                   /\ scopes' = <<NewScope(TRUE)>> /\ place' = "idle"
                   /\ UNCHANGED <<fate, customizer>>
              ELSE Replace
    BY <1>4 DEF Acquire
  <2>2. failures' \in Nat
    BY <1>1, <2>1 DEF CountFailure
  <2>3. CASE r.ret # "ok"
    BY <2>1, <2>2, <2>3, ReplacePoolInv
  <2>4. CASE r.ret = "ok"
    <3> DEFINE st == SetTestTransactionFlag(r.conn.status)
    <3>o. Obedient
      BY DEF Obedient
    <3>1. BeginCases(conn, r)
      BY <1>1, <3>o, BeginLevels
    <3>2. /\ r.conn \in Conns /\ Agrees(r.conn) /\ r.conn.session.durable = conn.session.durable
          /\ ~r.conn.status.in_error /\ r.conn.status.depth = 1 /\ r.conn.session.txn = "open"
      <4>1. /\ r.conn \in Conns /\ Agrees(r.conn)
            /\ r.conn.session.durable = conn.session.durable
        BY <3>1 DEF BeginCases, Agrees
      <4>2. Valid(r.conn, 1)
        BY <1>2, <2>4, <3>1 DEF BeginCases
      <4>3. r.conn.session = [conn.session EXCEPT !.txn = "open"]
        BY <1>2, <2>4, <3>1 DEF BeginCases
      <4>4. conn.session \in Session
        BY <1>1 DEF Conns
      <4> QED BY <4>1, <4>2, <4>3, <4>4 DEF Valid, Session
    <3>3. st \in Status /\ ~st.in_error /\ st.depth = 1
      BY <3>2 DEF SetTestTransactionFlag, IsOpen, Conns, Status
    <3>4. conn'.status = st /\ conn'.session = r.conn.session /\ conn' \in Conns
      BY <2>1, <2>4, <3>2, <3>3 DEF Conns
    <3> HIDE DEF st
    <3>5. Agrees(conn')
      BY <3>2, <3>3, <3>4 DEF Agrees
    <3>6. /\ NewScope(TRUE) \in Scope /\ NewScope(TRUE).test
      BY DEF NewScope, Scope
    <3>7. /\ scopes' \in Seq(Scope) /\ Len(scopes') = 1 /\ scopes'[1].test
      <4> DEFINE bottom == NewScope(TRUE)
      <4>1. scopes' = <<bottom>>
        BY <2>1, <2>4
      <4>2. bottom \in Scope /\ bottom.test
        BY <3>6
      <4> HIDE DEF bottom
      <4>3. <<bottom>> \in Seq(Scope) /\ Len(<<bottom>>) = 1 /\ <<bottom>>[1] = bottom
        BY <4>2
      <4> QED BY <4>1, <4>2, <4>3
    <3>8. fate' = fate /\ customizer' = customizer /\ place' = "idle"
      BY <2>1, <2>4
    <3>9. TypeOK'
      BY <2>2, <3>4, <3>7, <3>8 DEF PoolInv, TypeOK, Conns
    <3>10. PoolTypes' /\ NewIsFresh' /\ Untested'
      BY <1>4, <3>8 DEF PoolInv, PoolTypes, NewIsFresh, Untested
    <3>11. Tested'
      BY <3>2, <3>3, <3>4, <3>7, <3>8 DEF PoolInv, Tested, Wraps
    <3> QED BY <3>5, <3>9, <3>10, <3>11 DEF PoolInv
  <2> QED BY <2>3, <2>4
<1> QED BY <1>3, <1>4

LEMMA CheckOutPoolInv ==
    ASSUME Dialect = "Pg", PoolInv, CheckOut
    PROVE  PoolInv'
<1>1. /\ conn \in Conns /\ conn.status \in Status /\ Agrees(conn) /\ failures \in Nat
      /\ conn.session \in Session /\ failures' = failures /\ place = "idle"
  BY PoolTypesHold DEF CheckOut
<1>2. CASE conn.session.txn \in {"aborted", "lost"}
  BY <1>1, <1>2, ReplacePoolInv DEF CheckOut
<1>3. CASE conn.session.txn \notin {"aborted", "lost"}
  <2> DEFINE txn == conn.session.txn
             h == Hook(conn.status, "query", "ok", txn)
  <2>o. Obedient
    BY DEF Obedient
  <2>1. txn \in {"idle", "open"} /\ ~conn.status.in_error
    BY <1>1, <1>3 DEF Agrees
  <2>2. txn = "idle" <=> conn.status.depth = 0
    BY <1>1, <2>1 DEF Agrees
  <2>3. IsOpen(conn.status) <=> txn = "open"
    BY <1>1, <2>1, <2>2 DEF IsOpen, Status
  <2>4. h \in Status /\ ~h.in_error /\ h.depth = conn.status.depth
    BY <1>1, <2>o, <2>1, <2>2, <2>3, HookLevels
  <2>5. ~conn.status.test => ~h.test
    BY <1>1, FlagHook
  <2>6. /\ conn' = [conn EXCEPT !.status = h] /\ place' = "out"
        /\ scopes' = scopes /\ fate' = fate /\ customizer' = customizer
    BY <1>3 DEF CheckOut
  <2> HIDE DEF h
  <2>7. conn'.status = h /\ conn'.session = conn.session /\ conn' \in Conns
    BY <1>1, <2>4, <2>6 DEF Conns
  <2>8. Agrees(conn')
    BY <1>1, <2>1, <2>2, <2>4, <2>7 DEF Agrees
  <2>9. TypeOK'
    BY <1>1, <2>6, <2>7 DEF PoolInv, TypeOK, Conns
  <2>10. PoolTypes' /\ NewIsFresh'
    BY <2>6 DEF PoolInv, PoolTypes, NewIsFresh
  <2>11. Untested'
    BY <2>5, <2>6, <2>7 DEF PoolInv, Untested
  <2>12. Tested'
    <3>1. SameLevels(conn, conn')
      BY <2>1, <2>4, <2>7 DEF SameLevels
    <3>2. Wraps(conn, scopes) => Wraps(conn', scopes')
      BY <2>6, <3>1, WrapsAlike
    <3>3. place # "new" /\ customizer' = customizer /\ conn'.session = conn.session
      BY <1>1, <2>6, <2>7
    <3> QED BY <3>2, <3>3 DEF PoolInv, Tested
  <2> QED BY <2>8, <2>9, <2>10, <2>11, <2>12 DEF PoolInv
<1> QED BY <1>2, <1>3

LEMMA CaughtPoolInv ==
    ASSUME Dialect = "Pg", PoolInv, NEW k \in Closures, Caught(k)
    PROVE  PoolInv'
<1>1. /\ conn \in Conns /\ Agrees(conn) /\ failures \in Nat /\ scopes \in Seq(Scope)
      /\ conn.status.depth \in Nat
  BY PoolTypesHold
<1>2. k \in DOMAIN scopes /\ ~scopes[k].test
  BY DEF Closures
<1>3. /\ conn' = conn /\ UNCHANGED pool /\ place = "out" /\ failures' \in Nat
      /\ scopes' = SubSeq(scopes, 1, k - 1) /\ fate' = Settle(fate, WroteFrom(k), "cancelled")
  BY <1>1 DEF Caught
<1>4. scopes' \in Seq(Scope) /\ (Wraps(conn, scopes) => Wraps(conn, scopes'))
  BY <1>1, <1>2, <1>3, CaughtScopes
<1>5. fate' \in Seq(Fates) /\ Len(fate') <= MaxWrites
  <2>1. TypeOK /\ "cancelled" \in Fates
    BY DEF PoolInv, Fates
  <2> QED BY <1>3, <2>1, SettleType
<1>6. TypeOK'
  BY <1>1, <1>3, <1>4, <1>5 DEF PoolInv, TypeOK
<1>7. customizer = "none" => ~conn.status.test
  BY DEF PoolInv, Untested
<1>8. customizer = "test" => Wraps(conn, scopes')
  BY <1>3, <1>4 DEF PoolInv, Tested
<1> QED BY <1>1, <1>3, <1>6, <1>7, <1>8, OutPoolInv

(* A connection that comes back with a transaction open is in a test
   transaction, or is closed.                                                *)
LEMMA CheckInPoolInv ==
    ASSUME Dialect = "Pg", PoolInv, NEW panicking \in BOOLEAN, CheckIn(panicking)
    PROVE  PoolInv'
<1>1. /\ conn \in Conns /\ Agrees(conn) /\ failures \in Nat /\ failures' = failures
      /\ conn.status \in Status /\ place = "out"
  BY PoolTypesHold DEF CheckIn
<1>2. CASE panicking \/ HasBroken
  BY <1>1, <1>2, ReplacePoolInv DEF CheckIn
<1>3. CASE ~(panicking \/ HasBroken)
  <2>1. /\ place' = "idle" /\ conn' = conn /\ scopes' = scopes /\ fate' = fate
        /\ customizer' = customizer
    BY <1>3 DEF CheckIn
  <2>2. TypeOK' /\ Agrees(conn')
    BY <1>1, <2>1 DEF PoolInv, TypeOK
  <2>3. PoolTypes' /\ NewIsFresh' /\ Tested'
    BY <1>1, <2>1 DEF PoolInv, PoolTypes, NewIsFresh, Tested
  <2>4. ASSUME customizer = "none"
        PROVE  ~conn.status.test /\ conn.session.txn \in {"idle", "lost"}
    <3>1. ~conn.status.test
      BY <2>4 DEF PoolInv, Untested
    <3>2. ~conn.status.in_error /\ conn.status.depth = 0
      BY <1>1, <1>3, <3>1 DEF HasBroken, IsBrokenTransactionManager, Status
    <3> QED BY <1>1, <3>1, <3>2 DEF Agrees
  <2>5. Untested'
    BY <2>1, <2>4 DEF Untested
  <2> QED BY <2>2, <2>3, <2>5 DEF PoolInv
<1> QED BY <1>2, <1>3

LEMMA InitPoolInv ==
    ASSUME Dialect = "Pg", PoolInit
    PROVE  PoolInv
<1>1. TypeOK
  BY InitIInv DEF PoolInit, IInv
<1>2. /\ conn.status = NoTransaction /\ conn.session = FreshSession
      /\ conn.session.txn = "idle" /\ conn.session.work = {} /\ conn.session.durable = {}
      /\ ~conn.status.in_error /\ conn.status.depth = 0 /\ ~conn.status.test
  BY DEF PoolInit, Init, FreshSession, NoTransaction
<1>3. Agrees(conn)
  BY <1>1, <1>2 DEF Agrees, TypeOK, Conns
<1>4. scopes = <<>> /\ place = "new" /\ customizer \in {"none", "test"}
  BY DEF PoolInit, Init
<1>5. PoolTypes /\ NewIsFresh /\ Untested /\ Tested
  BY <1>2, <1>4 DEF PoolTypes, NewIsFresh, Untested, Tested
<1> QED BY <1>1, <1>3, <1>5 DEF PoolInv

LEMMA NextPoolInv ==
    ASSUME Dialect = "Pg", PoolInv, [PoolNext]_<<vars, pool>>
    PROVE  PoolInv'
<1>1. CASE Acquire
  BY <1>1, AcquirePoolInv
<1>2. CASE CheckOut
  BY <1>2, CheckOutPoolInv
<1>3. CASE Use
  BY <1>3, UsePoolInv
<1>4. CASE \E k \in Closures : Caught(k)
  BY <1>4, CaughtPoolInv
<1>5. CASE \E panicking \in BOOLEAN : CheckIn(panicking)
  BY <1>5, CheckInPoolInv
<1>6. CASE UNCHANGED <<vars, pool>>
  <2>1. /\ conn' = conn /\ scopes' = scopes /\ fate' = fate /\ failures' = failures
        /\ place' = place /\ customizer' = customizer
    BY <1>6 DEF vars, pool
  <2>2. TypeOK' /\ Agrees(conn')
    BY <2>1 DEF PoolInv, TypeOK
  <2>3. PoolTypes' /\ NewIsFresh' /\ Untested' /\ Tested'
    BY <2>1 DEF PoolInv, PoolTypes, NewIsFresh, Untested, Tested
  <2> QED BY <2>2, <2>3 DEF PoolInv
<1> QED BY <1>1, <1>2, <1>3, <1>4, <1>5, <1>6 DEF PoolNext

LEMMA PoolInvIsClean == PoolInv => PooledIsClean
BY DEF PoolInv, Untested, Tested, PooledIsClean

(* Over PostgreSQL, whatever fails, panics or is caught: a connection that
   waits in the pool carries no transaction of the caller who had it last,
   and nothing of what goes through a test pool becomes durable.             *)
THEOREM PooledIsCleanHolds ==
    ASSUME Dialect = "Pg"
    PROVE  PoolSpec => []PooledIsClean
<1>1. PoolInit => PoolInv
  BY InitPoolInv
<1>2. PoolInv /\ [PoolNext]_<<vars, pool>> => PoolInv'
  BY NextPoolInv
<1> QED BY <1>1, <1>2, PoolInvIsClean, PTL DEF PoolSpec

-------------------------------------------------------------------------------
(* A connection that broke, as long as nothing is sent by COPY: the manager
   of it is in error from that statement on, so that no pool takes it back.  *)

Known(c) == c.session.txn = "lost" => c.status.in_error

PoolAliveInv == PoolInv /\ Known(conn) /\ PooledIsAlive

LEMMA KnownExec ==
    ASSUME Dialect = "Pg", NEW c, NEW stmt, stmt.via # "copy", NEW x \in Exec(c, stmt)
    PROVE  Known(x.conn)
<1>1. PICK a \in Answers(c.session, stmt) :
         /\ x.conn.session = a.session
         /\ x.conn.status = PgHook(c.status, stmt.via, a.res, a.session.txn)
  BY DEF Exec, Hook
<1> QED BY <1>1 DEF PgHook, Known, InError, NoTransaction

LEMMA KnownBegin ==
    ASSUME Dialect = "Pg", NEW c, Known(c), NEW r \in BeginTransaction(c)
    PROVE  Known(r.conn) /\ (r.ret = "ok" => r.conn.session.txn # "lost")
<1>1. CASE c.status.in_error
  BY <1>1 DEF BeginTransaction, Refused
<1>2. CASE ~c.status.in_error
  <2>1. PICK x \in Exec(c, BeginSql(c.status)) :
           r = Outcome(AfterBegin(x.conn.status, x.res), x.conn.session)
    BY <1>2 DEF BeginTransaction
  <2>2. BeginSql(c.status).via # "copy"
    BY DEF BeginSql, TransactionSql
  <2>3. Known(x.conn)
    BY <2>2, KnownExec
  <2>4. CASE x.res = "ok" /\ ~x.conn.status.in_error
    BY <2>1, <2>3, <2>4 DEF Outcome, AfterBegin, Return, Known
  <2>5. CASE ~(x.res = "ok" /\ ~x.conn.status.in_error)
    <3>1. r.conn.status = x.conn.status /\ r.conn.session = x.conn.session /\ r.ret # "ok"
      BY <2>1, <2>5 DEF Outcome, AfterBegin, Return
    <3> QED BY <2>3, <3>1 DEF Known
  <2> QED BY <2>4, <2>5
<1> QED BY <1>1, <1>2

(* The end of a level by the server's leave, or not at all.                  *)
LEMMA KnownExit ==
    ASSUME NEW before, NEW st, NEW res, st.in_error
    PROVE  /\ AfterExit(before, st).status.in_error
           /\ AfterRollback(before, st, res).status.in_error
BY DEF AfterExit, AfterRollback, Return, IsOpen, NoTransaction, InError

LEMMA KnownRollback ==
    ASSUME Dialect = "Pg", NEW c, Known(c), NEW r \in RollbackTransaction(c)
    PROVE  Known(r.conn)
<1>1. CASE ~IsOpen(c.status)
  BY <1>1 DEF RollbackTransaction, Refused
<1>2. CASE IsOpen(c.status)
  <2>1. PICK x \in Exec(c, RollbackSql(c.status)) :
           r = Outcome(AfterRollback(c.status, x.conn.status, x.res), x.conn.session)
    BY <1>2 DEF RollbackTransaction, IsOpen
  <2>2. RollbackSql(c.status).via # "copy"
    BY DEF RollbackSql, TransactionSql
  <2>3. Known(x.conn)
    BY <2>2, KnownExec
  <2>4. /\ r.conn.status = AfterRollback(c.status, x.conn.status, x.res).status
        /\ r.conn.session = x.conn.session
    BY <2>1 DEF Outcome
  <2> QED BY <2>3, <2>4, KnownExit DEF Known
<1> QED BY <1>1, <1>2

LEMMA KnownCommit ==
    ASSUME Dialect = "Pg", NEW c, Known(c), NEW r \in CommitTransaction(c)
    PROVE  Known(r.conn)
<1>1. CASE ~IsOpen(c.status)
  BY <1>1 DEF CommitTransaction, Refused
<1>2. CASE IsOpen(c.status)
  <2>1. PICK x \in Exec(c, CommitSql(c.status)) :
           r \in IF x.res = "ok"
                 THEN {Outcome(AfterExit(c.status, x.conn.status), x.conn.session)}
                 ELSE AfterFailedCommit(x.res, x.conn)
    BY <1>2 DEF CommitTransaction, IsOpen
  <2>2. CommitSql(c.status).via # "copy"
    BY DEF CommitSql, TransactionSql
  <2>3. Known(x.conn)
    BY <2>2, KnownExec
  <2>4. CASE x.res = "ok"
    <3>1. /\ r.conn.status = AfterExit(c.status, x.conn.status).status
          /\ r.conn.session = x.conn.session
      BY <2>1, <2>4 DEF Outcome
    <3> QED BY <2>3, <3>1, KnownExit DEF Known
  <2>5. CASE x.res # "ok" /\ ~(IsOpen(x.conn.status) /\ x.conn.status.requires_rollback)
    BY <2>1, <2>3, <2>5 DEF AfterFailedCommit
  <2>6. CASE x.res # "ok" /\ IsOpen(x.conn.status) /\ x.conn.status.requires_rollback
    <3>1. PICK b \in RollbackTransaction(x.conn) :
             r = IF b.ret = "ok" THEN [b EXCEPT !.ret = x.res]
                 ELSE [ret  |-> "rollback_error_on_commit",
                       conn |-> [b.conn EXCEPT !.status = InError]]
      BY <2>1, <2>6 DEF AfterFailedCommit
    <3>2. Known(b.conn)
      BY <2>3, <3>1, KnownRollback
    <3>3. PICK e \in Exec(x.conn, RollbackSql(x.conn.status)) :
             b = Outcome(AfterRollback(x.conn.status, e.conn.status, e.res), e.conn.session)
      BY <2>6, <3>1 DEF RollbackTransaction, IsOpen
    <3>4. r.conn = b.conn \/ r.conn.status = InError
      BY <3>1, <3>3 DEF Outcome
    <3> QED BY <3>2, <3>4 DEF Known, InError, NoTransaction
  <2> QED BY <2>4, <2>5, <2>6
<1> QED BY <1>1, <1>2

LEMMA FreshIsKnown ==
    ASSUME Replace
    PROVE  Known(conn)' /\ PooledIsAlive'
BY DEF Replace, Known, PooledIsAlive, FreshSession

LEMMA InitPoolAliveInv ==
    ASSUME Dialect = "Pg", PoolInit
    PROVE  PoolAliveInv
<1>1. PoolInv
  BY InitPoolInv
<1>2. Known(conn) /\ PooledIsAlive
  BY DEF PoolInit, Init, FreshSession, Known, PooledIsAlive
<1> QED BY <1>1, <1>2 DEF PoolAliveInv

LEMMA NextPoolAliveInv ==
    ASSUME Dialect = "Pg", "copy" \notin StatementVias, PoolAliveInv, [PoolNext]_<<vars, pool>>
    PROVE  PoolAliveInv'
<1> SUFFICES Known(conn)' /\ PooledIsAlive'
  BY NextPoolInv DEF PoolAliveInv
<1>0. PoolInv /\ Known(conn) /\ PooledIsAlive
  BY DEF PoolAliveInv
<1>1. CASE Acquire
  <2>1. CASE customizer = "none"
    BY <1>0, <1>1, <2>1 DEF Acquire, PoolInv, NewIsFresh, vars, Known, PooledIsAlive
  <2>2. CASE customizer # "none"
    <3>1. PICK r \in BeginTransaction(conn) :
             IF r.ret = "ok"
             THEN conn' = [r.conn EXCEPT !.status = SetTestTransactionFlag(@)]
             ELSE Replace
      BY <1>1, <2>2 DEF Acquire
    <3>2. CASE r.ret # "ok"
      BY <3>1, <3>2, FreshIsKnown
    <3>3. CASE r.ret = "ok"
      <4>1. r.conn.session.txn # "lost" /\ r.conn \in Conns
        BY <1>0, <3>3, KnownBegin, BeginOutcomes, PoolTypesHold
           DEF IInv, CleanWhenIdle, Good, Outcomes
      <4>2. conn'.session = r.conn.session
        BY <3>1, <3>3, <4>1 DEF Conns
      <4> QED BY <4>1, <4>2 DEF Known, PooledIsAlive
    <3> QED BY <3>2, <3>3
  <2> QED BY <2>1, <2>2
<1>2. CASE CheckOut
  <2>1. CASE conn.session.txn \in {"aborted", "lost"}
    BY <1>2, <2>1, FreshIsKnown DEF CheckOut
  <2>2. CASE conn.session.txn \notin {"aborted", "lost"}
    <3>1. conn' = [conn EXCEPT !.status = Hook(@, "query", "ok", conn.session.txn)]
      BY <1>2, <2>2 DEF CheckOut
    <3>2. conn'.session = conn.session
      BY <1>0, <3>1, PoolTypesHold DEF Conns
    <3> QED BY <2>2, <3>2 DEF Known, PooledIsAlive
  <2> QED BY <2>1, <2>2
<1>3. CASE Use
  <2>1. PooledIsAlive' /\ place' = "out"
    BY <1>3 DEF Use, pool, PooledIsAlive
  <2>2. Known(conn')
    <3>1. CASE Begin
      BY <1>0, <3>1, KnownBegin DEF Begin, Opened
    <3>2. CASE BeginSqlTransaction
      <4>1. PICK r \in BeginTransactionSql(conn) : conn' = r.conn
        BY <3>2 DEF BeginSqlTransaction, Opened
      <4>2. CASE IsOpen(conn.status)
        BY <1>0, <4>1, <4>2 DEF BeginTransactionSql, Refused
      <4>3. CASE ~IsOpen(conn.status)
        BY <1>0, <4>1, <4>3, KnownBegin DEF BeginTransactionSql
      <4> QED BY <4>2, <4>3
    <3>3. CASE Statement
      <4>1. PICK via \in StatementVias : \E r \in Exec(conn, Write(Len(fate) + 1, via)) : conn' = r.conn
        BY <3>3 DEF Statement
      <4>2. Write(Len(fate) + 1, via).via # "copy"
        BY DEF Write
      <4> QED BY <4>1, <4>2, KnownExec
    <3>4. CASE CloseOk
      BY <1>0, <3>4, KnownCommit DEF CloseOk
    <3>5. CASE CloseErr
      BY <1>0, <3>5, KnownRollback DEF CloseErr
    <3> QED BY <1>3, <3>1, <3>2, <3>3, <3>4, <3>5 DEF Use
  <2> QED BY <2>1, <2>2 DEF Known
<1>4. CASE \E k \in Closures : Caught(k)
  BY <1>0, <1>4 DEF Caught, pool, Known, PooledIsAlive
<1>5. CASE \E panicking \in BOOLEAN : CheckIn(panicking)
  <2>1. PICK panicking \in BOOLEAN : CheckIn(panicking)
    BY <1>5
  <2>2. CASE panicking \/ HasBroken
    BY <2>1, <2>2, FreshIsKnown DEF CheckIn
  <2>3. CASE ~(panicking \/ HasBroken)
    BY <1>0, <2>1, <2>3
       DEF CheckIn, HasBroken, IsBrokenTransactionManager, Known, PooledIsAlive
  <2> QED BY <2>2, <2>3
<1>6. CASE UNCHANGED <<vars, pool>>
  BY <1>0, <1>6 DEF vars, pool, Known, PooledIsAlive
<1> QED BY <1>1, <1>2, <1>3, <1>4, <1>5, <1>6 DEF PoolNext

(* Over PostgreSQL, as long as nothing is sent by COPY: whichever statement
   the connection breaks in, a COMMIT included, and whatever panics: the pool
   does not take it back.                                                    *)
THEOREM PooledIsAliveHolds ==
    ASSUME Dialect = "Pg", "copy" \notin StatementVias
    PROVE  PoolSpec => []PooledIsAlive
<1>1. PoolInit => PoolAliveInv
  BY InitPoolAliveInv
<1>2. PoolAliveInv /\ [PoolNext]_<<vars, pool>> => PoolAliveInv'
  BY NextPoolAliveInv
<1>3. PoolAliveInv => PooledIsAlive
  BY DEF PoolAliveInv
<1> QED BY <1>1, <1>2, <1>3, PTL DEF PoolSpec

===============================================================================
