------------------- MODULE AnsiAsyncTransactionManagerProofs -------------------
(***************************************************************************)
(* Proofs about AnsiAsyncTransactionManager: its types, that a manager that *)
(* believes that no transaction is open is right, that a pool hands out no  *)
(* open transaction, and what is durable of the writes of closures that end *)
(* with Err, with Ok or with the task that runs them, for every number of   *)
(* closures, writes and failures.                                           *)
(***************************************************************************)
EXTENDS AnsiAsyncTransactionManager, TransactionProofs, FiniteSetTheorems

-------------------------------------------------------------------------------
(* The hooks and the flags.                                                 *)

(* Every way for a hook to see the status: as it is, or with the flag that
   the transaction has to be rolled back.                                   *)
LEMMA AsyncHookIs ==
    ASSUME NEW c \in AsyncConn, NEW via, NEW res, NEW txn
    PROVE  LET st == AsyncHook(c, via, res, txn)
           IN /\ st \in Status
              /\ st.depth = c.status.depth
              /\ (st.in_error <=> c.status.in_error)
              /\ (st.test <=> c.status.test)
              /\ st = c.status \/ (IsOpen(c.status) /\ st = [c.status EXCEPT !.requires_rollback = TRUE])
              /\ res = "ok" => st = c.status
<1>1. c.status \in Status
  BY DEF AsyncConn
<1>2. CASE AsyncHook(c, via, res, txn) = c.status
  BY <1>1, <1>2
<1>3. CASE AsyncHook(c, via, res, txn) = SetRequiresRollback(c.status, TRUE) /\ res # "ok"
  BY <1>1, <1>3 DEF SetRequiresRollback, Status
<1> QED BY <1>2, <1>3 DEF AsyncHook

(* What critical_transaction_block makes of a connection.                   *)
LEMMA BlockIs ==
    ASSUME NEW c \in AsyncConn, NEW op \in CallOps
    PROVE  /\ EnterBlock(c, op) \in AsyncConn /\ LeaveBlock(c, op) \in AsyncConn
           /\ EnterBlock(c, op).status = c.status /\ LeaveBlock(c, op).status = c.status
           /\ EnterBlock(c, op).session = c.session /\ LeaveBlock(c, op).session = c.session
           /\ (EnterBlock(c, op).is_broken <=> c.is_broken \/ Critical(op))
           /\ (LeaveBlock(c, op).is_broken <=> c.is_broken /\ ~Critical(op))
BY DEF AsyncConn, EnterBlock, LeaveBlock, Critical

(* A reply is an answer of the server, seen by the hook.                    *)
IsReply(r, a) ==
    /\ a.res \in Results /\ a.session \in Session
    /\ r.res = a.res /\ r.conn \in AsyncConn
    /\ r.conn.session = a.session
    /\ r.conn.status = AsyncHook(conn, call.stmt.via, a.res, a.session.txn)
    /\ (r.conn.is_broken <=> conn.is_broken /\ ~Critical(call.op))

LEMMA ReplyIs ==
    ASSUME conn \in AsyncConn, call \in Calls, NEW r \in Replied(conn)
    PROVE  \E a \in Answers(conn.session, call.stmt) : IsReply(r, a)
<1>1. conn.session \in Session /\ conn.status \in Status /\ call.stmt \in Stmt /\ call.op \in CallOps
  BY DEF AsyncConn, Calls
<1>2. PICK a \in Answers(conn.session, call.stmt) :
         r = [res  |-> a.res,
              conn |-> LeaveBlock([conn EXCEPT !.status = AsyncHook(conn, call.stmt.via, a.res, a.session.txn),
                                               !.session = a.session], call.op)]
  BY DEF Replied
<1>3. a.res \in Results /\ a.session \in Session
  BY <1>1, AnswersType DEF Replies
<1> DEFINE st == AsyncHook(conn, call.stmt.via, a.res, a.session.txn)
           k == [conn EXCEPT !.status = st, !.session = a.session]
<1>4. st \in Status
  BY AsyncHookIs
<1> HIDE DEF st
<1>5. k \in AsyncConn /\ k.status = st /\ k.session = a.session /\ (k.is_broken <=> conn.is_broken)
  BY <1>3, <1>4 DEF AsyncConn
<1> HIDE DEF k
<1>6. r.res = a.res /\ r.conn = LeaveBlock(k, call.op)
  BY <1>2 DEF k, st
<1>7. IsReply(r, a)
  BY <1>1, <1>3, <1>5, <1>6, BlockIs DEF IsReply, st
<1> QED BY <1>7

-------------------------------------------------------------------------------
(* The closures that a dropped future takes with it.                        *)

LEMMA ClosuresCount ==
    ASSUME scopes \in Seq(Scope)
    PROVE  Len(scopes) \in Nat /\ Closures \in 0..Len(scopes)
<1> DEFINE T == {i \in DOMAIN scopes : ~scopes[i].test}
           n == Len(scopes)
<1>1. n \in Nat /\ DOMAIN scopes = 1..n
  BY LenProperties
<1> HIDE DEF n
<1>2. IsFiniteSet(1..n) /\ Cardinality(1..n) = n
  BY <1>1, FS_Interval
<1>3. T \subseteq 1..n
  BY <1>1
<1> HIDE DEF T
<1>4. IsFiniteSet(T) /\ Cardinality(T) <= n
  BY <1>2, <1>3, FS_Subset
<1>5. Cardinality(T) \in Nat
  BY <1>4, FS_CardinalityType
<1>6. Cardinality(T) \in 0..n
  BY <1>1, <1>4, <1>5
<1> QED BY <1>1, <1>6 DEF T, n, Closures

(* The closures that stay are the outer ones, as they were.                 *)
LEMMA WithoutLast ==
    ASSUME scopes \in Seq(Scope), NEW k \in 0..Len(scopes)
    PROVE  /\ Without(k) \in Seq(Scope) /\ Len(Without(k)) = Len(scopes) - k
           /\ \A i \in 1..(Len(scopes) - k) : Without(k)[i] = scopes[i]
<1> DEFINE n == Len(scopes)
           m == Len(scopes) - k
<1>1. n \in Nat /\ m \in Nat /\ m <= n
  BY LenProperties
<1>2. \A i \in 1..m : i \in 1..n
  BY <1>1
<1>3. \A i \in 1..m : scopes[i] \in Scope
  BY <1>2, ElementOfSeq
<1> HIDE DEF n, m
<1>4. /\ SubSeq(scopes, 1, m) \in Seq(Scope)
      /\ Len(SubSeq(scopes, 1, m)) = IF 1 <= m THEN m - 1 + 1 ELSE 0
      /\ \A i \in 1..(m - 1 + 1) : SubSeq(scopes, 1, m)[i] = scopes[1 + i - 1]
  BY <1>1, <1>3, SubSeqProperties
<1>5. Len(SubSeq(scopes, 1, m)) = m
  BY <1>1, <1>4
<1>6. \A i \in 1..m : SubSeq(scopes, 1, m)[i] = scopes[i]
  BY <1>1, <1>4
<1> QED BY <1>4, <1>5, <1>6 DEF Without, m

-------------------------------------------------------------------------------
(* The invariant.                                                           *)

Beginning(op) == op \in {"begin", "begin_sql", "begin_test"}
Closing(op)   == op \in {"commit", "rollback", "repair"}

(* The statement that a call sends, and what the call found.                *)
Fits(op, stmt) ==
    /\ Beginning(op) => stmt = BeginSql(conn.status) /\ ~conn.status.in_error
    /\ op = "begin_test" => scopes = <<>>
    /\ op = "write" => stmt = Write(Len(fate) + 1, "query") /\ Len(fate) < MaxWrites
    /\ op = "commit" => stmt = CommitSql(conn.status)
    /\ op \in {"rollback", "repair"} => stmt = RollbackSql(conn.status)
    /\ Closing(op) => IsOpen(conn.status) /\ Len(scopes) > 0 /\ ~TopScope.test

(* Nothing changes while a call is awaited.                                 *)
InFlight == call # NoCall => /\ place = "held" /\ call \in Calls
                             /\ call.before = conn.status
                             /\ Fits(call.op, call.stmt)

(* The flag is up while a transaction statement is awaited.                 *)
CutOff == call # NoCall /\ Critical(call.op)
Marked == CutOff => conn.is_broken

(* A pool that asks keeps no connection whose flag is up, and a caller whose
   whole task is dropped with its call never sees the flag.                 *)
Unbroken ==
    /\ Pool = "bb8" /\ place = "pool" => ~IsBroken(conn)
    /\ Pool # "mobc" /\ CancelWhole /\ place = "held" /\ ~CutOff => ~conn.is_broken

Idle(st) == ~st.in_error /\ st.depth = 0
Quiet(s) == s.txn \in {"idle", "lost"}
Tidy     == Idle(conn.status) /\ (conn.is_broken => CutOff) => Quiet(conn.session)

(* InTransaction is a depth above zero, and nothing else has flags.         *)
Normal(st) == IsOpen(st) \/ st \in {NoTransaction, InError}

(* Someone sees the flag before the next transaction statement lowers it:
   debug_assert!, or the pool.                                              *)
Guarded == DebugAssertions \/ (Pool # "mobc" /\ CancelWhole)

AsyncInv == /\ TypeOK
            /\ Normal(conn.status)
            /\ InFlight
            /\ Marked
            /\ Unbroken

-------------------------------------------------------------------------------
LEMMA InitAsyncInv == Init => AsyncInv /\ Tidy
<1> SUFFICES ASSUME Init PROVE AsyncInv /\ Tidy
  OBVIOUS
<1>1. NoTransaction \in Status /\ FreshSession \in Session
  BY StatusConstants, EmptySeq DEF Session, FreshSession, Txn
<1>2. /\ conn.status = NoTransaction /\ conn.session = FreshSession
      /\ conn.is_broken = FALSE /\ conn \in AsyncConn
  BY <1>1 DEF Init, NewConn, AsyncConn
<1>3. scopes \in Seq(Scope) /\ fate \in Seq(Fates)
  BY EmptySeq DEF Init
<1>4. TypeOK
  BY <1>2, <1>3 DEF TypeOK, Init
<1>5. ~IsBroken(conn)
  BY <1>2 DEF IsBroken, IsBrokenTransactionManager, NoTransaction, FreshSession
<1>6. Normal(conn.status) /\ InFlight /\ Marked /\ Unbroken
  BY <1>2, <1>5 DEF Init, Normal, InFlight, Marked, Unbroken, CutOff
<1>7. Tidy
  BY <1>2 DEF Tidy, Quiet, FreshSession
<1> QED BY <1>4, <1>6, <1>7 DEF AsyncInv

(* The shapes of a state that no step changes.                              *)
LEMMA AsyncTypes ==
    ASSUME AsyncInv
    PROVE  /\ conn \in AsyncConn /\ conn.status \in Status /\ conn.session \in Session
           /\ conn.is_broken \in BOOLEAN
           /\ scopes \in Seq(Scope) /\ Len(scopes) \in Nat
           /\ fate \in Seq(Fates) /\ Len(fate) \in Nat
           /\ failures \in Nat /\ failures + 1 \in Nat
           /\ place \in {"held", "dropped", "pool"}
           /\ call \in Calls \cup {NoCall}
<1>1. /\ conn \in AsyncConn /\ scopes \in Seq(Scope) /\ fate \in Seq(Fates) /\ failures \in Nat
      /\ place \in {"held", "dropped", "pool"} /\ call \in Calls \cup {NoCall}
  BY DEF AsyncInv, TypeOK
<1>2. conn.status \in Status /\ conn.session \in Session /\ conn.is_broken \in BOOLEAN
  BY <1>1 DEF AsyncConn
<1>3. Len(scopes) \in Nat /\ Len(fate) \in Nat
  BY <1>1, LenProperties
<1> QED BY <1>1, <1>2, <1>3

(* Calls on the connection that send nothing, and closures that end without. *)
LEMMA RefuseStep ==
    ASSUME AsyncInv, Ready, Refuse
    PROVE  AsyncInv' /\ (Tidy => Tidy')
<1>1. scopes' \in Seq(Scope) /\ failures' \in Nat
  BY AsyncTypes, ScopesType DEF Refuse
<1>2. UNCHANGED <<conn, call, fate, place>> /\ call = NoCall
  BY DEF Refuse, Ready
<1>3. TypeOK'
  BY <1>1, <1>2 DEF AsyncInv, TypeOK
<1>4. Normal(conn.status)' /\ InFlight' /\ Marked' /\ Unbroken'
  BY <1>2 DEF AsyncInv, Normal, InFlight, Marked, Unbroken, CutOff, IsBroken
<1>5. Tidy => Tidy'
  BY <1>2 DEF Tidy, CutOff
<1> QED BY <1>3, <1>4, <1>5 DEF AsyncInv

LEMMA SqlOfCalls ==
    ASSUME NEW st \in Status, NEW n \in Nat
    PROVE  /\ BeginSql(st) \in Stmt /\ Write(n, "query") \in Stmt
           /\ IsOpen(st) => CommitSql(st) \in Stmt /\ RollbackSql(st) \in Stmt
BY SqlType DEF Write, Stmt, Ops, Vias

LEMMA FitsStmt ==
    ASSUME AsyncInv, NEW op \in CallOps, NEW stmt, Fits(op, stmt)
    PROVE  stmt \in Stmt
<1>1. conn.status \in Status /\ Len(fate) + 1 \in Nat
  BY AsyncTypes
<1>2. CASE op \in {"begin", "begin_sql", "begin_test"}
  BY <1>1, <1>2, SqlOfCalls DEF Fits, Beginning
<1>3. CASE op = "write"
  BY <1>1, <1>3, SqlOfCalls DEF Fits
<1>4. CASE op \in {"commit", "rollback", "repair"}
  BY <1>1, <1>4, SqlOfCalls DEF Fits, Closing
<1> QED BY <1>2, <1>3, <1>4 DEF CallOps

(* The task unwinds: debug_assert! finds the flag up.                       *)
LEMMA PanicStep ==
    ASSUME AsyncInv, Ready, NEW op \in CallOps, conn.is_broken, Panic(op)
    PROVE  AsyncInv' /\ (Tidy => Tidy')
<1> DEFINE n == Closures
           ends == Settle(fate, WroteByLast(n), "cancelled")
<1>1. n \in 0..Len(scopes)
  BY AsyncTypes, ClosuresCount
<1>2. /\ conn' = EnterBlock(conn, op) /\ scopes' = Without(n) /\ fate' = ends
      /\ failures' = failures + 1 /\ place' = "dropped" /\ call' = NoCall
  BY DEF Panic, Ready
<1>3. scopes' \in Seq(Scope)
  BY <1>1, <1>2, AsyncTypes, WithoutLast
<1>4. fate' \in Seq(Fates)
  <2>1. "cancelled" \in Fates
    BY DEF Fates
  <2> QED BY <1>2, <2>1, AsyncTypes, SettleKeepsType
<1>5. conn' \in AsyncConn /\ conn'.status = conn.status /\ conn'.is_broken
  BY <1>2, AsyncTypes, BlockIs
<1> HIDE DEF ends, n
<1>6. TypeOK'
  BY <1>2, <1>3, <1>4, <1>5, AsyncTypes DEF TypeOK
<1>7. Normal(conn.status)' /\ InFlight' /\ Marked' /\ Unbroken'
  BY <1>2, <1>5 DEF AsyncInv, Normal, InFlight, Marked, Unbroken, CutOff
<1>8. Tidy'
  BY <1>2, <1>5 DEF Tidy, CutOff
<1> QED BY <1>6, <1>7, <1>8 DEF AsyncInv

(* A call is sent.                                                          *)
LEMMA SendStep ==
    ASSUME AsyncInv, Ready, NEW op \in CallOps, NEW stmt, Fits(op, stmt), Send(op, stmt)
    PROVE  AsyncInv' /\ (Guarded /\ Tidy => Tidy')
<1>1. CASE DebugAssertions /\ Critical(op) /\ conn.is_broken
  <2>1. Panic(op)
    BY <1>1 DEF Send
  <2> QED BY <1>1, <2>1, PanicStep
<1>2. CASE ~(DebugAssertions /\ Critical(op) /\ conn.is_broken)
  <2> DEFINE sent == [op |-> op, stmt |-> stmt, before |-> conn.status, error |-> "ok"]
  <2>1. /\ conn' = EnterBlock(conn, op) /\ call' = sent
        /\ UNCHANGED <<scopes, fate, failures, place>>
    BY <1>2 DEF Send
  <2>2. sent \in Calls /\ sent.op = op /\ sent.stmt = stmt /\ sent.before = conn.status
    BY AsyncTypes, FitsStmt DEF Calls, Results
  <2>3. /\ conn' \in AsyncConn /\ conn'.status = conn.status /\ conn'.session = conn.session
        /\ (conn'.is_broken <=> conn.is_broken \/ Critical(op))
    BY <2>1, AsyncTypes, BlockIs
  <2> HIDE DEF sent
  <2>n. call' # NoCall
    BY <2>1, <2>2 DEF NoCall, CallOps
  <2>4. TypeOK'
    BY <2>1, <2>2, <2>3, AsyncTypes DEF TypeOK
  <2>5. Fits(op, stmt)'
    BY <2>1, <2>3 DEF Fits, TopScope
  <2>6. InFlight'
    BY <2>1, <2>2, <2>3, <2>5 DEF InFlight, Fits, Ready, TopScope
  <2>7. Normal(conn.status)' /\ Marked' /\ (CutOff' <=> Critical(op))
    BY <2>1, <2>2, <2>3, <2>n DEF AsyncInv, Normal, Marked, CutOff
  <2>8. Unbroken'
    BY <2>1, <2>2, <2>3, <2>n DEF AsyncInv, Unbroken, CutOff, Critical, Ready
  <2>9. ASSUME Guarded, Tidy PROVE Tidy'
    <3>1. CASE ~conn.is_broken
      BY <2>3, <2>9, <3>1 DEF Tidy
    <3>2. CASE conn.is_broken
      <4>1. call = NoCall /\ place = "held"
        BY DEF Ready
      <4>2. ~(Pool # "mobc" /\ CancelWhole)
        BY <3>2, <4>1 DEF AsyncInv, Unbroken, CutOff
      <4>3. ~Critical(op)
        BY <1>2, <2>9, <3>2, <4>2 DEF Guarded
      <4> QED BY <2>3, <2>7, <3>2, <4>3 DEF Tidy
    <3> QED BY <3>1, <3>2
  <2> QED BY <2>4, <2>6, <2>7, <2>8, <2>9 DEF AsyncInv
<1> QED BY <1>1, <1>2

-------------------------------------------------------------------------------
(* The statuses that replies leave.                                         *)

LEMMA DecreasedIs ==
    ASSUME NEW st \in Status, IsOpen(st)
    PROVE  /\ DecreaseDepth(st) \in Status /\ Normal(DecreaseDepth(st))
           /\ DecreaseDepth(st).depth = st.depth - 1 /\ ~DecreaseDepth(st).in_error
           /\ Idle(DecreaseDepth(st)) => st.depth = 1
<1>1. DecreaseDepth(st) \in Status
  BY StatusMoves
<1>2. CASE st.depth = 1
  BY <1>1, <1>2 DEF DecreaseDepth, Normal, NoTransaction
<1>3. CASE st.depth # 1
  BY <1>1, <1>3 DEF DecreaseDepth, Normal, Status, IsOpen, Idle
<1> QED BY <1>1, <1>2, <1>3

LEMMA IncreasedIs ==
    ASSUME NEW st \in Status, ~st.in_error
    PROVE  /\ IncreaseDepth(st) \in Status /\ IsOpen(IncreaseDepth(st))
           /\ SetTestTransactionFlag(IncreaseDepth(st)) \in Status
           /\ IsOpen(SetTestTransactionFlag(IncreaseDepth(st)))
           /\ IncreaseDepth(st).depth = st.depth + 1
           /\ (IncreaseDepth(st).test <=> st.test)
           /\ SetTestTransactionFlag(IncreaseDepth(st)).depth = st.depth + 1
           /\ SetTestTransactionFlag(IncreaseDepth(st)).test
<1>1. /\ IncreaseDepth(st) \in Status /\ IsOpen(IncreaseDepth(st))
      /\ IncreaseDepth(st).depth = st.depth + 1 /\ (IncreaseDepth(st).test <=> st.test)
  BY DEF Status, IncreaseDepth, IsOpen
<1> DEFINE up == IncreaseDepth(st)
<1> HIDE DEF up
<1>2. SetTestTransactionFlag(up) = [up EXCEPT !.test = TRUE] /\ up \in Status /\ IsOpen(up)
  BY <1>1 DEF SetTestTransactionFlag, up
<1>3. /\ SetTestTransactionFlag(up) \in Status /\ IsOpen(SetTestTransactionFlag(up))
      /\ SetTestTransactionFlag(up).depth = up.depth /\ SetTestTransactionFlag(up).test
  BY <1>2 DEF Status, IsOpen
<1> QED BY <1>1, <1>3 DEF up

(* A rollback of an open transaction: one level less, or the error state.   *)
RollsBackTo(st, res, k) ==
    \/ res = "ok" /\ k = Return("ok", DecreaseDepth(st))
    \/ /\ res # "ok" /\ st.depth > 1 /\ k.ret \in {"ok", res}
       /\ k.status = [st EXCEPT !.depth = @ - 1, !.requires_rollback = TRUE]
    \/ res # "ok" /\ st.depth = 1 /\ k = Return(res, InError)

LEMMA RollbackIs ==
    ASSUME NEW before, NEW st \in Status, IsOpen(st), NEW res
    PROVE  RollsBackTo(st, res, AfterRollback(before, st, res))
<1>1. ~st.in_error /\ st.depth \in Nat /\ st.depth > 0 /\ st # NoTransaction
  BY DEF IsOpen, Status, NoTransaction
<1>2. CASE res = "ok"
  BY <1>1, <1>2 DEF AfterRollback, AfterExit, RollsBackTo, IsOpen
<1>3. CASE res # "ok" /\ st.depth > 1
  BY <1>1, <1>3 DEF AfterRollback, RollsBackTo, IsOpen, Return
<1>4. CASE res # "ok" /\ st.depth = 1
  BY <1>1, <1>4 DEF AfterRollback, RollsBackTo, IsOpen
<1> QED BY <1>1, <1>2, <1>3, <1>4

LEMMA RollbackStatus ==
    ASSUME NEW st \in Status, IsOpen(st), NEW res, NEW k, RollsBackTo(st, res, k)
    PROVE  /\ k.status \in Status /\ Normal(k.status)
           /\ Idle(k.status) => st.depth = 1 /\ res = "ok"
           /\ ~k.status.in_error => k.status.depth = st.depth - 1
<1>1. CASE res = "ok" /\ k = Return("ok", DecreaseDepth(st))
  BY <1>1, DecreasedIs DEF Return
<1>2. CASE res # "ok" /\ st.depth > 1 /\ k.status = [st EXCEPT !.depth = @ - 1, !.requires_rollback = TRUE]
  <2>1. st.depth \in Nat /\ st.depth - 1 \in Nat /\ st.depth - 1 > 0 /\ ~st.in_error
    BY <1>2 DEF Status, IsOpen
  <2>2. k.status \in Status /\ k.status.depth = st.depth - 1 /\ ~k.status.in_error
    BY <1>2, <2>1 DEF Status
  <2> QED BY <2>1, <2>2 DEF Normal, Idle, IsOpen
<1>3. CASE res # "ok" /\ k = Return(res, InError)
  <2>1. k.status = InError /\ InError.in_error
    BY <1>3 DEF Return, InError
  <2> QED BY <2>1, StatusConstants DEF Normal, Idle
<1> QED BY <1>1, <1>2, <1>3 DEF RollsBackTo

(* A COMMIT that fails leaves no transaction, except on Turso.               *)
LEMMA FailedCommitReplies ==
    ASSUME Dialect # "Sqlite", NEW s \in Session, NEW stmt \in Stmt, stmt.op = "commit",
           NEW a \in Answers(s, stmt), a.res # "ok"
    PROVE  Quiet(a.session) \/ (Dialect = "Turso" /\ InTransaction(a.session) /\ a.session = s)
<1>1. Closed(s).txn = "idle" /\ Committed(s).txn = "idle"
  BY LostSessions
<1>2. CASE s.txn = "lost" /\ a = Reply("lost", s)
  BY <1>2 DEF Quiet, Reply
<1>3. CASE s.txn # "lost" /\ a \in ServerReplies(s, stmt)
  <2>1. a \in CommitReplies(s)
    BY <1>3 DEF ServerReplies
  <2>2. CASE s.txn = "idle"
    BY <1>3, <2>1, <2>2 DEF CommitReplies, Reply, Quiet
  <2>3. CASE s.txn = "aborted"
    BY <1>3, <2>1, <2>3 DEF CommitReplies, Reply
  <2>4. CASE s.txn \in {"open", "implicit"}
    <3>1. \/ a = Reply("error", s) /\ Dialect = "Turso"
          \/ a.session = Closed(s)
      BY <1>3, <2>1, <2>4, DialectAssumption DEF CommitReplies, Fault, Reply, Embedded
    <3> QED BY <1>1, <2>4, <3>1 DEF Quiet, InTransaction, Reply
  <2> QED BY <1>3, <2>2, <2>3, <2>4 DEF Session, Txn
<1>4. CASE s.txn # "lost" /\ a \in LostReplies(s, stmt)
  BY <1>4, LostAnswers DEF Quiet
<1> QED BY <1>2, <1>3, <1>4 DEF Answers

-------------------------------------------------------------------------------
(* Replies.                                                                 *)

(* A call that ends.                                                        *)
LEMMA EndStep ==
    ASSUME AsyncInv, call # NoCall, call' = NoCall, UNCHANGED place,
           conn' \in AsyncConn, Normal(conn'.status),
           conn'.is_broken <=> conn.is_broken /\ ~Critical(call.op),
           scopes' \in Seq(Scope), fate' \in Seq(Fates), failures' \in Nat
    PROVE  /\ AsyncInv'
           /\ (Idle(conn'.status) /\ ~conn'.is_broken => Quiet(conn'.session)) => Tidy'
<1>1. TypeOK'
  BY AsyncTypes DEF TypeOK
<1>2. place = "held" /\ place' = "held"
  BY DEF AsyncInv, InFlight
<1>3. Normal(conn.status)' /\ InFlight' /\ Marked' /\ ~CutOff'
  BY <1>2 DEF Normal, InFlight, Marked, CutOff
<1>4. Unbroken'
  <2> SUFFICES ASSUME Pool # "mobc", CancelWhole PROVE ~conn'.is_broken
    BY <1>2, <1>3 DEF Unbroken
  <2> QED BY <1>2 DEF AsyncInv, Unbroken, CutOff
<1> QED BY <1>1, <1>3, <1>4 DEF AsyncInv, Tidy

LEMMA FailsTypes ==
    ASSUME AsyncInv, Len(scopes) > 0, NEW ret, Fails(ret)
    PROVE  scopes' \in Seq(Scope) /\ fate' \in Seq(Fates) /\ failures' \in Nat /\ UNCHANGED place
<1>1. scopes # <<>>
  BY AsyncTypes, EmptySeq
<1>2. scopes' \in Seq(Scope)
  BY <1>1, AsyncTypes, ScopesType DEF Fails
<1>3. fate' \in Seq(Fates)
  <2> DEFINE f == IF Len(scopes) = 1 /\ ret = "lost" THEN "unknown" ELSE "dropped"
  <2>1. f \in Fates
    BY DEF Fates
  <2>2. fate' = Settle(fate, TopScope.wrote, f)
    BY DEF Fails
  <2> HIDE DEF f
  <2> QED BY <2>1, <2>2, AsyncTypes, SettleKeepsType
<1> QED BY <1>2, <1>3, AsyncTypes DEF Fails

LEMMA SucceedsTypes ==
    ASSUME AsyncInv, Len(scopes) > 0, Succeeds
    PROVE  scopes' \in Seq(Scope) /\ fate' \in Seq(Fates) /\ failures' \in Nat /\ UNCHANGED place
<1>1. scopes # <<>>
  BY AsyncTypes, EmptySeq
<1>2. scopes' \in Seq(Scope)
  BY <1>1, AsyncTypes, MergeType DEF Succeeds
<1>3. fate' \in Seq(Fates)
  <2> DEFINE f == IF TopScope.failed THEN "swallowed" ELSE "kept"
  <2>1. f \in Fates
    BY DEF Fates
  <2>2. fate' = fate \/ fate' = Settle(fate, TopScope.wrote, f)
    BY DEF Succeeds
  <2> HIDE DEF f
  <2> QED BY <2>1, <2>2, AsyncTypes, SettleKeepsType
<1> QED BY <1>2, <1>3, AsyncTypes DEF Succeeds

LEMMA BeginReplyStep ==
    ASSUME AsyncInv, BeginReply
    PROVE  AsyncInv' /\ (Tidy => Tidy')
<1>1. call # NoCall /\ call.op \in {"begin", "begin_sql", "begin_test"} /\ Beginning(call.op)
  BY DEF BeginReply, Awaits, NoCall, Beginning
<1>2. /\ call \in Calls /\ call.stmt = BeginSql(conn.status) /\ ~conn.status.in_error
      /\ call.stmt \in Stmt
  BY <1>1, FitsStmt DEF AsyncInv, InFlight, Fits, Calls
<1>3. PICK r \in Replied(conn) :
       LET after == AfterBegin(r.conn.status, r.res)
           test  == call.op = "begin_test"
       IN IF after.ret = "ok"
          THEN /\ conn' = [r.conn EXCEPT !.status = IF test THEN SetTestTransactionFlag(after.status)
                                                    ELSE after.status]
               /\ scopes' = Append(scopes, NewScope(test))
               /\ UNCHANGED failures
          ELSE /\ conn' = [r.conn EXCEPT !.status = after.status]
               /\ scopes' = NoteFailure(scopes)
               /\ failures' = failures + 1
  BY DEF BeginReply
<1>4. PICK a \in Answers(conn.session, call.stmt) : IsReply(r, a)
  BY <1>2, AsyncTypes, ReplyIs
<1>5. /\ r.conn \in AsyncConn /\ r.conn.status \in Status /\ ~r.conn.status.in_error
      /\ r.conn.status.depth = conn.status.depth /\ r.conn.session = a.session
      /\ (r.conn.is_broken <=> conn.is_broken /\ ~Critical(call.op))
  BY <1>2, <1>4, AsyncHookIs, AsyncTypes DEF IsReply
<1>6. Normal(r.conn.status)
  BY <1>4, AsyncHookIs, AsyncTypes DEF IsReply, AsyncInv, Normal, IsOpen
<1>7. call' = NoCall /\ UNCHANGED <<place, fate>>
  BY DEF BeginReply, Ended
<1>8. CASE r.res = "ok"
  <2> DEFINE test == call.op = "begin_test"
             st == IF test THEN SetTestTransactionFlag(IncreaseDepth(r.conn.status))
                   ELSE IncreaseDepth(r.conn.status)
  <2>1. AfterBegin(r.conn.status, r.res) = Return("ok", IncreaseDepth(r.conn.status))
    BY <1>5, <1>8 DEF AfterBegin
  <2>2. conn' = [r.conn EXCEPT !.status = st] /\ scopes' = Append(scopes, NewScope(test)) /\ UNCHANGED failures
    BY <1>3, <2>1 DEF Return
  <2>3. st \in Status /\ IsOpen(st)
    BY <1>5, IncreasedIs
  <2>4. scopes' \in Seq(Scope)
    BY <2>2, OpenedIs, AsyncTypes
  <2> HIDE DEF st, test
  <2>5. conn' \in AsyncConn /\ conn'.status = st /\ (conn'.is_broken <=> r.conn.is_broken)
    BY <1>5, <2>2, <2>3 DEF AsyncConn
  <2>6. ~Idle(conn'.status) /\ Normal(conn'.status)
    BY <2>3, <2>5 DEF Idle, IsOpen, Normal
  <2> QED BY <1>1, <1>5, <1>7, <2>2, <2>4, <2>5, <2>6, EndStep, AsyncTypes
<1>9. CASE r.res # "ok"
  <2>1. AfterBegin(r.conn.status, r.res) = Return(r.res, r.conn.status)
    BY <1>9 DEF AfterBegin
  <2>2. /\ conn' = [r.conn EXCEPT !.status = r.conn.status]
        /\ scopes' = NoteFailure(scopes) /\ failures' = failures + 1
    BY <1>3, <1>9, <2>1 DEF Return
  <2>3. scopes' \in Seq(Scope)
    BY <2>2, ScopesType, AsyncTypes
  <2>4. /\ conn' \in AsyncConn /\ conn'.status = r.conn.status /\ conn'.session = a.session
        /\ (conn'.is_broken <=> r.conn.is_broken)
    BY <1>5, <2>2 DEF AsyncConn
  <2>5. ASSUME Tidy, Idle(conn'.status) PROVE Quiet(conn'.session)
    <3>1. conn.status.depth = 0 /\ Idle(conn.status)
      BY <1>2, <1>5, <2>4, <2>5 DEF Idle
    <3>2. call.stmt.op = "begin" /\ CutOff
      BY <1>1, <1>2, <3>1 DEF BeginSql, TransactionSql, CutOff, Critical
    <3>3. conn.session.txn \in {"idle", "lost"}
      BY <2>5, <3>1, <3>2 DEF Tidy, Quiet
    <3>4. a.res # "ok"
      BY <1>4, <1>9 DEF IsReply
    <3> QED BY <1>2, <2>4, <3>2, <3>3, <3>4, QuietReplies, AsyncTypes DEF Quiet
  <2>6. Normal(conn'.status) /\ failures' \in Nat /\ fate' \in Seq(Fates) /\ UNCHANGED place
    BY <1>6, <1>7, <2>2, <2>4, AsyncTypes
  <2>7. conn'.is_broken <=> conn.is_broken /\ ~Critical(call.op)
    BY <1>5, <2>4
  <2>8. /\ AsyncInv'
        /\ (Idle(conn'.status) /\ ~conn'.is_broken => Quiet(conn'.session)) => Tidy'
    BY <1>1, <1>7, <2>3, <2>4, <2>6, <2>7, EndStep
  <2> QED BY <2>5, <2>8
<1> QED BY <1>8, <1>9

LEMMA WriteReplyStep ==
    ASSUME AsyncInv, WriteReply
    PROVE  AsyncInv' /\ (Tidy => Tidy')
<1>1. call # NoCall /\ call.op = "write" /\ ~Critical(call.op) /\ ~CutOff
  BY DEF WriteReply, Awaits, NoCall, Critical, CutOff
<1>2. /\ call \in Calls /\ call.stmt = Write(Len(fate) + 1, "query") /\ Len(fate) < MaxWrites
      /\ call.stmt \in Stmt
  BY <1>1, FitsStmt DEF AsyncInv, InFlight, Fits, Calls
<1>3. call.stmt.op = "write" /\ call.stmt.arg \in Items
  BY <1>2, AsyncTypes, BoundsAssumption DEF Write, Items
<1>4. PICK r \in Replied(conn) :
       /\ conn' = r.conn
       /\ IF r.res = "ok"
          THEN /\ fate' = Append(fate, IF InScope THEN "pending" ELSE "auto")
               /\ scopes' = IF ~InScope THEN scopes ELSE
                            [scopes EXCEPT ![Len(scopes)].wrote = @ \cup {call.stmt.arg}]
               /\ UNCHANGED failures
          ELSE /\ scopes' = NoteFailure(scopes) /\ failures' = failures + 1
               /\ fate' = IF r.res = "lost" THEN Append(fate, "unknown") ELSE fate
  BY DEF WriteReply
<1>5. PICK a \in Answers(conn.session, call.stmt) : IsReply(r, a)
  BY <1>2, AsyncTypes, ReplyIs
<1>6. /\ conn' \in AsyncConn /\ conn'.session = a.session
      /\ (Idle(conn'.status) <=> Idle(conn.status))
      /\ (conn'.is_broken <=> conn.is_broken /\ ~Critical(call.op))
  BY <1>4, <1>5, AsyncHookIs, AsyncTypes DEF IsReply, Idle
<1>7. Normal(conn'.status)
  BY <1>4, <1>5, AsyncHookIs, AsyncTypes DEF IsReply, AsyncInv, Normal, IsOpen
<1>8. call' = NoCall /\ UNCHANGED place
  BY DEF WriteReply, Ended
<1>9. fate' \in Seq(Fates) /\ failures' \in Nat
  <2>1. {"pending", "auto", "unknown"} \subseteq Fates
    BY DEF Fates
  <2>2. fate' = fate \/ \E f \in Fates : fate' = Append(fate, f)
    BY <1>4, <2>1
  <2>3. \A f \in Fates : Append(fate, f) \in Seq(Fates)
    BY AsyncTypes, AppendProperties
  <2>4. fate' \in Seq(Fates)
    BY <2>2, <2>3, AsyncTypes
  <2>5. failures' = failures \/ failures' = failures + 1
    BY <1>4
  <2> QED BY <2>4, <2>5, AsyncTypes
<1>10. scopes' \in Seq(Scope)
  <2>1. CASE scopes' = scopes \/ scopes' = NoteFailure(scopes)
    BY <2>1, AsyncTypes, ScopesType
  <2>2. CASE Len(scopes) > 0 /\ scopes' = [scopes EXCEPT ![Len(scopes)].wrote = @ \cup {call.stmt.arg}]
    BY <1>3, <2>2, AsyncTypes, WroteTopIs DEF WroteTop
  <2> QED BY <1>4, <2>1, <2>2 DEF InScope
<1>11. ASSUME Tidy, Idle(conn'.status), ~conn'.is_broken PROVE Quiet(conn'.session)
  <2>1. Idle(conn.status) /\ ~conn.is_broken
    BY <1>1, <1>6, <1>11
  <2>2. conn.session.txn \in {"idle", "lost"}
    BY <1>11, <2>1 DEF Tidy, Quiet
  <2> QED BY <1>2, <1>3, <1>6, <2>2, QuietReplies, AsyncTypes DEF Quiet
<1>12. /\ AsyncInv'
       /\ (Idle(conn'.status) /\ ~conn'.is_broken => Quiet(conn'.session)) => Tidy'
  BY <1>1, <1>6, <1>7, <1>8, <1>9, <1>10, EndStep
<1> QED BY <1>11, <1>12

(* A closing statement that the server agreed to at the top level leaves no
   transaction.                                                             *)
LEMMA ClosedIsQuiet ==
    ASSUME AsyncInv, call # NoCall, Closing(call.op), NEW a \in Answers(conn.session, call.stmt),
           a.res = "ok", conn.status.depth = 1
    PROVE  Quiet(a.session)
<1>1. call.stmt.op \in {"commit", "rollback"}
  BY DEF Closing, AsyncInv, InFlight, Fits, CommitSql, RollbackSql, TransactionSql
<1>2. call.stmt \in Stmt /\ conn.session \in Session
  BY AsyncTypes DEF AsyncInv, InFlight, Calls
<1> QED BY <1>1, <1>2, ClosingReplies DEF Quiet

(* What a closing call finds.                                               *)
LEMMA ClosingCall ==
    ASSUME AsyncInv, call # NoCall, Closing(call.op), NEW r \in Replied(conn)
    PROVE  /\ call \in Calls /\ call.stmt \in Stmt /\ Len(scopes) > 0 /\ ~TopScope.test
           /\ place = "held" /\ CutOff /\ IsOpen(conn.status) /\ call.before = conn.status
           /\ r.conn \in AsyncConn /\ r.conn.status \in Status /\ IsOpen(r.conn.status)
           /\ r.conn.status.depth = conn.status.depth
           /\ ~r.conn.is_broken
           /\ \E a \in Answers(conn.session, call.stmt) : IsReply(r, a)
<1>1. /\ call \in Calls /\ Len(scopes) > 0 /\ ~TopScope.test /\ place = "held"
      /\ IsOpen(conn.status) /\ call.before = conn.status
  BY DEF AsyncInv, InFlight, Fits
<1>2. CutOff /\ Critical(call.op) /\ call.stmt \in Stmt
  BY <1>1 DEF CutOff, Critical, Closing, Calls
<1>3. PICK a \in Answers(conn.session, call.stmt) : IsReply(r, a)
  BY <1>1, AsyncTypes, ReplyIs
<1>4. /\ r.conn \in AsyncConn /\ r.conn.status \in Status /\ IsOpen(r.conn.status)
      /\ r.conn.status.depth = conn.status.depth
  BY <1>1, <1>3, AsyncHookIs, AsyncTypes DEF IsReply, IsOpen
<1>5. ~r.conn.is_broken
  BY <1>2, <1>3 DEF IsReply
<1> QED BY <1>1, <1>2, <1>3, <1>4, <1>5

(* A closing call that ends with the status st.                             *)
LEMMA ClosedStep ==
    ASSUME AsyncInv, call # NoCall, Closing(call.op), NEW r \in Replied(conn),
           NEW st \in Status, Normal(st), conn' = [r.conn EXCEPT !.status = st],
           call' = NoCall, UNCHANGED place,
           scopes' \in Seq(Scope), fate' \in Seq(Fates), failures' \in Nat,
           Idle(st) => Quiet(r.conn.session)
    PROVE  AsyncInv' /\ Tidy'
<1>1. r.conn \in AsyncConn /\ ~r.conn.is_broken /\ Critical(call.op)
  BY ClosingCall DEF CutOff
<1>2. /\ conn' \in AsyncConn /\ conn'.status = st /\ conn'.session = r.conn.session
      /\ ~conn'.is_broken
  BY <1>1 DEF AsyncConn
<1> QED BY <1>1, <1>2, EndStep

LEMMA RollbackReplyStep ==
    ASSUME AsyncInv, RollbackReply
    PROVE  AsyncInv' /\ Tidy'
<1>1. call # NoCall /\ Closing(call.op)
  BY DEF RollbackReply, Awaits, NoCall, Closing
<1>2. PICK r \in Replied(conn) :
         LET after == AfterRollback(call.before, r.conn.status, r.res)
         IN conn' = [r.conn EXCEPT !.status = after.status] /\ Fails(after.ret)
  BY DEF RollbackReply
<1> DEFINE after == AfterRollback(call.before, r.conn.status, r.res)
<1>3. PICK a \in Answers(conn.session, call.stmt) : IsReply(r, a)
  BY <1>1, ClosingCall
<1>4. conn' = [r.conn EXCEPT !.status = after.status] /\ Fails(after.ret) /\ call' = NoCall
  BY <1>2 DEF RollbackReply
<1>5. RollsBackTo(r.conn.status, r.res, after)
  BY <1>1, ClosingCall, RollbackIs
<1> HIDE DEF after
<1>6. /\ after.status \in Status /\ Normal(after.status)
      /\ Idle(after.status) => conn.status.depth = 1 /\ a.res = "ok"
  BY <1>1, <1>3, <1>5, ClosingCall, RollbackStatus DEF IsReply
<1>7. Idle(after.status) => Quiet(r.conn.session)
  BY <1>1, <1>3, <1>6, ClosedIsQuiet DEF IsReply
<1>8. scopes' \in Seq(Scope) /\ fate' \in Seq(Fates) /\ failures' \in Nat /\ UNCHANGED place
  BY <1>1, <1>4, ClosingCall, FailsTypes
<1> QED BY <1>1, <1>4, <1>6, <1>7, <1>8, ClosedStep

LEMMA RepairReplyStep ==
    ASSUME AsyncInv, RepairReply
    PROVE  AsyncInv' /\ Tidy'
<1>1. call # NoCall /\ Closing(call.op)
  BY DEF RepairReply, Awaits, NoCall, Closing
<1>2. PICK r \in Replied(conn) :
         LET after == AfterRollback(call.before, r.conn.status, r.res)
         IN IF after.ret = "ok"
            THEN conn' = [r.conn EXCEPT !.status = after.status] /\ Fails(call.error)
            ELSE conn' = [r.conn EXCEPT !.status = InError] /\ Fails(r.res)
  BY DEF RepairReply
<1> DEFINE after == AfterRollback(call.before, r.conn.status, r.res)
<1>3. PICK a \in Answers(conn.session, call.stmt) : IsReply(r, a)
  BY <1>1, ClosingCall
<1>4. PICK st \in {after.status, InError}, ret \in {call.error, r.res} :
        conn' = [r.conn EXCEPT !.status = st] /\ Fails(ret)
  BY <1>2
<1>5. RollsBackTo(r.conn.status, r.res, after)
  BY <1>1, ClosingCall, RollbackIs
<1> HIDE DEF after
<1>6. /\ after.status \in Status /\ Normal(after.status)
      /\ Idle(after.status) => conn.status.depth = 1 /\ a.res = "ok"
  BY <1>1, <1>3, <1>5, ClosingCall, RollbackStatus DEF IsReply
<1>7. st \in Status /\ Normal(st) /\ (Idle(st) => Quiet(r.conn.session))
  <2>1. CASE st = after.status
    BY <1>1, <1>3, <1>6, <2>1, ClosedIsQuiet DEF IsReply
  <2>2. CASE st = InError
    BY <2>2, StatusConstants DEF Normal, Idle, InError
  <2> QED BY <2>1, <2>2
<1>8. scopes' \in Seq(Scope) /\ fate' \in Seq(Fates) /\ failures' \in Nat /\ UNCHANGED place
  BY <1>1, <1>4, ClosingCall, FailsTypes
<1>9. call' = NoCall
  BY DEF RepairReply
<1> QED BY <1>1, <1>4, <1>7, <1>8, <1>9, ClosedStep

LEMMA CommitReplyStep ==
    ASSUME AsyncInv, CommitReply
    PROVE  AsyncInv' /\ Tidy'
<1>1. call # NoCall /\ Closing(call.op) /\ call.op = "commit"
  BY DEF CommitReply, Awaits, NoCall, Closing
<1>2. PICK r \in Replied(conn) :
       LET st    == r.conn.status
           after == AfterExit(call.before, st)
       IN CASE r.res = "ok" ->
                 /\ conn' = [r.conn EXCEPT !.status = after.status]
                 /\ call' = NoCall
                 /\ IF after.ret = "ok" THEN Succeeds ELSE Fails(after.ret)
            [] r.res # "ok" /\ IsOpen(st) /\ st.requires_rollback ->
                 /\ conn' = EnterBlock(r.conn, "repair")
                 /\ call' = [op |-> "repair", stmt |-> RollbackSql(st), before |-> st, error |-> r.res]
                 /\ UNCHANGED <<scopes, fate, failures, place>>
            [] OTHER ->
                 /\ conn' = [r.conn EXCEPT !.status = GivenUp(st)]
                 /\ call' = NoCall
                 /\ Fails(r.res)
  BY DEF CommitReply
<1>3. PICK a \in Answers(conn.session, call.stmt) : IsReply(r, a)
  BY <1>1, ClosingCall
<1> DEFINE st == r.conn.status
<1>4. /\ r.conn \in AsyncConn /\ st \in Status /\ IsOpen(st) /\ st.depth = conn.status.depth
      /\ Len(scopes) > 0 /\ ~TopScope.test /\ place = "held" /\ call.stmt \in Stmt
      /\ call.stmt = CommitSql(conn.status) /\ IsOpen(conn.status)
  BY <1>1, ClosingCall DEF AsyncInv, InFlight, Fits
<1>d. DecreaseDepth(st) \in Status /\ Normal(DecreaseDepth(st)) /\ (Idle(DecreaseDepth(st)) => st.depth = 1)
  BY <1>4, DecreasedIs
<1>5. CASE r.res = "ok"
  <2>1. AfterExit(call.before, st) = Return("ok", DecreaseDepth(st))
    BY <1>4 DEF AfterExit, IsOpen
  <2>2. conn' = [r.conn EXCEPT !.status = DecreaseDepth(st)] /\ call' = NoCall /\ Succeeds
    BY <1>2, <1>5, <2>1 DEF Return
  <2>3. scopes' \in Seq(Scope) /\ fate' \in Seq(Fates) /\ failures' \in Nat /\ UNCHANGED place
    BY <1>4, <2>2, SucceedsTypes
  <2>4. Idle(DecreaseDepth(st)) => Quiet(r.conn.session)
    BY <1>1, <1>3, <1>4, <1>5, <1>d, ClosedIsQuiet DEF IsReply
  <2> QED BY <1>1, <1>d, <2>2, <2>3, <2>4, ClosedStep
<1>6. CASE r.res # "ok" /\ st.requires_rollback
  <2> DEFINE c == [op |-> "repair", stmt |-> RollbackSql(st), before |-> st, error |-> r.res]
  <2>1. conn' = EnterBlock(r.conn, "repair") /\ call' = c /\ UNCHANGED <<scopes, fate, failures, place>>
    BY <1>2, <1>4, <1>6
  <2>2. /\ conn' \in AsyncConn /\ conn'.status = st /\ conn'.is_broken
    BY <1>4, <2>1, BlockIs DEF CallOps, Critical
  <2>3. /\ c \in Calls /\ c.op = "repair" /\ c.stmt = RollbackSql(st) /\ c.before = st
    BY <1>3, <1>4, SqlType DEF Calls, CallOps, IsReply
  <2> HIDE DEF c, st
  <2>4. TypeOK'
    BY <2>1, <2>2, <2>3, AsyncTypes DEF TypeOK
  <2>5. call' # NoCall /\ CutOff'
    BY <2>1, <2>3 DEF NoCall, CutOff, Critical
  <2>6. Fits("repair", RollbackSql(st))'
    BY <1>4, <2>1, <2>2 DEF Fits, Beginning, TopScope
  <2>7. InFlight'
    BY <1>4, <2>1, <2>2, <2>3, <2>6 DEF InFlight, Fits, TopScope
  <2>8. Normal(conn.status)' /\ Marked' /\ Unbroken' /\ Tidy'
    BY <1>4, <2>1, <2>2, <2>5 DEF Normal, Marked, Unbroken, Tidy, Idle, IsOpen
  <2> QED BY <2>4, <2>7, <2>8 DEF AsyncInv
<1>7. CASE r.res # "ok" /\ ~st.requires_rollback
  <2>1. conn' = [r.conn EXCEPT !.status = DecreaseDepth(st)] /\ call' = NoCall /\ Fails(r.res)
    BY <1>2, <1>4, <1>7 DEF GivenUp
  <2>2. scopes' \in Seq(Scope) /\ fate' \in Seq(Fates) /\ failures' \in Nat /\ UNCHANGED place
    BY <1>4, <2>1, FailsTypes
  <2>3. ASSUME Idle(DecreaseDepth(st)) PROVE Quiet(r.conn.session)
    <3>1. call.stmt.op = "commit" /\ call.stmt.via = "batch"
      BY <1>4, <1>d, <2>3 DEF CommitSql, TransactionSql
    <3>2. ~(Dialect = "Turso" /\ InTransaction(a.session))
      <4>1. SUFFICES ASSUME Dialect = "Turso", InTransaction(a.session) PROVE FALSE
        OBVIOUS
      <4>2. AsyncHook(conn, call.stmt.via, a.res, a.session.txn) = SetRequiresRollback(conn.status, TRUE)
        BY <1>3, <1>7, <3>1, <4>1 DEF AsyncHook, InTransaction, IsReply
      <4>3. st.requires_rollback
        BY <1>3, <1>4, <4>2, AsyncTypes DEF IsReply, SetRequiresRollback, Status
      <4> QED BY <1>7, <4>3
    <3>3. Dialect # "Sqlite" /\ a.res # "ok" /\ conn.session \in Session
      BY <1>3, <1>7, AsyncAssumption, AsyncTypes DEF IsReply
    <3> QED BY <1>3, <1>4, <3>1, <3>2, <3>3, FailedCommitReplies DEF IsReply
  <2> QED BY <1>1, <1>d, <2>1, <2>2, <2>3, ClosedStep
<1> QED BY <1>5, <1>6, <1>7

-------------------------------------------------------------------------------
(* Calls that start.                                                        *)

LEMMA BeginStep ==
    ASSUME AsyncInv, NEW op \in {"begin", "begin_sql", "begin_test"}, Begin(op)
    PROVE  AsyncInv' /\ (Guarded /\ Tidy => Tidy')
<1>1. Ready
  BY DEF Begin
<1>2. CASE Refuse
  BY <1>1, <1>2, RefuseStep
<1>3. CASE ~conn.status.in_error /\ Send(op, BeginSql(conn.status))
  <2>1. op = "begin_test" => scopes = <<>>
    BY DEF Begin
  <2>2. op \in CallOps /\ Fits(op, BeginSql(conn.status))
    BY <1>3, <2>1 DEF CallOps, Fits, Beginning, Closing
  <2> QED BY <1>1, <1>3, <2>2, SendStep
<1> QED BY <1>2, <1>3 DEF Begin

LEMMA StatementStep ==
    ASSUME AsyncInv, Statement
    PROVE  AsyncInv' /\ (Guarded /\ Tidy => Tidy')
<1>1. /\ Ready /\ Len(fate) < MaxWrites
      /\ Send("write", Write(Len(fate) + 1, "query"))
  BY DEF Statement
<1>2. "write" \in CallOps /\ Fits("write", Write(Len(fate) + 1, "query"))
  BY <1>1 DEF CallOps, Fits, Beginning, Closing
<1> QED BY <1>1, <1>2, SendStep

LEMMA CloseStep ==
    ASSUME AsyncInv, CloseOk \/ CloseErr
    PROVE  AsyncInv' /\ (Guarded /\ Tidy => Tidy')
<1>1. Ready /\ Len(scopes) > 0 /\ ~TopScope.test /\ call = NoCall
  BY DEF CloseOk, CloseErr, Close, Closable, InScope, Ready
<1>2. CASE IsOpen(conn.status) /\ Send("commit", CommitSql(conn.status))
  <2>1. "commit" \in CallOps /\ Fits("commit", CommitSql(conn.status))
    BY <1>1, <1>2 DEF CallOps, Fits, Beginning, Closing
  <2> QED BY <1>1, <1>2, <2>1, SendStep
<1>3. CASE IsOpen(conn.status) /\ Send("rollback", RollbackSql(conn.status))
  <2>1. "rollback" \in CallOps /\ Fits("rollback", RollbackSql(conn.status))
    BY <1>1, <1>3 DEF CallOps, Fits, Beginning, Closing
  <2> QED BY <1>1, <1>3, <2>1, SendStep
<1>4. CASE Fails("not_in_transaction") /\ UNCHANGED <<conn, call>>
  <2>1. scopes' \in Seq(Scope) /\ fate' \in Seq(Fates) /\ failures' \in Nat /\ UNCHANGED place
    BY <1>1, <1>4, FailsTypes
  <2>2. TypeOK'
    BY <1>4, <2>1, AsyncTypes DEF TypeOK
  <2>3. Normal(conn.status)' /\ InFlight' /\ Marked' /\ Unbroken' /\ (Tidy => Tidy')
    BY <1>1, <1>4, <2>1 DEF AsyncInv, Normal, InFlight, Marked, Unbroken, CutOff, IsBroken, Tidy
  <2> QED BY <2>2, <2>3 DEF AsyncInv
<1> QED BY <1>2, <1>3, <1>4 DEF CloseOk, CloseErr, Close

-------------------------------------------------------------------------------
(* Futures that are dropped, and the pool.                                  *)

LEMMA CancelStep ==
    ASSUME AsyncInv, NEW k \in 0..Closures, Cancel(k)
    PROVE  AsyncInv' /\ (Tidy => Tidy')
<1>1. /\ scopes' = Without(k) /\ call' = NoCall /\ failures' = failures + 1
      /\ place = "held" /\ place' = (IF CancelWhole THEN "dropped" ELSE place)
  BY DEF Cancel
<1>2. PICK s \in {conn.session} \cup (IF call = NoCall THEN {} ELSE
                    {a.session : a \in Answers(conn.session, call.stmt)}) :
         conn' = [conn EXCEPT !.session = s]
  BY DEF Cancel
<1>3. s = conn.session \/ (call # NoCall /\ \E a \in Answers(conn.session, call.stmt) : s = a.session)
  BY <1>2
<1>4. call # NoCall => call \in Calls /\ call.stmt \in Stmt /\ call.op \in CallOps
  BY DEF AsyncInv, InFlight, Calls
<1>5. s \in Session
  BY <1>3, <1>4, AnswersType, AsyncTypes DEF Replies
<1>6. /\ conn' \in AsyncConn /\ conn'.status = conn.status /\ conn'.session = s
      /\ conn'.is_broken = conn.is_broken
  BY <1>2, <1>5, AsyncTypes DEF AsyncConn
<1>7. scopes' \in Seq(Scope)
  <2>1. k \in 0..Len(scopes)
    BY ClosuresCount, AsyncTypes
  <2> QED BY <1>1, <2>1, WithoutLast, AsyncTypes
<1>8. fate' \in Seq(Fates)
  <2> DEFINE f == IF CommitSent /\ Len(scopes) = 1 THEN "unknown" ELSE "cancelled"
             ends == Settle(fate, WroteByLast(k), f)
  <2>1. f \in Fates /\ "unknown" \in Fates
    BY DEF Fates
  <2>2. fate' = IF call.op = "write" THEN Append(ends, "unknown") ELSE ends
    BY DEF Cancel
  <2> HIDE DEF f
  <2>3. ends \in Seq(Fates)
    BY <2>1, AsyncTypes, SettleKeepsType
  <2> HIDE DEF ends
  <2>4. Append(ends, "unknown") \in Seq(Fates)
    BY <2>1, <2>3, AppendProperties
  <2> QED BY <2>2, <2>3, <2>4
<1>9. TypeOK'
  BY <1>1, <1>6, <1>7, <1>8, AsyncTypes DEF TypeOK
<1>10. Normal(conn.status)' /\ InFlight' /\ Marked' /\ Unbroken'
  BY <1>1, <1>6 DEF AsyncInv, Normal, InFlight, Marked, Unbroken, CutOff
<1>11. ASSUME Tidy PROVE Tidy'
  <2>1. CASE CutOff
    BY <1>1, <1>6, <2>1 DEF AsyncInv, Marked, Tidy, CutOff
  <2>2. CASE ~CutOff
    <3> SUFFICES ASSUME Idle(conn.status), ~conn.is_broken PROVE Quiet(s)
      BY <1>1, <1>6 DEF Tidy, CutOff
    <3>1. conn.session.txn \in {"idle", "lost"}
      BY <1>11 DEF Tidy, Quiet
    <3>2. CASE s = conn.session
      BY <3>1, <3>2 DEF Quiet
    <3>3. CASE call # NoCall /\ \E a \in Answers(conn.session, call.stmt) : s = a.session
      <4>1. call.op = "write" /\ call.stmt.op = "write"
        BY <2>2, <3>3 DEF CutOff, Critical, AsyncInv, InFlight, Fits, Write
      <4> QED BY <1>4, <3>1, <3>3, <4>1, QuietReplies, AsyncTypes DEF Quiet
    <3> QED BY <1>3, <3>2, <3>3
  <2> QED BY <2>1, <2>2
<1> QED BY <1>9, <1>10, <1>11 DEF AsyncInv

(* The connection that a pool opens in the place of another.                *)
LEMMA ReplacedConn ==
    ASSUME AsyncInv, Replace
    PROVE  /\ conn' \in AsyncConn /\ conn'.status = NoTransaction
           /\ conn'.session.txn = "idle" /\ ~conn'.is_broken /\ ~IsBroken(conn')
           /\ scopes' \in Seq(Scope) /\ fate' \in Seq(Fates)
<1>1. /\ conn' = [NewConn EXCEPT !.session.durable = conn.session.durable]
      /\ scopes' = <<>> /\ fate' = Settle(fate, WroteByLast(Len(scopes)), "cancelled")
  BY DEF Replace
<1>2. conn.session.durable \in SUBSET Nat /\ NoTransaction \in Status /\ FreshSession \in Session
  BY AsyncTypes, StatusConstants, EmptySeq DEF Session, FreshSession, Txn
<1>3. NewConn \in AsyncConn
  BY <1>2 DEF NewConn, AsyncConn
<1>4. /\ conn' \in AsyncConn /\ conn'.status = NoTransaction
      /\ conn'.session.txn = "idle" /\ ~conn'.is_broken
  BY <1>1, <1>2, <1>3 DEF NewConn, AsyncConn, Session, FreshSession
<1>5. ~IsBroken(conn')
  BY <1>4 DEF IsBroken, IsBrokenTransactionManager, NoTransaction
<1>6. "cancelled" \in Fates
  BY DEF Fates
<1>7. scopes' \in Seq(Scope) /\ fate' \in Seq(Fates)
  BY <1>1, <1>6, AsyncTypes, EmptySeq, SettleKeepsType
<1> QED BY <1>4, <1>5, <1>7

LEMMA PoolStep ==
    ASSUME AsyncInv, GiveBack \/ Get
    PROVE  AsyncInv' /\ (Tidy => Tidy')
<1>1. call = NoCall /\ call' = NoCall /\ UNCHANGED failures
  BY DEF GiveBack, Get, Ready, AsyncInv, InFlight
<1>2. place' \in {"pool", "held"} /\ (Replace \/ Stays)
  BY DEF GiveBack, Get
<1>3. /\ conn' \in AsyncConn /\ scopes' \in Seq(Scope) /\ fate' \in Seq(Fates)
      /\ Normal(conn'.status) /\ (Tidy => Tidy')
  <2>1. CASE Replace
    BY <2>1, ReplacedConn DEF Normal, Tidy, Quiet
  <2>2. CASE Stays
    BY <1>1, <2>2, AsyncTypes DEF Stays, AsyncInv, Normal, Tidy, CutOff
  <2> QED BY <1>2, <2>1, <2>2
<1>4. TypeOK'
  BY <1>1, <1>2, <1>3, AsyncTypes DEF TypeOK
<1>5. InFlight' /\ Marked'
  BY <1>1 DEF InFlight, Marked, CutOff
<1>6. CASE GiveBack
  <2>1. place' = "pool" /\ (Pool = "bb8" => ~IsBroken(conn)')
    BY <1>6, ReplacedConn DEF GiveBack, Stays, IsBroken
  <2> QED BY <1>3, <1>4, <1>5, <2>1 DEF AsyncInv, Unbroken
<1>7. CASE Get
  <2>1. place = "pool" /\ place' = "held"
    BY <1>7 DEF Get
  <2>2. Pool # "mobc" => ~conn'.is_broken
    <3>1. CASE Replace
      BY <3>1, ReplacedConn
    <3>2. CASE Stays /\ ~(Pool = "deadpool" /\ IsBroken(conn))
      BY <2>1, <3>2, AsyncAssumption DEF Stays, AsyncInv, Unbroken, IsBroken
    <3> QED BY <1>7, <3>1, <3>2 DEF Get
  <2> QED BY <1>3, <1>4, <1>5, <2>1, <2>2 DEF AsyncInv, Unbroken
<1> QED BY <1>6, <1>7

-------------------------------------------------------------------------------
LEMMA NextAsyncInv ==
    ASSUME AsyncInv, [Next]_vars
    PROVE  AsyncInv' /\ (Guarded /\ Tidy => Tidy')
<1>1. CASE UNCHANGED vars
  BY <1>1 DEF vars, AsyncInv, TypeOK, Normal, InFlight, Fits, TopScope, Marked, Unbroken, CutOff,
              IsBroken, Tidy
<1>2. CASE \E op \in {"begin", "begin_sql", "begin_test"} : Begin(op)
  BY <1>2, BeginStep
<1>3. CASE Statement \/ CloseOk \/ CloseErr
  BY <1>3, StatementStep, CloseStep
<1>4. CASE BeginReply \/ WriteReply
  BY <1>4, BeginReplyStep, WriteReplyStep
<1>5. CASE CommitReply \/ RollbackReply \/ RepairReply
  BY <1>5, CommitReplyStep, RollbackReplyStep, RepairReplyStep
<1>6. CASE \E k \in 0..Closures : Cancel(k)
  BY <1>6, CancelStep
<1>7. CASE GiveBack \/ Get
  BY <1>7, PoolStep
<1> QED BY <1>1, <1>2, <1>3, <1>4, <1>5, <1>6, <1>7 DEF Next

(* The depth never falls below zero and the connection, the call and the
   closures keep their shape, whichever futures are dropped and whichever
   pool the connection comes from.                                          *)
THEOREM TypeCorrect == Spec => []TypeOK
<1>1. Init => AsyncInv
  BY InitAsyncInv
<1>2. AsyncInv /\ [Next]_vars => AsyncInv'
  BY NextAsyncInv
<1>3. AsyncInv => TypeOK
  BY DEF AsyncInv
<1> QED BY <1>1, <1>2, <1>3, PTL DEF Spec

(* With debug_assert!, or with whole tasks that are dropped and a pool that
   asks for the flag, a manager that believes that no transaction is open is
   right, unless a transaction statement was cut off.                       *)
THEOREM CleanWhenIdleHolds ==
    ASSUME Guarded
    PROVE  Spec => []CleanWhenIdle
<1>1. Init => AsyncInv /\ Tidy
  BY InitAsyncInv
<1>2. AsyncInv /\ Tidy /\ [Next]_vars => (AsyncInv /\ Tidy)'
  BY NextAsyncInv
<1>3. AsyncInv /\ Tidy => CleanWhenIdle
  BY DEF CleanWhenIdle, Tidy, Idle, Quiet
<1> QED BY <1>1, <1>2, <1>3, PTL DEF Spec

(* What the pool hands out.                                                 *)
LEMMA HandsOut ==
    ASSUME Pool # "mobc", AsyncInv, Tidy, [Next]_vars
    PROVE  [HandsOutClean]_vars
<1> SUFFICES ASSUME Next, place = "pool", place' = "held", ~conn'.status.test
             PROVE  conn'.status = NoTransaction /\ conn'.session.txn \in {"idle", "lost"}
  BY DEF HandsOutClean
<1>1. Get
  <2>1. call = NoCall
    BY DEF AsyncInv, InFlight
  <2> QED BY <2>1 DEF Next, Begin, Statement, CloseOk, CloseErr, Close, Closable, Ready, BeginReply,
                      WriteReply, CommitReply, RollbackReply, RepairReply, Awaits, Cancel, GiveBack
<1>2. CASE Replace
  BY <1>2, ReplacedConn
<1>3. CASE Stays /\ ~(Pool = "deadpool" /\ IsBroken(conn))
  <2>1. ~IsBroken(conn) /\ conn' = conn
    BY <1>3, AsyncAssumption DEF AsyncInv, Unbroken, Stays
  <2>2. Idle(conn.status) /\ ~conn.is_broken /\ conn.status \in Status
    BY <2>1, AsyncTypes DEF IsBroken, IsBrokenTransactionManager, Idle, Status
  <2>3. conn.status = NoTransaction
    <3>1. Normal(conn.status) /\ ~IsOpen(conn.status) /\ ~conn.status.in_error
      BY <2>2 DEF AsyncInv, Idle, IsOpen
    <3>2. InError.in_error
      BY DEF InError, NoTransaction
    <3> QED BY <3>1, <3>2 DEF Normal
  <2>4. Quiet(conn.session)
    BY <2>2 DEF Tidy
  <2> QED BY <2>1, <2>3, <2>4 DEF Quiet
<1> QED BY <1>1, <1>2, <1>3 DEF Get

(* bb8 and deadpool: who takes a connection from the pool gets one on which
   neither the manager nor the database has a transaction, unless it is a
   test transaction.                                                        *)
THEOREM HandedOutCleanHolds ==
    ASSUME Guarded, Pool # "mobc"
    PROVE  Spec => HandedOutClean
<1>1. Init => AsyncInv /\ Tidy
  BY InitAsyncInv
<1>2. AsyncInv /\ Tidy /\ [Next]_vars => (AsyncInv /\ Tidy)'
  BY NextAsyncInv
<1>3. AsyncInv /\ Tidy /\ [Next]_vars => [HandsOutClean]_vars
  BY HandsOut
<1> QED BY <1>1, <1>2, <1>3, PTL DEF Spec, HandedOutClean

-------------------------------------------------------------------------------
(* The is_commit of a commit that was dropped.                              *)

(* On a connection that nobody holds it is up only where is_broken is too,
   and a pool that asks for is_broken hands out no such connection.         *)
StaleInv == NoStaleCommit /\ (conn.is_commit /\ place # "held" => conn.is_broken)

(* A reply takes the flag of its own call down.                             *)
LEMMA ReplyTakesDown ==
    ASSUME AsyncInv, StaleInv, place = "held", call # NoCall, NEW r \in Replied(conn)
    PROVE  r.conn \in AsyncConn /\ ~r.conn.is_commit
<1>1. conn \in AsyncConn /\ call \in Calls
  BY AsyncTypes DEF AsyncInv, InFlight
<1>2. r.conn \in AsyncConn
  BY <1>1, ReplyIs DEF IsReply
<1>3. PICK a \in Answers(conn.session, call.stmt) :
         r = [res  |-> a.res,
              conn |-> LeaveBlock([conn EXCEPT !.status = AsyncHook(conn, call.stmt.via, a.res, a.session.txn),
                                               !.session = a.session], call.op)]
  BY DEF Replied
<1>4. r.conn.is_commit <=> conn.is_commit /\ call.op # "commit"
  BY <1>1, <1>3 DEF LeaveBlock, AsyncConn
<1> QED BY <1>2, <1>4 DEF StaleInv, NoStaleCommit

LEMMA ReplyStale ==
    ASSUME AsyncInv, StaleInv,
           BeginReply \/ WriteReply \/ CommitReply \/ RollbackReply \/ RepairReply
    PROVE  StaleInv'
<1>1. place = "held" /\ call # NoCall
  BY DEF BeginReply, WriteReply, CommitReply, RollbackReply, RepairReply, Awaits, NoCall
<1> SUFFICES ~conn'.is_commit
  BY DEF StaleInv, NoStaleCommit
<1>2. \A r \in Replied(conn) : r.conn \in AsyncConn /\ ~r.conn.is_commit
  BY <1>1, ReplyTakesDown
<1>3. \A st : \A r \in Replied(conn) : ~[r.conn EXCEPT !.status = st].is_commit
  BY <1>2 DEF AsyncConn
<1>4. \A r \in Replied(conn) : ~EnterBlock(r.conn, "repair").is_commit
  BY <1>2 DEF AsyncConn, EnterBlock
<1>5. CASE BeginReply
  BY <1>3, <1>5 DEF BeginReply
<1>6. CASE WriteReply
  BY <1>2, <1>6 DEF WriteReply
<1>7. CASE CommitReply
  BY <1>3, <1>4, <1>7 DEF CommitReply
<1>8. CASE RollbackReply
  BY <1>3, <1>8 DEF RollbackReply
<1>9. CASE RepairReply
  BY <1>3, <1>9 DEF RepairReply
<1> QED BY <1>5, <1>6, <1>7, <1>8, <1>9

LEMMA SendStale ==
    ASSUME AsyncInv, StaleInv, Ready, NEW op \in CallOps, NEW stmt, Send(op, stmt)
    PROVE  StaleInv'
<1>1. conn \in AsyncConn /\ ~conn.is_commit /\ place = "held"
  BY AsyncTypes DEF StaleInv, NoStaleCommit, Ready, NoCall
<1>2. /\ EnterBlock(conn, op).is_commit <=> op = "commit"
      /\ EnterBlock(conn, op).is_broken <=> conn.is_broken \/ Critical(op)
  BY <1>1 DEF EnterBlock, AsyncConn
<1>3. CASE DebugAssertions /\ Critical(op) /\ conn.is_broken
  BY <1>2, <1>3 DEF Send, Panic, StaleInv, NoStaleCommit
<1>4. CASE ~(DebugAssertions /\ Critical(op) /\ conn.is_broken)
  BY <1>1, <1>2, <1>4 DEF Send, StaleInv, NoStaleCommit
<1> QED BY <1>3, <1>4

LEMMA InitStaleInv == Init => StaleInv
BY DEF Init, NewConn, StaleInv, NoStaleCommit

LEMMA NextStaleInv ==
    ASSUME Pool # "mobc", CancelWhole, AsyncInv, StaleInv, [Next]_vars
    PROVE  StaleInv'
<1>1. CASE UNCHANGED vars
  BY <1>1 DEF vars, StaleInv, NoStaleCommit
<1>2. ASSUME UNCHANGED <<conn, call, place>> PROVE StaleInv'
  BY <1>2 DEF StaleInv, NoStaleCommit
<1>3. CASE \E op \in {"begin", "begin_sql", "begin_test"} : Begin(op)
  <2>1. PICK op \in {"begin", "begin_sql", "begin_test"} : Begin(op)
    BY <1>3
  <2>2. op \in CallOps
    BY DEF CallOps
  <2> QED BY <1>2, <2>1, <2>2, SendStale DEF Begin, Refuse
<1>4. CASE Statement
  BY <1>4, SendStale DEF Statement, CallOps
<1>5. ASSUME NEW op \in CallOps, NEW stmt, Close(op, stmt) PROVE StaleInv'
  BY <1>2, <1>5, SendStale DEF Close, Closable, Fails
<1>6. CASE CloseOk \/ CloseErr
  BY <1>5, <1>6 DEF CloseOk, CloseErr, CallOps
<1>7. CASE BeginReply \/ WriteReply \/ CommitReply \/ RollbackReply \/ RepairReply
  BY <1>7, ReplyStale
<1>8. CASE \E k \in 0..Closures : Cancel(k)
  <2>1. PICK k \in 0..Closures : Cancel(k)
    BY <1>8
  <2>2. PICK s : conn' = [conn EXCEPT !.session = s]
    BY <2>1 DEF Cancel
  <2>3. place = "held" /\ place' = "dropped"
    BY <2>1 DEF Cancel
  <2>4. conn'.is_commit = conn.is_commit /\ conn'.is_broken = conn.is_broken
    BY <2>2, AsyncTypes DEF AsyncConn
  <2>5. conn.is_commit => conn.is_broken
    <3>1. conn.is_commit => CutOff
      BY <2>3 DEF StaleInv, NoStaleCommit, CutOff, NoCall, Critical
    <3> QED BY <3>1 DEF AsyncInv, Marked
  <2> QED BY <2>3, <2>4, <2>5 DEF StaleInv, NoStaleCommit
<1>9. CASE GiveBack \/ Get
  <2>1. conn \in AsyncConn
    BY AsyncTypes
  <2>2. Replace => ~conn'.is_commit
    BY DEF Replace, NewConn
  <2>3. CASE GiveBack
    <3>1. place' = "pool" /\ (Replace \/ conn' = conn)
      BY <2>3 DEF GiveBack, Stays
    <3>2. conn.is_commit => conn.is_broken
      BY <2>3 DEF GiveBack, Ready, NoCall, StaleInv, NoStaleCommit
    <3> QED BY <2>2, <3>1, <3>2 DEF StaleInv, NoStaleCommit
  <2>4. CASE Get
    <3>1. CASE Replace
      BY <2>2, <3>1 DEF StaleInv, NoStaleCommit
    <3>2. CASE ~Replace
      <4>1. conn' = conn /\ place = "pool" /\ ~(Pool = "deadpool" /\ IsBroken(conn))
        BY <2>4, <3>2 DEF Get, Stays
      <4>2. ~conn.is_broken
        BY <4>1, AsyncAssumption DEF AsyncInv, Unbroken, IsBroken
      <4> QED BY <4>1, <4>2 DEF StaleInv, NoStaleCommit
    <3> QED BY <3>1, <3>2
  <2> QED BY <1>9, <2>3, <2>4
<1> QED BY <1>1, <1>3, <1>4, <1>6, <1>7, <1>8, <1>9 DEF Next

(* bb8 and deadpool, whole tasks dropped: the flag of a commit that was
   dropped reaches nobody, so that the hook of PostgreSQL overlooks no
   serialization failure but that of the holder's own commit.               *)
THEOREM NoStaleCommitHolds ==
    ASSUME Pool # "mobc", CancelWhole
    PROVE  Spec => []NoStaleCommit
<1>1. Init => AsyncInv /\ StaleInv
  BY InitAsyncInv, InitStaleInv
<1>2. AsyncInv /\ StaleInv /\ [Next]_vars => (AsyncInv /\ StaleInv)'
  BY NextAsyncInv, NextStaleInv
<1>3. StaleInv => NoStaleCommit
  BY DEF StaleInv
<1> QED BY <1>1, <1>2, <1>3, PTL DEF Spec

-------------------------------------------------------------------------------
(* What a session of PostgreSQL or Turso makes of a statement.              *)

(* A session without a transaction has no work, none has an implicit one,
   and only PostgreSQL aborts.                                              *)
Sound(s) == /\ s \in Session
            /\ s.txn # "implicit"
            /\ s.txn = "aborted" => Dialect = "Pg"
            /\ Quiet(s) => s.work = {}

Engaged(s) == s.txn # "idle"

LEMMA SoundTxn ==
    ASSUME NEW s, Sound(s)
    PROVE  s.txn \in {"idle", "open", "aborted", "lost"}
BY DEF Sound, Session, Txn

LEMMA SoundMoves ==
    ASSUME NEW s, Sound(s)
    PROVE  /\ Sound(Closed(s)) /\ Sound(Committed(s)) /\ Sound(AfterError(s))
           /\ s.txn # "lost" => \A item \in Nat : Sound(Written(s, item))
           /\ s.txn = "idle" => Sound([s EXCEPT !.txn = "open"])
<1>1. s \in Session
  BY DEF Sound
<1>2. Sound(Closed(s)) /\ Sound(Committed(s))
  BY <1>1, SessionMoves, LostSessions DEF Sound
<1>3. Sound(AfterError(s))
  BY <1>1, ErrorMoves DEF Sound, Quiet
<1>4. ASSUME s.txn # "lost", NEW item \in Nat PROVE Sound(Written(s, item))
  <2>1. /\ Written(s, item) \in Session /\ Written(s, item).txn = s.txn
        /\ s.txn = "idle" => Written(s, item).work = s.work
    BY <1>1, WrittenIs
  <2> QED BY <1>4, <2>1 DEF Sound, Quiet
<1>5. s.txn = "idle" => Sound([s EXCEPT !.txn = "open"])
  BY <1>1 DEF Sound, Quiet, Session, Txn
<1> QED BY <1>2, <1>3, <1>4, <1>5

(* A reply to BEGIN.                                                        *)
LEMMA BeginAnswers ==
    ASSUME Dialect \in {"Pg", "Turso"}, NEW s, Sound(s), s.txn # "lost", NEW a \in BeginReplies(s)
    PROVE  \/ a.res = "ok" /\ s.txn = "idle" /\ a.session = [s EXCEPT !.txn = "open"]
           \/ a.session = s
<1>1. CASE s.txn = "idle"
  BY <1>1 DEF BeginReplies, Fault, Reply
<1>2. CASE s.txn = "open"
  BY <1>2 DEF BeginReplies, Reply, Embedded
<1>3. CASE s.txn = "aborted"
  BY <1>3 DEF BeginReplies, Reply
<1> QED BY <1>1, <1>2, <1>3, SoundTxn

(* A reply to SAVEPOINT in a transaction.                                   *)
LEMMA SavepointAnswers ==
    ASSUME NEW s, Sound(s), s.txn # "lost", Engaged(s), NEW level,
           NEW a \in SavepointReplies(s, level)
    PROVE  \/ a.res = "ok" /\ s.txn = "open" /\ a.session = SavepointSet(s, level)
           \/ a.res = "error" /\ a.session \in {s, AfterError(s)}
<1>1. CASE s.txn = "open"
  BY <1>1 DEF SavepointReplies, Fault, Reply
<1>2. CASE s.txn = "aborted"
  BY <1>2 DEF SavepointReplies, Reply
<1> QED BY <1>1, <1>2, SoundTxn DEF Engaged

(* A reply to RELEASE.                                                      *)
LEMMA ReleaseAnswers ==
    ASSUME NEW s, Sound(s), s.txn # "lost", NEW level, NEW a \in ReleaseReplies(s, level)
    PROVE  \/ /\ a.res = "ok" /\ s.txn = "open" /\ SavesAt(s, level) # {}
              /\ a.session = Released(s, level)
           \/ /\ a.res = "error" /\ (s.txn # "open" \/ SavesAt(s, level) = {})
              /\ a.session = AfterError(s)
<1>1. CASE ~InTransaction(s) \/ s.txn = "aborted" \/ SavesAt(s, level) = {}
  BY <1>1 DEF ReleaseReplies, Reply, InTransaction
<1>2. CASE ~(~InTransaction(s) \/ s.txn = "aborted" \/ SavesAt(s, level) = {})
  <2>1. s.txn = "open" /\ s.txn # "implicit" /\ SavesAt(s, level) # {}
    BY <1>2, SoundTxn DEF InTransaction
  <2>2. a = Reply("ok", Released(s, level))
    BY <1>2, <2>1 DEF ReleaseReplies
  <2> QED BY <2>1, <2>2 DEF Reply
<1> QED BY <1>1, <1>2

(* A reply to ROLLBACK TO.                                                  *)
LEMMA RollbackToAnswers ==
    ASSUME NEW s, Sound(s), NEW level, NEW a \in RollbackToReplies(s, level)
    PROVE  \/ /\ a.res = "ok" /\ s.txn \in {"open", "aborted"} /\ SavesAt(s, level) # {}
              /\ a.session = RolledBackTo(s, level)
           \/ /\ a.res = "error" /\ (s.txn \notin {"open", "aborted"} \/ SavesAt(s, level) = {})
              /\ a.session = AfterError(s)
<1>1. CASE InTransaction(s) /\ SavesAt(s, level) # {}
  <2>1. s.txn \in {"open", "aborted"}
    BY <1>1, SoundTxn DEF InTransaction
  <2> QED BY <1>1, <2>1 DEF RollbackToReplies, Reply
<1>2. CASE ~(InTransaction(s) /\ SavesAt(s, level) # {})
  BY <1>2 DEF RollbackToReplies, Reply, InTransaction
<1> QED BY <1>1, <1>2

(* A reply to COMMIT.                                                       *)
LEMMA CommitAnswers ==
    ASSUME Dialect \in {"Pg", "Turso"}, NEW s, Sound(s), s.txn # "lost", NEW a \in CommitReplies(s)
    PROVE  \/ a.res = "ok" /\ s.txn = "open" /\ a.session = Committed(s)
           \/ a.res = "ok" /\ s.txn = "aborted" /\ a.session = Closed(s)
           \/ a.res = "ok" /\ s.txn = "idle" /\ a.session = s
           \/ a.res \notin {"ok", "lost"} /\ a.session \in {s, Closed(s)}
<1>1. CASE s.txn = "idle"
  BY <1>1 DEF CommitReplies, Reply
<1>2. CASE s.txn = "aborted"
  BY <1>2 DEF CommitReplies, Reply
<1>3. CASE s.txn = "open"
  BY <1>3 DEF CommitReplies, Fault, Reply
<1> QED BY <1>1, <1>2, <1>3, SoundTxn

(* A reply to a data statement.                                             *)
LEMMA WriteAnswers ==
    ASSUME Dialect \in {"Pg", "Turso"}, NEW s, Sound(s), s.txn # "lost", NEW item,
           NEW a \in WriteReplies(s, item)
    PROVE  \/ a.res = "ok" /\ s.txn \in {"idle", "open"} /\ a.session = Written(s, item)
           \/ a.res \notin {"ok", "lost"} /\ a.session \in {s, AfterError(s)}
<1>1. CASE s.txn = "aborted"
  BY <1>1 DEF WriteReplies, Reply
<1>2. CASE s.txn \in {"idle", "open"}
  BY <1>2 DEF WriteReplies, Fault, Reply
<1> QED BY <1>1, <1>2, SoundTxn

(* Savepoints keep a session in its transaction.                            *)
LEMMA SavepointSound ==
    ASSUME NEW s, Sound(s), s.txn \in {"open", "aborted"}, NEW level \in Nat
    PROVE  /\ Sound(SavepointSet(s, level)) /\ SavepointSet(s, level).txn = s.txn
           /\ SavepointSet(s, level).durable = s.durable
           /\ SavesAt(s, level) # {} =>
                 /\ Sound(RolledBackTo(s, level)) /\ RolledBackTo(s, level).txn = "open"
                 /\ RolledBackTo(s, level).durable = s.durable
                 /\ Sound(Released(s, level)) /\ Released(s, level).txn = s.txn
                 /\ Released(s, level).durable = s.durable
<1>1. s \in Session
  BY DEF Sound
<1>2. /\ SavepointSet(s, level) \in Session /\ SavepointSet(s, level).txn = s.txn
      /\ SavepointSet(s, level).durable = s.durable
  BY <1>1, SavepointMoves DEF SavepointSet, Session
<1>3. ASSUME SavesAt(s, level) # {}
      PROVE  /\ RolledBackTo(s, level) \in Session /\ RolledBackTo(s, level).txn = "open"
             /\ RolledBackTo(s, level).durable = s.durable
             /\ Released(s, level) \in Session /\ Released(s, level).txn = s.txn
             /\ Released(s, level).durable = s.durable
  BY <1>1, <1>3, SavepointMoves DEF RolledBackTo, Released, Session
<1> QED BY <1>2, <1>3 DEF Sound, Quiet

(* What a statement may make durable, and where it leaves the session.      *)
Keeps(s, a)      == a.session.durable = s.durable
Commits(s, stmt, a) == /\ stmt.op = "commit" /\ s.txn = "open" /\ a.res \in {"ok", "lost"}
                       /\ a.session.durable = s.durable \cup s.work
Autocommits(s, stmt, a) == /\ stmt.op = "write" /\ s.txn = "idle" /\ a.res \in {"ok", "lost"}
                           /\ a.session.durable = s.durable \cup {stmt.arg}

LEMMA ServerMoves ==
    ASSUME Dialect \in {"Pg", "Turso"}, NEW s, Sound(s), s.txn # "lost",
           NEW stmt \in Stmt, stmt.op = "savepoint" => Engaged(s),
           NEW a \in ServerReplies(s, stmt)
    PROVE  /\ Sound(a.session) /\ a.res # "lost" /\ a.session.txn # "lost"
           /\ Keeps(s, a) \/ Commits(s, stmt, a) \/ Autocommits(s, stmt, a)
           /\ stmt.op \notin {"commit", "rollback"} /\ Engaged(s) => Engaged(a.session)
<1> USE DEF Keeps, Engaged
<1>0. stmt.arg \in Nat /\ stmt.op \in Ops
  BY DEF Stmt
<1>e. /\ Sound(AfterError(s)) /\ AfterError(s).durable = s.durable
      /\ AfterError(s).txn # "lost" /\ (AfterError(s).txn = "idle" => s.txn = "idle")
  <2>1. s \in Session
    BY DEF Sound
  <2> QED BY <2>1, SoundMoves, ErrorMoves
<1>c. /\ Sound(Closed(s)) /\ Closed(s).durable = s.durable /\ Closed(s).txn = "idle"
      /\ Sound(Committed(s)) /\ Committed(s).durable = s.durable \cup s.work /\ Committed(s).txn = "idle"
  <2>1. s \in Session
    BY DEF Sound
  <2> QED BY <2>1, SoundMoves, LostSessions
<1>1. CASE stmt.op = "begin"
  <2>1. a \in BeginReplies(s)
    BY <1>1 DEF ServerReplies
  <2>2. CASE a.session = s
    <3>1. a.res # "lost"
      BY <2>1 DEF BeginReplies, Fault, Reply
    <3> QED BY <1>1, <2>2, <3>1
  <2>3. CASE a.res = "ok" /\ s.txn = "idle" /\ a.session = [s EXCEPT !.txn = "open"]
    <3>1. a.session.durable = s.durable /\ a.session.txn = "open"
      BY <2>3 DEF Sound, Session
    <3> QED BY <1>1, <2>3, <3>1, SoundMoves
  <2> QED BY <2>1, <2>2, <2>3, BeginAnswers
<1>2. CASE stmt.op = "savepoint"
  <2>1. a \in SavepointReplies(s, stmt.arg)
    BY <1>2 DEF ServerReplies
  <2>2. CASE a.res = "ok" /\ s.txn = "open" /\ a.session = SavepointSet(s, stmt.arg)
    BY <1>0, <1>2, <2>2, SavepointSound
  <2>3. CASE a.res = "error" /\ a.session \in {s, AfterError(s)}
    BY <1>2, <1>e, <2>3
  <2> QED BY <1>2, <2>1, <2>2, <2>3, SavepointAnswers
<1>3. CASE stmt.op = "rollback_to"
  <2>1. a \in RollbackToReplies(s, stmt.arg)
    BY <1>3 DEF ServerReplies
  <2>2. CASE /\ a.res = "ok" /\ s.txn \in {"open", "aborted"} /\ SavesAt(s, stmt.arg) # {}
             /\ a.session = RolledBackTo(s, stmt.arg)
    BY <1>0, <1>3, <2>2, SavepointSound
  <2>3. CASE a.res = "error" /\ a.session = AfterError(s)
    BY <1>3, <1>e, <2>3
  <2> QED BY <2>1, <2>2, <2>3, RollbackToAnswers
<1>4. CASE stmt.op = "release"
  <2>1. a \in ReleaseReplies(s, stmt.arg)
    BY <1>4 DEF ServerReplies
  <2>2. CASE /\ a.res = "ok" /\ s.txn = "open" /\ SavesAt(s, stmt.arg) # {}
             /\ a.session = Released(s, stmt.arg)
    BY <1>0, <1>4, <2>2, SavepointSound
  <2>3. CASE a.res = "error" /\ a.session = AfterError(s)
    BY <1>4, <1>e, <2>3
  <2> QED BY <2>1, <2>2, <2>3, ReleaseAnswers
<1>5. CASE stmt.op = "commit"
  <2>1. a \in CommitReplies(s)
    BY <1>5 DEF ServerReplies
  <2>2. CASE a.res = "ok" /\ s.txn = "open" /\ a.session = Committed(s)
    BY <1>5, <1>c, <2>2 DEF Commits
  <2>3. CASE a.res # "lost" /\ a.session \in {s, Closed(s)}
    BY <1>5, <1>c, <2>3
  <2> QED BY <2>1, <2>2, <2>3, CommitAnswers
<1>6. CASE stmt.op = "rollback"
  <2>1. a.res # "lost" /\ a.session \in {s, Closed(s)}
    BY <1>6 DEF ServerReplies, RollbackReplies, Reply
  <2> QED BY <1>6, <1>c, <2>1
<1>7. CASE stmt.op = "write"
  <2>1. a \in WriteReplies(s, stmt.arg)
    BY <1>7 DEF ServerReplies
  <2>2. CASE a.res = "ok" /\ s.txn \in {"idle", "open"} /\ a.session = Written(s, stmt.arg)
    <3>1. Sound(a.session)
      BY <1>0, <2>2, SoundMoves
    <3>2. s \in Session
      BY DEF Sound
    <3> QED BY <1>0, <1>7, <2>2, <3>1, <3>2, WrittenIs DEF Autocommits
  <2>3. CASE a.res \notin {"ok", "lost"} /\ a.session \in {s, AfterError(s)}
    BY <1>7, <1>e, <2>3
  <2> QED BY <2>1, <2>2, <2>3, WriteAnswers
<1> QED BY <1>0, <1>1, <1>2, <1>3, <1>4, <1>5, <1>6, <1>7 DEF Ops

(* With the connection that may break before the reply.                     *)
LEMMA SessionAnswers ==
    ASSUME Dialect \in {"Pg", "Turso"}, NEW s, Sound(s),
           NEW stmt \in Stmt, stmt.op = "savepoint" => Engaged(s),
           NEW a \in Answers(s, stmt)
    PROVE  /\ Sound(a.session) /\ (a.session.txn = "lost" <=> a.res = "lost")
           /\ Keeps(s, a) \/ Commits(s, stmt, a) \/ Autocommits(s, stmt, a)
           /\ stmt.op \notin {"commit", "rollback"} /\ Engaged(s) => Engaged(a.session)
           /\ a.res # "lost" => s.txn # "lost" /\ a \in ServerReplies(s, stmt)
<1>0. s \in Session
  BY DEF Sound
<1>1. CASE s.txn = "lost" /\ a = Reply("lost", s)
  BY <1>1 DEF Reply, Keeps, Engaged
<1>2. CASE s.txn # "lost" /\ a \in ServerReplies(s, stmt)
  BY <1>2, ServerMoves
<1>3. CASE s.txn # "lost" /\ a \in LostReplies(s, stmt)
  <2>1. a.res = "lost" /\ a.session.txn = "lost" /\ a.session.work = {}
    BY <1>0, <1>3, LostAnswers
  <2>2. a.session \in Session
    BY <1>0, <1>3, AnswersType DEF Answers, Replies
  <2>3. Sound(a.session) /\ Engaged(a.session)
    BY <2>1, <2>2 DEF Sound, Engaged
  <2>4. Keeps(s, a) \/ Commits(s, stmt, a) \/ Autocommits(s, stmt, a)
    <3>1. CASE a.session.durable = s.durable
      BY <3>1 DEF Keeps
    <3>2. CASE \E b \in ServerReplies(s, stmt) : a.session.durable = b.session.durable
      <4>1. PICK b \in ServerReplies(s, stmt) : a.session.durable = b.session.durable
        BY <3>2
      <4>2. Keeps(s, b) \/ Commits(s, stmt, b) \/ Autocommits(s, stmt, b)
        BY <1>3, ServerMoves
      <4> QED BY <2>1, <4>1, <4>2 DEF Keeps, Commits, Autocommits
    <3> QED BY <1>0, <1>3, <3>1, <3>2, LostAnswers
  <2> QED BY <2>1, <2>3, <2>4
<1> QED BY <1>1, <1>2, <1>3 DEF Answers

-------------------------------------------------------------------------------
(* The manager, the session and the closures.                               *)

OneTest(sc) == \A i \in 1..Len(sc) : sc[i].test => i = 1
OnTest(sc)  == Len(sc) > 0 /\ sc[1].test

(* An open session holds the work of every closure; an aborted one still has
   their savepoints.                                                        *)
Held(s, sc) ==
    LET w == Works(sc)
    IN /\ s.txn = "open" => Holds(s, w, Len(sc))
       /\ s.txn = "aborted" => Holds([s EXCEPT !.work = w[Len(sc)]], w, Len(sc))

(* The depth is the number of closures, in the transaction that holds their
   work; over a test transaction it may be more, as closures that were
   dropped are not rolled back.  mending: a COMMIT failed, and a ROLLBACK
   follows though the transaction may be over.                              *)
Follows(st, s, sc, mending) ==
    /\ OneTest(sc)
    /\ OnTest(sc) => Engaged(s) /\ (~st.in_error => st.depth >= Len(sc))
    /\ ~OnTest(sc) => ~st.test /\ (~st.in_error => st.depth = Len(sc))
    /\ ~OnTest(sc) /\ Len(sc) > 0 => /\ Engaged(s) \/ mending
                                     /\ ~st.in_error => Held(s, sc)

LEMMA SameTests ==
    ASSUME NEW sc \in Seq(Scope), NEW tc \in Seq(Scope), Len(tc) <= Len(sc),
           \A i \in 1..Len(tc) : tc[i].test = sc[i].test, OneTest(sc)
    PROVE  /\ OneTest(tc)
           /\ Len(tc) > 0 => (OnTest(tc) <=> OnTest(sc))
           /\ Len(sc) \in Nat /\ Len(tc) \in Nat
<1>1. Len(sc) \in Nat /\ Len(tc) \in Nat
  BY LenProperties
<1>2. \A i \in 1..Len(tc) : i \in 1..Len(sc)
  BY <1>1
<1>3. Len(tc) > 0 => 1 \in 1..Len(tc)
  BY <1>1
<1> QED BY <1>1, <1>2, <1>3 DEF OneTest, OnTest

(* Savepoints and work that are the same hold the same.                     *)
LEMMA HeldAgain ==
    ASSUME NEW s \in Session, NEW t \in Session, NEW sc \in Seq(Scope), NEW tc \in Seq(Scope),
           Held(s, sc), s.txn \in {"open", "aborted"}, t.saves = s.saves,
           t.txn = "open" => s.txn = "open" /\ t.work = Works(tc)[Len(sc)],
           Len(tc) = Len(sc), \A k \in 0..(Len(sc) - 1) : Works(tc)[k] = Works(sc)[k],
           Works(tc)[Len(sc)] \in SUBSET Nat, Works(sc)[Len(sc)] \in SUBSET Nat
    PROVE  Held(t, tc)
<1> DEFINE n == Len(sc)
           w == Works(sc)
           v == Works(tc)
<1>0. n \in Nat
  BY LenProperties
<1> DEFINE a == [s EXCEPT !.work = w[n]]
           b == [t EXCEPT !.work = v[n]]
<1>1. /\ a \in Session /\ a.saves = s.saves
      /\ b \in Session /\ b.saves = t.saves /\ b.work = v[n]
  BY DEF Session
<1>2. Holds(s, w, n) \/ Holds(a, w, n)
  BY DEF Held
<1> HIDE DEF a, b
<1>3. \A k \in 0..(n - 1) : Works(tc)[k] = Works(sc)[k]
  OBVIOUS
<1>4. ASSUME t.txn = "open" PROVE Holds(t, v, n)
  <2>1. Holds(s, w, n) /\ t.work = Works(tc)[n]
    BY <1>4 DEF Held
  <2> HIDE DEF n
  <2> QED BY <1>0, <1>3, <2>1, HoldsAgain
<1>5. Holds(b, v, n)
  <2> HIDE DEF n
  <2>1. CASE Holds(s, w, n)
    BY <1>0, <1>1, <1>3, <2>1, HoldsAgain
  <2>2. CASE Holds(a, w, n)
    BY <1>0, <1>1, <1>3, <2>2, HoldsAgain
  <2> QED BY <1>2, <2>1, <2>2
<1> QED BY <1>4, <1>5 DEF Held, b

LEMMA WorksInNat ==
    ASSUME NEW sc \in Seq(Scope), NEW k \in 0..Len(sc)
    PROVE  Works(sc)[k] \in SUBSET Nat
<1>1. Len(sc) \in Nat
  BY LenProperties
<1>2. ASSUME NEW i \in 1..k PROVE sc[i].wrote \subseteq Nat
  <2>1. i \in 1..Len(sc)
    BY <1>1
  <2>2. sc[i] \in Scope
    BY <2>1, ElementOfSeq
  <2> QED BY <2>2, BoundsAssumption DEF Scope, Items
<1>3. k \in Nat
  BY <1>1
<1> QED BY <1>2, <1>3, WorksOf

(* A call fails inside a closure and leaves the levels as they are.         *)
LEMMA FollowsNoted ==
    ASSUME NEW st, NEW s, Sound(s), NEW sc \in Seq(Scope), NEW m, Follows(st, s, sc, m),
           NEW k, k.in_error = st.in_error, k.depth = st.depth, k.test = st.test,
           NEW t, Sound(t), t \in {s, AfterError(s)} \/ t.txn = "lost",
           NEW tc \in Seq(Scope), Len(tc) = Len(sc),
           \A i \in 1..Len(sc) : tc[i].wrote = sc[i].wrote /\ tc[i].test = sc[i].test
    PROVE  Follows(k, t, tc, m)
<1>1. OneTest(sc) /\ Len(tc) <= Len(sc) /\ Len(sc) \in Nat
  BY LenProperties DEF Follows
<1>2. OneTest(tc) /\ (Len(sc) > 0 => (OnTest(tc) <=> OnTest(sc)))
  BY <1>1, SameTests
<1>3. OnTest(tc) <=> OnTest(sc)
  BY <1>2 DEF OnTest
<1>4. s \in Session /\ t \in Session
  BY DEF Sound
<1>5. /\ t.txn = "lost" \/ t.saves = s.saves
      /\ Engaged(s) => Engaged(t)
      /\ t.txn = "open" => s.txn = "open" /\ t = s
      /\ t.txn = "aborted" => s.txn \in {"open", "aborted"}
  BY <1>4, ErrorMoves DEF Engaged
<1>6. ASSUME Held(s, sc) PROVE Held(t, tc)
  <2>1. CASE t.txn \in {"open", "aborted"}
    <3>1. \A j \in 0..Len(sc) : Works(tc)[j] = Works(sc)[j]
      BY <1>1, WorksSame
    <3>2. /\ Works(tc)[Len(sc)] \in SUBSET Nat /\ Works(sc)[Len(sc)] \in SUBSET Nat
          /\ Works(tc)[Len(sc)] = Works(sc)[Len(sc)]
          /\ \A j \in 0..(Len(sc) - 1) : Works(tc)[j] = Works(sc)[j]
      BY <1>1, <3>1, WorksInNat
    <3>3. t.txn = "open" => s.txn = "open" /\ t.work = Works(tc)[Len(sc)]
      BY <1>5, <1>6, <3>2 DEF Held, Holds
    <3>4. s.txn \in {"open", "aborted"} /\ t.saves = s.saves
      BY <1>5, <2>1
    <3> QED BY <1>4, <1>6, <3>2, <3>3, <3>4, HeldAgain
  <2>2. CASE t.txn \notin {"open", "aborted"}
    BY <2>2 DEF Held
  <2> QED BY <2>1, <2>2
<1> QED BY <1>2, <1>3, <1>5, <1>6 DEF Follows

(* BEGIN and SAVEPOINT.                                                     *)
LEMMA FollowsOpened ==
    ASSUME Dialect \in {"Pg", "Turso"},
           NEW st \in Status, ~st.in_error, NEW s, Sound(s), NEW sc \in Seq(Scope),
           Follows(st, s, sc, FALSE), Len(sc) = 0 => Quiet(s),
           NEW a \in Answers(s, BeginSql(st)), a.res = "ok",
           NEW test \in BOOLEAN, test => sc = <<>>,
           NEW k, ~k.in_error, k.depth = st.depth + 1, ~test => k.test = st.test
    PROVE  Follows(k, a.session, Append(sc, NewScope(test)), FALSE)
<1> DEFINE tc == Append(sc, NewScope(test))
           n == Len(sc)
<1>0. n \in Nat /\ st.depth \in Nat /\ OneTest(sc)
  BY LenProperties DEF Status, Follows
<1>1. /\ tc \in Seq(Scope) /\ Len(tc) = n + 1
      /\ \A i \in 1..n : tc[i] = sc[i]
      /\ tc[n + 1] = NewScope(test) /\ NewScope(test).test = test
  BY OpenedIs DEF NewScope
<1>2. /\ Works(tc)[n + 1] = Works(sc)[n]
      /\ \A i \in 0..n : Works(tc)[i] = Works(sc)[i]
  BY WorksOpened
<1>e. test => n = 0
  BY EmptySeq
<1>3. OneTest(tc) /\ (n > 0 => (OnTest(tc) <=> OnTest(sc))) /\ (n = 0 => (OnTest(tc) <=> test))
  <2>1. \A i \in 1..(n + 1) : i = n + 1 \/ i \in 1..n
    BY <1>0
  <2>2. n > 0 => 1 \in 1..n
    BY <1>0
  <2>3. OneTest(tc)
    BY <1>0, <1>1, <1>e, <2>1 DEF OneTest
  <2> QED BY <1>0, <1>1, <2>2, <2>3 DEF OnTest
<1>4. BeginSql(st) \in Stmt /\ s \in Session
  BY SqlType DEF Sound
<1> DEFINE stmt == BeginSql(st)
<1>5. CASE n = 0
  <2>1. ~OnTest(sc) /\ st.depth = 0 /\ ~st.test
    BY <1>5 DEF OnTest, Follows
  <2>2. stmt.op = "begin"
    BY <2>1 DEF BeginSql, TransactionSql
  <2>3. s.txn = "idle" /\ a \in BeginReplies(s) /\ s.work = {}
    <3>1. s.txn # "lost" /\ a \in ServerReplies(s, stmt)
      BY <1>4, <2>2, SessionAnswers
    <3>2. Quiet(s)
      BY <1>5
    <3> QED BY <2>2, <3>1, <3>2 DEF ServerReplies, Quiet, Sound
  <2>4. a.session = [s EXCEPT !.txn = "open"]
    <3>1. a.session = [s EXCEPT !.txn = "open"] \/ a = Reply("error", s)
      BY <2>3 DEF BeginReplies, Fault, Reply
    <3> QED BY <3>1 DEF Reply
  <2>5. a.session.txn = "open" /\ a.session.work = {}
    BY <1>4, <2>3, <2>4 DEF Session
  <2>6. Works(tc)[1] = {}
    BY <1>0, <1>2, <1>5, WorksSplit
  <2>7. Holds(a.session, Works(tc), 1)
    BY <2>5, <2>6 DEF Holds
  <2>8. Held(a.session, tc)
    BY <1>1, <1>5, <2>5, <2>7 DEF Held
  <2>9. Len(tc) = 1 /\ k.depth = 1 /\ Engaged(a.session) /\ (~test => ~k.test)
    BY <1>1, <1>5, <2>1, <2>5 DEF Engaged
  <2>10. OnTest(tc) <=> test
    BY <1>3, <1>5
  <2> HIDE DEF tc
  <2>11. Follows(k, a.session, tc, FALSE)
    BY <1>3, <2>8, <2>9, <2>10 DEF Follows
  <2> QED BY <2>11 DEF tc
<1>6. CASE n > 0
  <2>1. st.depth >= n /\ st.depth > 0 /\ (~OnTest(sc) => st.depth = n)
    BY <1>0, <1>6 DEF Follows
  <2>2. stmt.op = "savepoint" /\ stmt.arg = st.depth
    BY <2>1 DEF BeginSql, TransactionSql
  <2>3. Engaged(s)
    BY <1>6 DEF Follows
  <2>4. Engaged(a.session) /\ s.txn # "lost" /\ a \in SavepointReplies(s, st.depth)
    <3>1. s.txn # "lost" /\ a \in ServerReplies(s, stmt) /\ Engaged(a.session)
      BY <1>4, <2>2, <2>3, SessionAnswers
    <3> QED BY <2>2, <3>1 DEF ServerReplies
  <2>5. s.txn = "open" /\ a.session = SavepointSet(s, st.depth)
    BY <2>3, <2>4, SavepointAnswers
  <2>6. ASSUME ~OnTest(sc) PROVE Held(a.session, tc)
    <3>1. Holds(s, Works(sc), n) /\ st.depth = n
      BY <1>6, <2>1, <2>5, <2>6 DEF Follows, Held
    <3>2. n \in Nat \ {0} /\ \A i \in 1..n : Works(tc)[i] = Works(sc)[i]
      BY <1>0, <1>2, <1>6
    <3> HIDE DEF n, tc
    <3>3. Holds(SavepointSet(s, n), Works(tc), n + 1)
      BY <1>2, <1>4, <3>1, <3>2, HoldsSavepointSet
    <3>4. a.session.txn = "open"
      BY <1>4, <2>5 DEF SavepointSet, Session
    <3> QED BY <1>1, <2>5, <3>1, <3>3, <3>4 DEF Held
  <2>7. ~OnTest(sc) => ~st.test /\ ~test
    BY <1>6, <1>e DEF Follows
  <2>8. k.depth >= Len(tc) /\ (~OnTest(sc) => k.depth = Len(tc) /\ ~k.test)
    BY <1>0, <1>1, <2>1, <2>7
  <2>9. OnTest(tc) <=> OnTest(sc)
    BY <1>3, <1>6
  <2> HIDE DEF tc
  <2>10. Follows(k, a.session, tc, FALSE)
    BY <1>3, <2>4, <2>6, <2>8, <2>9 DEF Follows
  <2> QED BY <2>10 DEF tc
<1>7. n = 0 \/ n > 0
  BY <1>0
<1> QED BY <1>5, <1>6, <1>7

(* A data statement in a closure, or outside of them.                       *)
LEMMA FollowsWritten ==
    ASSUME NEW st, NEW s, Sound(s), NEW sc \in Seq(Scope), Follows(st, s, sc, FALSE),
           NEW item \in Items, s.txn \in {"idle", "open"},
           NEW k, k.in_error = st.in_error, k.depth = st.depth, k.test = st.test
    PROVE  /\ Len(sc) > 0 => Follows(k, Written(s, item), WroteTop(sc, item), FALSE)
           /\ Len(sc) = 0 => Follows(k, Written(s, item), sc, FALSE)
<1> DEFINE n == Len(sc)
           tc == WroteTop(sc, item)
           t == Written(s, item)
<1>0. n \in Nat /\ s \in Session /\ item \in Nat /\ OneTest(sc)
  BY LenProperties, BoundsAssumption DEF Sound, Items, Follows
<1>1. t \in Session /\ t.txn = s.txn
  BY <1>0, WrittenIs
<1>2. CASE n = 0
  BY <1>1, <1>2 DEF Follows, OnTest
<1>3. CASE n > 0
  <2>1. tc \in Seq(Scope) /\ Len(tc) = n /\ \A i \in 1..n : tc[i].test = sc[i].test
    BY <1>3, WroteTopIs
  <2>2. OneTest(tc) /\ (OnTest(tc) <=> OnTest(sc))
    BY <1>0, <1>3, <2>1, SameTests
  <2>3. s.txn = "open"
    BY <1>3 DEF Follows, Engaged
  <2>4. t.saves = s.saves /\ t.work = s.work \cup {item}
    BY <1>0, <2>3 DEF Written, Session
  <2>5. ASSUME Held(s, sc) PROVE Held(t, tc)
    <3>1. /\ Works(tc)[n] = Works(sc)[n] \cup {item}
          /\ \A i \in 0..(n - 1) : Works(tc)[i] = Works(sc)[i]
      BY <1>3, WorksTop
    <3>2. Holds(s, Works(sc), n)
      BY <2>3, <2>5 DEF Held
    <3>3. t.work = Works(tc)[n]
      BY <2>4, <3>1, <3>2 DEF Holds
    <3> HIDE DEF n, tc, t
    <3>4. Holds(t, Works(tc), n)
      BY <1>0, <1>1, <2>4, <3>1, <3>2, <3>3, HoldsAgain
    <3> QED BY <1>1, <2>1, <2>3, <3>4 DEF Held
  <2> HIDE DEF tc, t
  <2>6. Follows(k, t, tc, FALSE)
    BY <1>1, <1>3, <2>1, <2>2, <2>3, <2>5 DEF Follows, Engaged
  <2>7. ~(Len(sc) = 0)
    BY <1>3
  <2> QED BY <2>6, <2>7 DEF tc, t
<1>4. n = 0 \/ n > 0
  BY <1>0
<1> QED BY <1>2, <1>3, <1>4

(* A closure ends, and tc are those that go on.                             *)
LEMMA FollowsLess ==
    ASSUME NEW st, NEW s, NEW sc \in Seq(Scope), Len(sc) > 0, ~sc[Len(sc)].test, NEW m,
           Follows(st, s, sc, m), st.in_error \/ st.depth \in Nat,
           NEW tc \in Seq(Scope), Len(tc) = Len(sc) - 1,
           \A i \in 1..(Len(sc) - 1) : tc[i].test = sc[i].test,
           NEW k, k.test => st.test,
           ~k.in_error => ~st.in_error /\ k.depth = st.depth - 1,
           NEW t, Len(sc) > 1 => Engaged(t),
           Len(sc) > 1 /\ ~OnTest(sc) /\ ~k.in_error => Held(t, tc)
    PROVE  Follows(k, t, tc, FALSE)
<1> DEFINE n == Len(sc)
<1>0. n \in Nat /\ OneTest(sc)
  BY LenProperties DEF Follows
<1>1. OneTest(tc) /\ (Len(tc) > 0 => (OnTest(tc) <=> OnTest(sc)))
  BY <1>0, SameTests
<1>2. CASE n = 1
  <2>1. ~OnTest(sc) /\ ~OnTest(tc) /\ Len(tc) = 0
    BY <1>2 DEF OnTest
  <2> QED BY <1>1, <1>2, <2>1 DEF Follows
<1>3. CASE n > 1
  <2>1. Len(tc) > 0 /\ (OnTest(tc) <=> OnTest(sc))
    BY <1>0, <1>1, <1>3
  <2>2. ~k.in_error => k.depth = st.depth - 1 /\ st.depth \in Nat
    OBVIOUS
  <2>3. OnTest(sc) => (~st.in_error => st.depth >= n)
    BY DEF Follows
  <2>4. ~OnTest(sc) => ~st.test /\ (~st.in_error => st.depth = n)
    BY DEF Follows
  <2>5. OnTest(tc) => Engaged(t) /\ (~k.in_error => k.depth >= Len(tc))
    BY <1>0, <1>3, <2>1, <2>2, <2>3
  <2>6. ~OnTest(tc) => ~k.test /\ (~k.in_error => k.depth = Len(tc))
    BY <1>0, <1>3, <2>1, <2>2, <2>4
  <2> QED BY <1>1, <1>3, <2>1, <2>5, <2>6 DEF Follows
<1>4. n = 1 \/ n > 1
  BY <1>0
<1> QED BY <1>2, <1>3, <1>4

(* What the levels below the last hold, after ROLLBACK TO, after RELEASE and
   after a RELEASE that an aborted transaction refuses.                     *)
LEMMA HeldRolledBack ==
    ASSUME NEW s \in Session, NEW sc \in Seq(Scope), Len(sc) > 1, Held(s, sc),
           s.txn \in {"open", "aborted"}
    PROVE  /\ SavesAt(s, Len(sc) - 1) # {}
           /\ Held(RolledBackTo(s, Len(sc) - 1), Inner(sc))
<1> DEFINE n == Len(sc)
           w == Works(sc)
           tc == Inner(sc)
           b == [s EXCEPT !.work = w[n]]
<1>0. n \in Nat /\ n - 1 \in Nat /\ n - 1 \in 1..(n - 1) /\ w[n] \in SUBSET Nat
  BY LenProperties, WorksInNat
<1>1. b \in Session /\ b.saves = s.saves /\ b.txn = s.txn /\ b.work = w[n]
  BY <1>0 DEF Session
<1>2. Holds(b, w, n)
  <2>1. CASE s.txn = "open"
    <3>1. Holds(s, w, n)
      BY <2>1 DEF Held
    <3> QED BY <1>0, <1>1, <3>1, HoldsWork
  <2>2. CASE s.txn = "aborted"
    BY <2>2 DEF Held
  <2> QED BY <2>1, <2>2
<1>3. SavesAt(b, n - 1) = SavesAt(s, n - 1)
  BY <1>1 DEF SavesAt
<1>4. Newest(b, n - 1) = Newest(s, n - 1)
  BY <1>3 DEF Newest
<1> DEFINE t == RolledBackTo(s, n - 1)
<1>5. RolledBackTo(b, n - 1) = t
  BY <1>1, <1>4 DEF RolledBackTo, Session
<1>6. Len(tc) = n - 1 /\ tc \in Seq(Scope)
  BY InnerIs, ScopesType, EmptySeq
<1>7. \A i \in 0..(n - 1) : Works(tc)[i] = Works(sc)[i]
  BY WorksInner
<1>8. SavesAt(s, n - 1) # {}
  BY <1>0, <1>2, <1>3 DEF Holds
<1>9. t \in Session /\ t.txn = "open"
  BY <1>0, <1>8, SavepointMoves DEF RolledBackTo, Session
<1> HIDE DEF n, b, tc, t
<1>10. Holds(t, w, n - 1)
  <2>1. n > 1
    BY DEF n
  <2> QED BY <1>0, <1>1, <1>2, <1>5, <2>1, HoldsRolledBackTo
<1>11. Holds(t, Works(tc), n - 1)
  <2>1. t.work = Works(tc)[n - 1]
    BY <1>0, <1>7, <1>10 DEF Holds
  <2>2. \A i \in 0..(n - 1 - 1) : Works(tc)[i] = Works(sc)[i]
    BY <1>0, <1>7
  <2> QED BY <1>0, <1>9, <1>10, <2>1, <2>2, HoldsAgain
<1> QED BY <1>6, <1>8, <1>9, <1>11 DEF Held, n, tc, t

LEMMA HeldReleased ==
    ASSUME NEW s \in Session, NEW sc \in Seq(Scope), Len(sc) > 1, Held(s, sc), s.txn = "open"
    PROVE  /\ SavesAt(s, Len(sc) - 1) # {}
           /\ Held(Released(s, Len(sc) - 1), Merge(sc))
<1> DEFINE n == Len(sc)
           w == Works(sc)
           v == Works(Merge(sc))
           t == Released(s, n - 1)
<1>0. n \in Nat /\ n > 1 /\ n - 1 \in Nat /\ n - 1 \in 1..(n - 1)
  BY LenProperties
<1>1. Holds(s, w, n)
  BY DEF Held
<1>2. v[n - 1] = w[n] /\ \A i \in 0..(n - 2) : v[i] = w[i]
  BY WorksMerged
<1>3. Len(Merge(sc)) = n - 1
  BY MergeIs
<1>4. SavesAt(s, n - 1) # {}
  BY <1>0, <1>1 DEF Holds
<1>5. t.txn = "open"
  BY DEF Released, Session
<1> HIDE DEF n, w, v
<1>6. Holds(t, v, n - 1)
  BY <1>0, <1>1, <1>2, HoldsReleased
<1> QED BY <1>3, <1>4, <1>5, <1>6 DEF Held, n, v

LEMMA HeldAborted ==
    ASSUME NEW s \in Session, NEW sc \in Seq(Scope), Len(sc) > 1, Held(s, sc), s.txn = "aborted"
    PROVE  Held(s, Inner(sc))
<1> DEFINE n == Len(sc)
           w == Works(sc)
           v == Works(Inner(sc))
           a == [s EXCEPT !.work = w[n]]
           b == [s EXCEPT !.work = v[n - 1]]
<1>0. n \in Nat /\ n > 1 /\ n - 1 \in Nat /\ n - 1 \in 1..(n - 1)
  BY LenProperties
<1>1. Len(Inner(sc)) = n - 1 /\ Inner(sc) \in Seq(Scope)
  BY InnerIs, ScopesType, EmptySeq
<1>2. \A i \in 0..(n - 1) : v[i] = w[i]
  BY WorksInner
<1>3. w[n] \in SUBSET Nat /\ v[n - 1] \in SUBSET Nat
  BY <1>0, <1>1, WorksInNat
<1>4. a \in Session /\ b \in Session /\ b.saves = a.saves /\ b.work = v[n - 1]
  BY <1>3 DEF Session
<1>5. Holds(a, w, n)
  BY DEF Held
<1> HIDE DEF n, w, v, a, b
<1>6. SavesAt(b, n) = SavesAt(a, n) /\ \A i : SavesAt(b, i) = SavesAt(a, i)
  BY <1>4 DEF SavesAt
<1>7. \A i : Newest(b, i) = Newest(a, i)
  BY <1>6 DEF Newest
<1>8. \A i \in 1..(n - 1 - 1) : i \in 1..(n - 1) /\ i \in 0..(n - 1)
  BY <1>0
<1>9. \A i \in 1..(n - 1) : SavesAt(a, i) # {} /\ a.saves[Newest(a, i)].work = w[i]
  BY <1>5 DEF Holds
<1>10. \A i, j \in 1..(n - 1) : i < j => Newest(a, i) < Newest(a, j)
  BY <1>5 DEF Holds
<1>11. Holds(b, v, n - 1)
  BY <1>2, <1>4, <1>6, <1>7, <1>8, <1>9, <1>10 DEF Holds
<1> QED BY <1>1, <1>11 DEF Held, n, v, b

-------------------------------------------------------------------------------
(* The fates of the writes, and what is durable.                            *)

(* Every write that is durable was sent, none of them was dropped or
   cancelled, and on Turso those that were kept are.                        *)
Accounted(durable, ends) ==
    /\ durable \subseteq DOMAIN ends
    /\ \A x \in DOMAIN ends : ends[x] \in {"dropped", "cancelled"} => x \notin durable
    /\ Dialect = "Turso" => \A x \in DOMAIN ends : ends[x] = "kept" => x \in durable

Unsettled(durable, ends) ==
    \A x \in DOMAIN ends : ends[x] = "pending" => x \notin durable

(* Pending writes come to an end.                                           *)
LEMMA AccountedSettled ==
    ASSUME NEW d, NEW ends, Accounted(d, ends), NEW items,
           \A x \in items : x \in DOMAIN ends /\ ends[x] = "pending",
           NEW e, d \subseteq e, e \subseteq d \cup items,
           NEW f, f # "pending", f \in {"dropped", "cancelled"} => items \cap e = {},
           Dialect = "Turso" /\ f = "kept" => items \subseteq e
    PROVE  /\ Accounted(e, Settle(ends, items, f))
           /\ (Unsettled(d, ends) \/ \A x \in DOMAIN ends : ends[x] = "pending" => x \in items)
                 => Unsettled(e, Settle(ends, items, f))
<1> DEFINE g == Settle(ends, items, f)
<1>1. DOMAIN g = DOMAIN ends /\ \A x \in DOMAIN ends : g[x] = IF x \in items THEN f ELSE ends[x]
  BY SettleIs
<1> HIDE DEF g
<1>2. e \subseteq DOMAIN g
  BY <1>1 DEF Accounted
<1>3. ASSUME NEW x \in DOMAIN g, g[x] \in {"dropped", "cancelled"} PROVE x \notin e
  BY <1>1, <1>3 DEF Accounted
<1>4. ASSUME Dialect = "Turso", NEW x \in DOMAIN g, g[x] = "kept" PROVE x \in e
  BY <1>1, <1>4 DEF Accounted
<1>5. ASSUME Unsettled(d, ends) \/ \A x \in DOMAIN ends : ends[x] = "pending" => x \in items
      PROVE  Unsettled(e, g)
  BY <1>1, <1>5 DEF Unsettled
<1>6. Accounted(e, g)
  BY <1>2, <1>3, <1>4 DEF Accounted
<1> QED BY <1>5, <1>6 DEF g

(* Another write is sent.                                                   *)
LEMMA AccountedSent ==
    ASSUME NEW d, NEW ends \in Seq(Fates), Accounted(d, ends), NEW f \in {"pending", "auto", "unknown"},
           NEW e, e = d \/ (f # "pending" /\ e = d \cup {Len(ends) + 1})
    PROVE  /\ Accounted(e, Append(ends, f))
           /\ Unsettled(d, ends) => Unsettled(e, Append(ends, f))
<1> DEFINE g == Append(ends, f)
           n == Len(ends)
<1>1. /\ n \in Nat /\ DOMAIN ends = 1..n /\ DOMAIN g = 1..(n + 1)
      /\ \A x \in 1..n : g[x] = ends[x]
      /\ g[n + 1] = f
  BY AppendedFate DEF Fates
<1> HIDE DEF g, n
<1>2. \A x \in DOMAIN g : x \in DOMAIN ends \/ x = n + 1
  BY <1>1
<1>3. n + 1 \notin d /\ DOMAIN ends \subseteq DOMAIN g /\ n + 1 \in DOMAIN g /\ n + 1 \notin DOMAIN ends
  BY <1>1 DEF Accounted
<1>4. e \subseteq DOMAIN g /\ d \subseteq e /\ e \subseteq d \cup {n + 1}
  BY <1>3 DEF Accounted, n
<1>5. ASSUME NEW x \in DOMAIN g, g[x] \in {"dropped", "cancelled"} PROVE x \notin e
  <2>1. x \in DOMAIN ends /\ ends[x] = g[x]
    BY <1>1, <1>2, <1>5
  <2> QED BY <1>3, <1>4, <1>5, <2>1 DEF Accounted
<1>6. ASSUME Dialect = "Turso", NEW x \in DOMAIN g, g[x] = "kept" PROVE x \in e
  <2>1. x \in DOMAIN ends /\ ends[x] = g[x]
    BY <1>1, <1>2, <1>6
  <2> QED BY <1>4, <1>6, <2>1 DEF Accounted
<1>7. ASSUME Unsettled(d, ends) PROVE Unsettled(e, g)
  <2> SUFFICES ASSUME NEW x \in DOMAIN g, g[x] = "pending" PROVE x \notin e
    BY DEF Unsettled
  <2>1. CASE x = n + 1
    BY <1>1, <1>3, <2>1
  <2>2. CASE x \in DOMAIN ends
    BY <1>1, <1>3, <1>4, <1>7, <2>2 DEF Unsettled
  <2> QED BY <1>2, <2>1, <2>2
<1>8. Accounted(e, g)
  BY <1>4, <1>5, <1>6 DEF Accounted
<1> QED BY <1>7, <1>8 DEF g

(* A commit nobody has heard of.                                            *)
LEMMA AccountedUnheard ==
    ASSUME NEW d, NEW ends, Accounted(d, ends), NEW items,
           \A x \in items : x \in DOMAIN ends /\ ends[x] = "pending"
    PROVE  Accounted(d \cup items, ends)
BY DEF Accounted

LEMMA FatedSent ==
    ASSUME NEW sc \in Seq(Scope), NEW ends \in Seq(Fates), Fated(sc, ends),
           NEW f \in {"auto", "unknown"}
    PROVE  Fated(sc, Append(ends, f))
<1> DEFINE g == Append(ends, f)
           n == Len(ends)
<1>1. /\ n \in Nat /\ DOMAIN ends = 1..n /\ DOMAIN g = 1..(n + 1)
      /\ \A x \in 1..n : g[x] = ends[x]
      /\ g[n + 1] = f
  BY AppendedFate DEF Fates
<1> HIDE DEF g, n
<1>2. \A x \in DOMAIN g : x \in DOMAIN ends \/ x = n + 1
  BY <1>1
<1>3. DOMAIN ends \subseteq DOMAIN g /\ n + 1 \in DOMAIN g
  BY <1>1
<1>4. ASSUME NEW x
      PROVE  (x \in DOMAIN g /\ g[x] = "pending") <=> (x \in DOMAIN ends /\ ends[x] = "pending")
  BY <1>1, <1>2, <1>3
<1>5. Fated(sc, g)
  BY <1>4 DEF Fated
<1> QED BY <1>5 DEF g

(* The closures that a future takes with it: what they wrote was pending, and
   what the others wrote still is.                                          *)
LEMMA FatedWithout ==
    ASSUME scopes \in Seq(Scope), NEW k \in 0..Len(scopes), NEW ends, Fated(scopes, ends),
           NEW f, f # "pending"
    PROVE  /\ \A x \in WroteByLast(k) : x \in DOMAIN ends /\ ends[x] = "pending"
           /\ k = Len(scopes) => \A x \in DOMAIN ends : ends[x] = "pending" => x \in WroteByLast(k)
           /\ Fated(Without(k), Settle(ends, WroteByLast(k), f))
<1> DEFINE n == Len(scopes)
           m == Len(scopes) - k
           last == WroteByLast(k)
           tc == Without(k)
           e == Settle(ends, last, f)
<1>1. n \in Nat /\ m \in 0..n
  BY LenProperties
<1>2. tc \in Seq(Scope) /\ Len(tc) = m /\ \A i \in 1..m : tc[i] = scopes[i]
  BY WithoutLast
<1>3. DOMAIN e = DOMAIN ends /\ \A x \in DOMAIN ends : e[x] = IF x \in last THEN f ELSE ends[x]
  BY SettleIs
<1>4. /\ \A i, j \in 1..n : i # j => scopes[i].wrote \cap scopes[j].wrote = {}
      /\ \A x : x \in Works(scopes)[n] <=> x \in DOMAIN ends /\ ends[x] = "pending"
  BY DEF Fated
<1>5. \A x : x \in last <=> \E i \in (m + 1)..n : x \in scopes[i].wrote
  BY DEF WroteByLast
<1>k. k = n => m = 0
  BY <1>1
<1> HIDE DEF n, m, last, tc, e
<1>6. /\ m \in Nat /\ \A i \in 1..n : i \in 1..m \/ i \in (m + 1)..n
      /\ \A i \in 1..m : i \in 1..n /\ i \notin (m + 1)..n
      /\ \A i \in (m + 1)..n : i \in 1..n /\ i \notin 1..m
  BY <1>1
<1>7. \A x : x \in Works(scopes)[n] <=> \E i \in 1..n : x \in scopes[i].wrote
  BY <1>1, WorksOf
<1>8. \A x : x \in Works(tc)[m] <=> \E i \in 1..m : x \in scopes[i].wrote
  <2>1. \A x : x \in Works(tc)[m] <=> \E i \in 1..m : x \in tc[i].wrote
    BY <1>6, WorksOf
  <2> QED BY <1>2, <2>1
<1>9. \A x \in last : x \in Works(scopes)[n] /\ x \notin Works(tc)[m]
  <2> SUFFICES ASSUME NEW x \in last PROVE x \in Works(scopes)[n] /\ x \notin Works(tc)[m]
    OBVIOUS
  <2>1. PICK i \in (m + 1)..n : x \in scopes[i].wrote
    BY <1>5
  <2>2. ASSUME NEW j \in 1..m PROVE x \notin scopes[j].wrote
    <3>1. i \in 1..n /\ j \in 1..n /\ i # j
      BY <1>6
    <3> QED BY <1>4, <2>1, <3>1
  <2> QED BY <1>6, <1>7, <1>8, <2>1, <2>2
<1>10. \A x \in Works(scopes)[n] : x \in last \/ x \in Works(tc)[m]
  BY <1>5, <1>6, <1>7, <1>8
<1>11. \A x \in Works(tc)[m] : x \in Works(scopes)[n]
  BY <1>6, <1>7, <1>8
<1>12. ASSUME NEW x PROVE x \in Works(tc)[m] <=> x \in DOMAIN e /\ e[x] = "pending"
  BY <1>3, <1>4, <1>9, <1>10, <1>11
<1>13. \A i, j \in 1..m : i # j => tc[i].wrote \cap tc[j].wrote = {}
  BY <1>2, <1>4, <1>6
<1>14. Fated(tc, e)
  BY <1>2, <1>12, <1>13 DEF Fated
<1>15. m = 0 => \A x \in Works(scopes)[n] : x \in last
  BY <1>1, <1>5, <1>7
<1>16. \A x \in last : x \in DOMAIN ends /\ ends[x] = "pending"
  BY <1>4, <1>9
<1>17. k = n => \A x \in DOMAIN ends : ends[x] = "pending" => x \in last
  BY <1>4, <1>15, <1>k
<1> QED BY <1>14, <1>16, <1>17 DEF n, last, tc, e

(* All of the closures but the test transaction.                            *)
LEMMA ClosuresIs ==
    ASSUME scopes \in Seq(Scope), OneTest(scopes)
    PROVE  Closures = IF OnTest(scopes) THEN Len(scopes) - 1 ELSE Len(scopes)
<1> DEFINE n == Len(scopes)
           T == {i \in DOMAIN scopes : ~scopes[i].test}
<1>1. n \in Nat /\ DOMAIN scopes = 1..n
  BY LenProperties
<1> HIDE DEF n
<1>2. CASE OnTest(scopes)
  <2>1. n > 0 /\ scopes[1].test
    BY <1>2 DEF OnTest, n
  <2>2. \A i \in 1..n : i # 1 => ~scopes[i].test
    BY DEF OneTest, n
  <2>3. T = 2..n
    BY <1>1, <2>1, <2>2
  <2>4. Cardinality(2..n) = n - 1
    BY <1>1, <2>1, FS_Interval
  <2> QED BY <1>2, <2>3, <2>4 DEF Closures, n
<1>3. CASE ~OnTest(scopes)
  <2>1. \A i \in 1..n : ~scopes[i].test
    BY <1>1, <1>3 DEF OnTest, OneTest, n
  <2>2. T = 1..n
    BY <1>1, <2>1
  <2>3. Cardinality(1..n) = n
    BY <1>1, FS_Interval
  <2> QED BY <1>3, <2>2, <2>3 DEF Closures, n
<1> QED BY <1>2, <1>3

-------------------------------------------------------------------------------
(* The invariant.                                                           *)

(* Whole tasks are dropped, a pool asks for the flag, and no deadlock ends a
   transaction that the closure goes on with.                               *)
Undoes == Dialect \in {"Pg", "Turso"} /\ CancelWhole /\ Pool # "mobc"

(* The COMMIT of the outermost closure failed and a ROLLBACK is on its way;
   Unheard: nobody knows whether that COMMIT ran.                           *)
Mending == call.op = "repair" /\ Len(scopes) = 1
Unheard == Mending /\ call.error = "lost"

(* Nobody holds the connection: no closure runs, but for a test transaction. *)
Left(st, s, sc) == IF Len(sc) = 0 THEN ~st.test ELSE OnTest(sc) /\ Follows(st, s, sc, FALSE)

WorkInv ==
    /\ Sound(conn.session)
    /\ Fated(scopes, fate)
    /\ Accounted(conn.session.durable, fate)
    /\ Unheard => conn.session.txn = "lost"
    /\ ~Unheard => Unsettled(conn.session.durable, fate)
    /\ IF place = "held" THEN Follows(conn.status, conn.session, scopes, Mending)
       ELSE Left(conn.status, conn.session, scopes)

LEMMA InitWorkInv ==
    ASSUME Init
    PROVE  WorkInv
<1>1. /\ conn.status = NoTransaction /\ conn.session = FreshSession
      /\ scopes = <<>> /\ fate = <<>> /\ place = "pool" /\ call = NoCall
  BY DEF Init, NewConn
<1>2. FreshSession \in Session
  BY EmptySeq DEF Session, FreshSession, Txn
<1>3. Sound(FreshSession)
  BY <1>2 DEF Sound, FreshSession
<1>4. Len(scopes) = 0 /\ DOMAIN fate = {}
  BY <1>1
<1>5. Works(scopes)[0] = {}
  BY WorksSplit
<1>6. Fated(scopes, fate)
  BY <1>4, <1>5 DEF Fated
<1>7. Accounted({}, fate) /\ Unsettled({}, fate)
  BY <1>4 DEF Accounted, Unsettled
<1>8. ~Unheard /\ Left(conn.status, conn.session, scopes)
  BY <1>1, <1>4 DEF Unheard, Mending, NoCall, Left, NoTransaction
<1> QED BY <1>1, <1>3, <1>6, <1>7, <1>8 DEF WorkInv, FreshSession

(* A call has ended, and nobody waits for the next.                         *)
LEMMA CallEnds ==
    ASSUME call' = NoCall, place' = "held", Sound(conn'.session), Fated(scopes', fate'),
           Accounted(conn'.session.durable, fate'), Unsettled(conn'.session.durable, fate'),
           Follows(conn'.status, conn'.session, scopes', FALSE)
    PROVE  WorkInv'
<1>1. ~Mending' /\ ~Unheard'
  BY DEF Mending, Unheard, NoCall
<1>2. Mending' = FALSE
  BY <1>1 DEF Mending
<1> QED BY <1>1, <1>2 DEF WorkInv

(* What holds while a call is awaited.                                      *)
LEMMA Awaiting ==
    ASSUME AsyncInv, WorkInv, call # NoCall
    PROVE  /\ place = "held" /\ Follows(conn.status, conn.session, scopes, Mending)
           /\ Sound(conn.session) /\ Fated(scopes, fate) /\ Accounted(conn.session.durable, fate)
           /\ call \in Calls /\ call.stmt \in Stmt /\ call.before = conn.status
           /\ Fits(call.op, call.stmt)
           /\ call.op # "repair" => Follows(conn.status, conn.session, scopes, FALSE)
                                    /\ Unsettled(conn.session.durable, fate)
<1>1. place = "held" /\ call \in Calls /\ call.before = conn.status /\ Fits(call.op, call.stmt)
  BY DEF AsyncInv, InFlight
<1>2. call.stmt \in Stmt
  BY <1>1 DEF Calls
<1>3. call.op # "repair" => Mending = FALSE /\ ~Unheard
  BY DEF Mending, Unheard
<1> QED BY <1>1, <1>2, <1>3 DEF WorkInv

(* Every closure runs in a transaction.                                     *)
LEMMA EngagedCall ==
    ASSUME AsyncInv, WorkInv, call # NoCall, Len(scopes) > 0, ~Mending
    PROVE  Engaged(conn.session)
<1>1. Mending = FALSE
  BY DEF Mending
<1> QED BY <1>1, Awaiting DEF Follows

-------------------------------------------------------------------------------
(* A call that fails leaves the session as it was, aborted, or lost.        *)
LEMMA FailedAnswers ==
    ASSUME Dialect \in {"Pg", "Turso"}, NEW s, Sound(s),
           NEW stmt \in Stmt, stmt.op = "savepoint" => Engaged(s),
           stmt.op \in {"begin", "savepoint", "release", "write"},
           NEW a \in Answers(s, stmt), a.res # "ok"
    PROVE  a.session \in {s, AfterError(s)} \/ a.session.txn = "lost"
<1>1. CASE a.res = "lost"
  BY <1>1, SessionAnswers
<1>2. CASE a.res # "lost"
  <2>1. s.txn # "lost" /\ a \in ServerReplies(s, stmt)
    BY <1>2, SessionAnswers
  <2>2. CASE stmt.op = "begin"
    <3>1. a \in BeginReplies(s)
      BY <2>1, <2>2 DEF ServerReplies
    <3> QED BY <2>1, <3>1, BeginAnswers
  <2>3. CASE stmt.op = "savepoint"
    <3>1. a \in SavepointReplies(s, stmt.arg)
      BY <2>1, <2>3 DEF ServerReplies
    <3> QED BY <2>1, <2>3, <3>1, SavepointAnswers
  <2>4. CASE stmt.op = "release"
    <3>1. a \in ReleaseReplies(s, stmt.arg)
      BY <2>1, <2>4 DEF ServerReplies
    <3> QED BY <2>1, <3>1, ReleaseAnswers
  <2>5. CASE stmt.op = "write"
    <3>1. a \in WriteReplies(s, stmt.arg)
      BY <2>1, <2>5 DEF ServerReplies
    <3> QED BY <2>1, <3>1, WriteAnswers
  <2> QED BY <2>2, <2>3, <2>4, <2>5
<1> QED BY <1>1, <1>2

(* What a reply to a call that begins leaves.                               *)
BegunAs(a, test) ==
    /\ a.res = "ok" /\ test \in BOOLEAN /\ (test => scopes = <<>>)
    /\ scopes' = Append(scopes, NewScope(test))
    /\ conn'.status.depth = conn.status.depth + 1
    /\ ~test => conn'.status.test = conn.status.test

LEMMA BeginReplyIs ==
    ASSUME AsyncInv, BeginReply
    PROVE  /\ call # NoCall /\ call.op \in {"begin", "begin_sql", "begin_test"}
           /\ call.stmt = BeginSql(conn.status) /\ call' = NoCall
           /\ place' = "held" /\ fate' = fate
           /\ ~conn.status.in_error /\ ~conn'.status.in_error
           /\ \E a \in Answers(conn.session, call.stmt) :
                 /\ conn'.session = a.session
                 /\ \/ \E test \in BOOLEAN : BegunAs(a, test)
                    \/ /\ a.res # "ok" /\ scopes' = NoteFailure(scopes)
                       /\ conn'.status.depth = conn.status.depth
                       /\ conn'.status.test = conn.status.test
<1>1. call # NoCall /\ call.op \in {"begin", "begin_sql", "begin_test"} /\ Beginning(call.op)
      /\ place = "held"
  BY DEF BeginReply, Awaits, NoCall, Beginning
<1>2. /\ call \in Calls /\ call.stmt = BeginSql(conn.status) /\ ~conn.status.in_error
      /\ (call.op = "begin_test" => scopes = <<>>)
  BY <1>1 DEF AsyncInv, InFlight, Fits
<1>3. PICK r \in Replied(conn) :
       LET after == AfterBegin(r.conn.status, r.res)
           test  == call.op = "begin_test"
       IN IF after.ret = "ok"
          THEN /\ conn' = [r.conn EXCEPT !.status = IF test THEN SetTestTransactionFlag(after.status)
                                                    ELSE after.status]
               /\ scopes' = Append(scopes, NewScope(test))
               /\ UNCHANGED failures
          ELSE /\ conn' = [r.conn EXCEPT !.status = after.status]
               /\ scopes' = NoteFailure(scopes)
               /\ failures' = failures + 1
  BY DEF BeginReply
<1>4. PICK a \in Answers(conn.session, call.stmt) : IsReply(r, a)
  BY <1>2, AsyncTypes, ReplyIs
<1>5. /\ r.conn \in AsyncConn /\ r.conn.status \in Status /\ ~r.conn.status.in_error
      /\ r.conn.status.depth = conn.status.depth /\ r.conn.session = a.session /\ r.res = a.res
      /\ r.conn.status.test = conn.status.test
  BY <1>2, <1>4, AsyncHookIs, AsyncTypes DEF IsReply, Status
<1>6. call' = NoCall /\ place' = "held" /\ fate' = fate
  BY <1>1 DEF BeginReply, Ended
<1>7. CASE r.res = "ok"
  <2> DEFINE test == call.op = "begin_test"
             st == IF test THEN SetTestTransactionFlag(IncreaseDepth(r.conn.status))
                   ELSE IncreaseDepth(r.conn.status)
  <2>1. AfterBegin(r.conn.status, r.res) = Return("ok", IncreaseDepth(r.conn.status))
    BY <1>5, <1>7 DEF AfterBegin
  <2>2. conn' = [r.conn EXCEPT !.status = st] /\ scopes' = Append(scopes, NewScope(test))
    BY <1>3, <2>1 DEF Return
  <2>3. /\ st \in Status /\ ~st.in_error /\ st.depth = conn.status.depth + 1
        /\ ~test => st.test = conn.status.test
    <3> DEFINE up == IncreaseDepth(r.conn.status)
    <3>1. /\ up \in Status /\ IsOpen(up) /\ up.depth = conn.status.depth + 1
          /\ (up.test <=> r.conn.status.test)
          /\ SetTestTransactionFlag(up) \in Status /\ IsOpen(SetTestTransactionFlag(up))
          /\ SetTestTransactionFlag(up).depth = conn.status.depth + 1
      BY <1>5, IncreasedIs
    <3>2. up.test \in BOOLEAN /\ r.conn.status.test \in BOOLEAN
      BY <1>5, <3>1 DEF Status
    <3>3. up.test = conn.status.test
      BY <1>5, <3>1, <3>2
    <3> QED BY <3>1, <3>3 DEF IsOpen
  <2>4. test \in BOOLEAN /\ (test => scopes = <<>>)
    BY <1>2
  <2> HIDE DEF st, test
  <2>5. conn'.status = st /\ conn'.session = a.session
    BY <1>5, <2>2, <2>3 DEF AsyncConn
  <2>6. BegunAs(a, test)
    BY <1>5, <1>7, <2>2, <2>3, <2>4, <2>5 DEF BegunAs
  <2> QED BY <1>1, <1>2, <1>6, <2>3, <2>4, <2>5, <2>6
<1>8. CASE r.res # "ok"
  <2>1. AfterBegin(r.conn.status, r.res) = Return(r.res, r.conn.status)
    BY <1>8 DEF AfterBegin
  <2>2. conn' = [r.conn EXCEPT !.status = r.conn.status] /\ scopes' = NoteFailure(scopes)
    BY <1>3, <1>8, <2>1 DEF Return
  <2>3. conn'.status = r.conn.status /\ conn'.session = a.session
    BY <1>5, <2>2 DEF AsyncConn
  <2> QED BY <1>1, <1>2, <1>5, <1>6, <1>8, <2>2, <2>3
<1> QED BY <1>7, <1>8

LEMMA BeginReplyWork ==
    ASSUME Undoes, AsyncInv, Tidy, WorkInv, BeginReply
    PROVE  WorkInv'
<1> DEFINE s == conn.session
           st == conn.status
<1>1. /\ call # NoCall /\ call.op \in {"begin", "begin_sql", "begin_test"}
      /\ call.stmt = BeginSql(st) /\ call' = NoCall /\ place' = "held" /\ fate' = fate
      /\ ~st.in_error /\ ~conn'.status.in_error
  BY BeginReplyIs
<1>2. PICK a \in Answers(s, call.stmt) :
        /\ conn'.session = a.session
        /\ \/ \E test \in BOOLEAN : BegunAs(a, test)
           \/ /\ a.res # "ok" /\ scopes' = NoteFailure(scopes)
              /\ conn'.status.depth = st.depth
              /\ conn'.status.test = st.test
  BY BeginReplyIs
<1>3. /\ Follows(st, s, scopes, FALSE) /\ Sound(s) /\ Fated(scopes, fate)
      /\ Accounted(s.durable, fate) /\ Unsettled(s.durable, fate)
      /\ call.stmt \in Stmt /\ st \in Status /\ scopes \in Seq(Scope) /\ Len(scopes) \in Nat
      /\ Dialect \in {"Pg", "Turso"}
  BY <1>1, Awaiting, AsyncTypes DEF Undoes
<1>4. Len(scopes) = 0 => st.depth = 0
  BY <1>1, <1>3 DEF Follows, OnTest
<1>5. call.stmt.op \in {"begin", "savepoint"} /\ (call.stmt.op = "savepoint" => st.depth > 0)
  BY <1>1, <1>3 DEF BeginSql, TransactionSql, Status
<1>6. call.stmt.op = "savepoint" => Engaged(s)
  BY <1>3, <1>4, <1>5 DEF Follows
<1>7. Sound(a.session) /\ a.session.durable = s.durable
  BY <1>3, <1>5, <1>6, SessionAnswers DEF Keeps, Commits, Autocommits
<1>8. ASSUME NEW test \in BOOLEAN, BegunAs(a, test) PROVE WorkInv'
  <2>1. Len(scopes) = 0 => Quiet(s)
    <3>1. CutOff
      BY <1>1 DEF CutOff, Critical
    <3> QED BY <1>1, <1>4, <3>1 DEF Tidy, Idle
  <2>2. Follows(conn'.status, a.session, Append(scopes, NewScope(test)), FALSE)
    BY <1>1, <1>3, <1>8, <2>1, FollowsOpened DEF BegunAs
  <2>3. Fated(scopes', fate)
    BY <1>3, <1>8, FatedOpened DEF BegunAs
  <2> QED BY <1>1, <1>2, <1>3, <1>7, <1>8, <2>2, <2>3, CallEnds DEF BegunAs
<1>9. ASSUME a.res # "ok", scopes' = NoteFailure(scopes),
             conn'.status.depth = st.depth, conn'.status.test = st.test
      PROVE  WorkInv'
  <2>1. a.session \in {s, AfterError(s)} \/ a.session.txn = "lost"
    BY <1>3, <1>5, <1>6, <1>9, FailedAnswers
  <2>2. /\ scopes' \in Seq(Scope) /\ Len(scopes') = Len(scopes)
        /\ \A i \in 1..Len(scopes) : scopes'[i].wrote = scopes[i].wrote /\ scopes'[i].test = scopes[i].test
    BY <1>3, <1>9, ScopesType, NoteFailureIs
  <2>3. conn'.status.in_error = st.in_error
    <3>1. conn' \in AsyncConn
      BY BeginReplyStep DEF AsyncInv, TypeOK
    <3> QED BY <1>1, <1>3, <3>1 DEF AsyncConn, Status
  <2>4. Follows(conn'.status, a.session, scopes', FALSE)
    BY <1>3, <1>7, <1>9, <2>1, <2>2, <2>3, FollowsNoted
  <2>5. Fated(scopes', fate)
    BY <1>3, <2>2, FatedAgain
  <2> QED BY <1>1, <1>2, <1>3, <1>7, <2>4, <2>5, CallEnds
<1> QED BY <1>2, <1>8, <1>9

LEMMA WriteReplyWork ==
    ASSUME Undoes, AsyncInv, WorkInv, WriteReply
    PROVE  WorkInv'
<1> DEFINE s == conn.session
           st == conn.status
           n == Len(fate) + 1
<1>1. call # NoCall /\ call.op = "write" /\ place = "held"
  BY DEF WriteReply, Awaits, NoCall
<1>2. /\ Follows(st, s, scopes, FALSE) /\ Sound(s) /\ Fated(scopes, fate)
      /\ Accounted(s.durable, fate) /\ Unsettled(s.durable, fate)
      /\ call \in Calls /\ call.stmt \in Stmt /\ st \in Status
      /\ scopes \in Seq(Scope) /\ Len(scopes) \in Nat /\ fate \in Seq(Fates)
      /\ Dialect \in {"Pg", "Turso"}
  BY <1>1, Awaiting, AsyncTypes DEF Undoes
<1>3. call.stmt = Write(n, "query") /\ n \in Items /\ n \in Nat
  <2>1. Fits(call.op, call.stmt)
    BY <1>1, Awaiting
  <2>2. call.stmt = Write(n, "query") /\ Len(fate) < MaxWrites
    BY <1>1, <2>1 DEF Fits
  <2> QED BY <2>2, AsyncTypes, BoundsAssumption DEF Items
<1>4. call.stmt.op = "write" /\ call.stmt.arg = n
  BY <1>3 DEF Write
<1>5. PICK r \in Replied(conn) :
       /\ conn' = r.conn
       /\ IF r.res = "ok"
          THEN /\ fate' = Append(fate, IF InScope THEN "pending" ELSE "auto")
               /\ scopes' = IF ~InScope THEN scopes ELSE
                            [scopes EXCEPT ![Len(scopes)].wrote = @ \cup {call.stmt.arg}]
               /\ UNCHANGED failures
          ELSE /\ scopes' = NoteFailure(scopes) /\ failures' = failures + 1
               /\ fate' = IF r.res = "lost" THEN Append(fate, "unknown") ELSE fate
  BY DEF WriteReply
<1>6. PICK a \in Answers(s, call.stmt) : IsReply(r, a)
  BY <1>2, AsyncTypes, ReplyIs
<1>7. conn'.session = a.session /\ r.res = a.res /\ call' = NoCall /\ place' = "held"
  BY <1>1, <1>5, <1>6 DEF IsReply, WriteReply, Ended
<1>8. /\ conn'.status.in_error = st.in_error /\ conn'.status.depth = st.depth
      /\ conn'.status.test = st.test
  BY <1>2, <1>5, <1>6, AsyncHookIs, AsyncTypes DEF IsReply, Status
<1>9. /\ Sound(a.session) /\ (a.session.txn = "lost" <=> a.res = "lost")
      /\ Keeps(s, a) \/ Autocommits(s, call.stmt, a)
      /\ (Engaged(s) => Engaged(a.session))
      /\ a.res # "lost" => s.txn # "lost" /\ a \in ServerReplies(s, call.stmt)
  BY <1>2, <1>4, SessionAnswers DEF Commits
<1>10. Len(scopes) > 0 => Engaged(s) /\ Keeps(s, a)
  BY <1>2, <1>9 DEF Follows, Engaged, Autocommits
<1>11. CASE a.res = "ok"
  <2>1. s.txn \in {"idle", "open"} /\ a.session = Written(s, n)
    <3>1. a \in WriteReplies(s, n) /\ s.txn # "lost"
      BY <1>4, <1>9, <1>11 DEF ServerReplies
    <3> QED BY <1>2, <1>11, <3>1, WriteAnswers
  <2>2. CASE Len(scopes) > 0
    <3>1. fate' = Append(fate, "pending") /\ scopes' = WroteTop(scopes, n)
      BY <1>4, <1>5, <1>7, <1>11, <2>2 DEF InScope, WroteTop
    <3>2. Follows(conn'.status, a.session, scopes', FALSE)
      BY <1>2, <1>3, <1>8, <2>1, <2>2, <3>1, FollowsWritten
    <3>3. Fated(scopes', fate')
      BY <1>2, <1>3, <2>2, <3>1, FatedWritten
    <3>4. Accounted(a.session.durable, fate') /\ Unsettled(a.session.durable, fate')
      BY <1>2, <1>10, <2>2, <3>1, AccountedSent DEF Keeps
    <3> QED BY <1>7, <1>9, <3>2, <3>3, <3>4, CallEnds
  <2>3. CASE Len(scopes) = 0
    <3>1. fate' = Append(fate, "auto") /\ scopes' = scopes
      BY <1>5, <1>7, <1>11, <2>3 DEF InScope
    <3>2. Follows(conn'.status, a.session, scopes', FALSE)
      <4>1. Follows(conn'.status, Written(s, n), scopes, FALSE)
        BY <1>2, <1>3, <1>8, <2>1, <2>3, FollowsWritten
      <4>2. a.session = Written(s, n)
        BY <2>1
      <4> HIDE DEF s
      <4> QED BY <3>1, <4>1, <4>2
    <3>3. Fated(scopes', fate')
      BY <1>2, <3>1, FatedSent
    <3>4. a.session.durable = s.durable \/ a.session.durable = s.durable \cup {n}
      BY <1>4, <1>9 DEF Keeps, Autocommits
    <3>5. Accounted(a.session.durable, fate') /\ Unsettled(a.session.durable, fate')
      BY <1>2, <3>1, <3>4, AccountedSent
    <3> QED BY <1>7, <1>9, <3>2, <3>3, <3>5, CallEnds
  <2> QED BY <1>2, <2>2, <2>3
<1>12. CASE a.res # "ok"
  <2>1. a.session \in {s, AfterError(s)} \/ a.session.txn = "lost"
    BY <1>2, <1>4, <1>12, FailedAnswers
  <2>2. scopes' = NoteFailure(scopes) /\ fate' = IF a.res = "lost" THEN Append(fate, "unknown") ELSE fate
    BY <1>5, <1>7, <1>12
  <2>3. /\ scopes' \in Seq(Scope) /\ Len(scopes') = Len(scopes)
        /\ \A i \in 1..Len(scopes) : scopes'[i].wrote = scopes[i].wrote /\ scopes'[i].test = scopes[i].test
    BY <1>2, <2>2, ScopesType, NoteFailureIs
  <2>4. Follows(conn'.status, a.session, scopes', FALSE)
    BY <1>2, <1>8, <1>9, <2>1, <2>3, FollowsNoted
  <2>5. Fated(scopes', fate)
    BY <1>2, <2>3, FatedAgain
  <2>6. CASE a.res = "lost"
    <3>1. fate' = Append(fate, "unknown")
      BY <2>2, <2>6
    <3>2. Fated(scopes', fate')
      BY <1>2, <2>3, <2>5, <3>1, FatedSent
    <3>3. a.session.durable = s.durable \/ a.session.durable = s.durable \cup {n}
      BY <1>4, <1>9 DEF Keeps, Autocommits
    <3>4. Accounted(a.session.durable, fate') /\ Unsettled(a.session.durable, fate')
      BY <1>2, <3>1, <3>3, AccountedSent
    <3> QED BY <1>7, <1>9, <2>4, <3>2, <3>4, CallEnds
  <2>7. CASE a.res # "lost"
    <3>1. fate' = fate /\ a.session.durable = s.durable
      BY <1>9, <1>12, <2>2, <2>7 DEF Keeps, Autocommits
    <3> QED BY <1>2, <1>7, <1>9, <2>4, <2>5, <3>1, CallEnds
  <2> QED BY <2>6, <2>7
<1> QED BY <1>11, <1>12

-------------------------------------------------------------------------------
(* transaction() returns Err: its writes are not durable, unless nobody knows
   whether the outermost COMMIT ran.                                        *)
LEMMA FailsWork ==
    ASSUME AsyncInv, WorkInv, place = "held", Len(scopes) > 0, ~TopScope.test, NEW ret, Fails(ret),
           call' = NoCall, NEW t, Sound(t), conn'.session = t,
           t.durable = conn.session.durable
             \/ (Len(scopes) = 1 /\ ret = "lost"
                 /\ t.durable = conn.session.durable \cup TopScope.wrote),
           Unheard => ret = "lost",
           conn'.status.test => conn.status.test,
           ~conn'.status.in_error => ~conn.status.in_error /\ conn'.status.depth = conn.status.depth - 1,
           Len(scopes) > 1 => Engaged(t),
           Len(scopes) > 1 /\ ~OnTest(scopes) /\ ~conn'.status.in_error => Held(t, Inner(scopes))
    PROVE  WorkInv'
<1> DEFINE n == Len(scopes)
           s == conn.session
           top == TopScope.wrote
           f == IF n = 1 /\ ret = "lost" THEN "unknown" ELSE "dropped"
<1>1. /\ Follows(conn.status, s, scopes, Mending) /\ Fated(scopes, fate)
      /\ Accounted(s.durable, fate) /\ (~Unheard => Unsettled(s.durable, fate))
      /\ scopes \in Seq(Scope) /\ conn.status.depth \in Nat /\ n \in Nat
  BY AsyncTypes DEF WorkInv, Status
<1>2. /\ scopes' = Inner(scopes) /\ fate' = Settle(fate, top, f) /\ place' = "held"
  BY DEF Fails
<1>3. /\ scopes' \in Seq(Scope) /\ Len(scopes') = n - 1
      /\ \A i \in 1..(n - 1) : scopes'[i].test = scopes[i].test
  <2>1. scopes # <<>>
    BY EmptySeq
  <2>2. Inner(scopes) \in Seq(Scope)
    BY <1>1, <2>1, ScopesType
  <2>3. Len(Inner(scopes)) = n - 1 /\ \A i \in 1..(n - 1) : Inner(scopes)[i] = scopes[i]
    BY <1>1, InnerIs
  <2> QED BY <1>2, <2>2, <2>3
<1>4. Follows(conn'.status, t, scopes', FALSE)
  <2>1. ~scopes[Len(scopes)].test
    BY DEF TopScope
  <2>2. Len(scopes) > 1 /\ ~OnTest(scopes) /\ ~conn'.status.in_error => Held(t, scopes')
    BY <1>2
  <2> QED BY <1>1, <1>3, <2>1, <2>2, FollowsLess
<1>5. Fated(scopes', fate')
  BY <1>1, <1>2, FatedEnded DEF TopScope
<1>6. /\ \A x \in top : x \in DOMAIN fate /\ fate[x] = "pending"
      /\ n = 1 => \A x \in DOMAIN fate : fate[x] = "pending" => x \in top
  BY <1>1, TopIsPending DEF TopScope
<1>7. f \in {"unknown", "dropped"} /\ (f = "unknown" <=> n = 1 /\ ret = "lost")
  OBVIOUS
<1>8. Unheard => n = 1 /\ f = "unknown"
  BY <1>7 DEF Unheard, Mending
<1>9. f = "dropped" => top \cap t.durable = {}
  <2> SUFFICES ASSUME f = "dropped" PROVE top \cap t.durable = {}
    OBVIOUS
  <2>1. t.durable = s.durable /\ ~Unheard
    BY <1>7, <1>8
  <2> QED BY <1>1, <1>6, <2>1 DEF Unsettled
<1>10. s.durable \subseteq t.durable /\ t.durable \subseteq s.durable \cup top
  OBVIOUS
<1>11. Unsettled(s.durable, fate) \/ \A x \in DOMAIN fate : fate[x] = "pending" => x \in top
  BY <1>1, <1>6, <1>8
<1> HIDE DEF f, top, s, n
<1>12. Accounted(t.durable, fate') /\ Unsettled(t.durable, fate')
  BY <1>1, <1>2, <1>6, <1>7, <1>9, <1>10, <1>11, AccountedSettled
<1> QED BY <1>2, <1>4, <1>5, <1>12, CallEnds

-------------------------------------------------------------------------------
(* ROLLBACK and ROLLBACK TO.                                                *)

LEMMA TestStays ==
    ASSUME NEW st \in Status, IsOpen(st)
    PROVE  /\ DecreaseDepth(st).test => st.test
           /\ \A res, k : RollsBackTo(st, res, k) /\ k.status.test => st.test
<1>1. DecreaseDepth(st).test => st.test
  BY DEF DecreaseDepth, Status, NoTransaction
<1>2. ASSUME NEW res, NEW k, RollsBackTo(st, res, k), k.status.test PROVE st.test
  <2>1. CASE k = Return("ok", DecreaseDepth(st))
    BY <1>1, <1>2, <2>1 DEF Return
  <2>2. CASE k.status = [st EXCEPT !.depth = @ - 1, !.requires_rollback = TRUE]
    BY <1>2, <2>2 DEF Status
  <2>3. CASE k = Return(res, InError)
    BY <1>2, <2>3 DEF Return, InError, NoTransaction
  <2> QED BY <1>2, <2>1, <2>2, <2>3 DEF RollsBackTo
<1> QED BY <1>1, <1>2

(* The answer to a rollback keeps what is durable, and undoes the closure.  *)
LEMMA RollbackWork ==
    ASSUME Undoes, AsyncInv, WorkInv, call # NoCall, call.op \in {"rollback", "repair"},
           NEW a \in Answers(conn.session, call.stmt)
    PROVE  /\ Sound(a.session) /\ a.session.durable = conn.session.durable
           /\ Unheard => a.res = "lost"
           /\ Len(scopes) > 1 => Engaged(a.session)
           /\ Len(scopes) > 1 /\ ~OnTest(scopes) => Held(a.session, Inner(scopes))
<1> DEFINE s == conn.session
           st == conn.status
           n == Len(scopes)
<1>1. /\ Follows(st, s, scopes, Mending) /\ Sound(s) /\ call.stmt \in Stmt
      /\ st \in Status /\ scopes \in Seq(Scope) /\ n \in Nat /\ Dialect \in {"Pg", "Turso"}
      /\ s \in Session
  BY Awaiting, AsyncTypes DEF Undoes
<1>2. call.stmt = RollbackSql(st) /\ IsOpen(st)
  BY Awaiting DEF Fits, Closing
<1>3. call.stmt.op \in {"rollback", "rollback_to"}
  BY <1>2 DEF RollbackSql, TransactionSql
<1>4. /\ Sound(a.session) /\ a.session.durable = s.durable
      /\ a.res # "lost" => s.txn # "lost" /\ a \in ServerReplies(s, call.stmt)
  BY <1>1, <1>3, SessionAnswers DEF Keeps, Commits, Autocommits
<1>5. Unheard => a.res = "lost"
  BY <1>4 DEF WorkInv
<1>6. ASSUME n > 1
      PROVE  Engaged(a.session) /\ (~OnTest(scopes) => Held(a.session, Inner(scopes)))
  <2>1. Engaged(s)
    <3>1. n > 0 /\ n # 1
      <4>1. n \in Nat
        BY <1>1
      <4> HIDE DEF n
      <4> QED BY <1>6, <4>1
    <3> QED BY <3>1, EngagedCall DEF Mending
  <2>2. st.depth \in Nat /\ st.depth >= n /\ (~OnTest(scopes) => st.depth = n)
    BY <1>1, <1>2 DEF Follows, IsOpen, Status
  <2>3. call.stmt.op = "rollback_to" /\ call.stmt.arg = st.depth - 1
    BY <1>1, <1>2, <1>6, <2>2 DEF RollbackSql, TransactionSql
  <2>4. Engaged(a.session)
    BY <1>1, <2>1, <2>3, SessionAnswers
  <2>5. ASSUME ~OnTest(scopes) PROVE Held(a.session, Inner(scopes))
    <3>1. Held(s, scopes)
      BY <1>1, <1>2, <1>6, <2>5 DEF Follows, IsOpen
    <3>2. CASE a.res = "lost"
      <4>1. a.session.txn = "lost"
        BY <1>1, <2>3, <3>2, SessionAnswers
      <4> QED BY <4>1 DEF Held
    <3>3. CASE a.res # "lost"
      <4>1. s.txn \in {"open", "aborted"}
        BY <1>1, <1>4, <2>1, <3>3, SoundTxn DEF Engaged
      <4>2. SavesAt(s, n - 1) # {} /\ Held(RolledBackTo(s, n - 1), Inner(scopes))
        BY <1>1, <1>6, <3>1, <4>1, HeldRolledBack
      <4>3. a \in RollbackToReplies(s, n - 1)
        BY <1>4, <2>2, <2>3, <2>5, <3>3 DEF ServerReplies
      <4>4. a.session = RolledBackTo(s, n - 1)
        BY <1>1, <4>1, <4>2, <4>3, RollbackToAnswers
      <4> QED BY <4>2, <4>4
    <3> QED BY <3>2, <3>3
  <2> QED BY <2>4, <2>5
<1> QED BY <1>4, <1>5, <1>6

(* The status after a rollback that ends with st.                           *)
LEMMA RolledStatus ==
    ASSUME AsyncInv, call # NoCall, Closing(call.op), NEW r \in Replied(conn),
           NEW k, RollsBackTo(r.conn.status, r.res, k), NEW st \in {k.status, InError},
           conn' = [r.conn EXCEPT !.status = st]
    PROVE  /\ conn'.status = st /\ conn'.session = r.conn.session
           /\ conn'.status.test => conn.status.test
           /\ ~conn'.status.in_error => /\ ~conn.status.in_error
                                        /\ conn'.status.depth = conn.status.depth - 1
<1> DEFINE h == r.conn.status
<1>1. /\ r.conn \in AsyncConn /\ h \in Status /\ IsOpen(h) /\ IsOpen(conn.status)
      /\ h.depth = conn.status.depth
  BY ClosingCall
<1>2. h.test = conn.status.test
  <2>1. PICK a \in Answers(conn.session, call.stmt) : IsReply(r, a)
    BY ClosingCall
  <2>2. (h.test <=> conn.status.test) /\ conn.status \in Status
    BY <2>1, AsyncHookIs, AsyncTypes DEF IsReply
  <2> QED BY <1>1, <2>2 DEF Status
<1>3. conn'.status = st /\ conn'.session = r.conn.session
  BY <1>1 DEF AsyncConn
<1>4. CASE st = k.status
  <2>1. ~k.status.in_error => k.status.depth = h.depth - 1
    BY <1>1, RollbackStatus
  <2>2. k.status.test => h.test
    BY <1>1, TestStays
  <2> QED BY <1>1, <1>2, <1>3, <1>4, <2>1, <2>2 DEF IsOpen
<1>5. CASE st = InError
  BY <1>3, <1>5 DEF InError, NoTransaction
<1> QED BY <1>4, <1>5, <1>3

LEMMA RollbackReplyWork ==
    ASSUME Undoes, AsyncInv, WorkInv, RollbackReply
    PROVE  WorkInv'
<1>1. call # NoCall /\ Closing(call.op) /\ call.op = "rollback" /\ place = "held"
  BY DEF RollbackReply, Awaits, NoCall, Closing
<1>2. PICK r \in Replied(conn) :
         LET after == AfterRollback(call.before, r.conn.status, r.res)
         IN conn' = [r.conn EXCEPT !.status = after.status] /\ Fails(after.ret)
  BY DEF RollbackReply
<1> DEFINE after == AfterRollback(call.before, r.conn.status, r.res)
<1>3. PICK a \in Answers(conn.session, call.stmt) : IsReply(r, a)
  BY <1>1, ClosingCall
<1>4. conn' = [r.conn EXCEPT !.status = after.status] /\ Fails(after.ret) /\ call' = NoCall
  BY <1>2 DEF RollbackReply
<1>5. RollsBackTo(r.conn.status, r.res, after) /\ Len(scopes) > 0 /\ ~TopScope.test
  BY <1>1, ClosingCall, RollbackIs
<1> HIDE DEF after
<1>6. /\ conn'.session = a.session
      /\ conn'.status.test => conn.status.test
      /\ ~conn'.status.in_error => ~conn.status.in_error /\ conn'.status.depth = conn.status.depth - 1
  BY <1>1, <1>3, <1>4, <1>5, RolledStatus DEF IsReply
<1>7. /\ Sound(a.session) /\ a.session.durable = conn.session.durable
      /\ Len(scopes) > 1 => Engaged(a.session)
      /\ Len(scopes) > 1 /\ ~OnTest(scopes) => Held(a.session, Inner(scopes))
  BY <1>1, <1>3, RollbackWork
<1>8. ~Unheard
  BY <1>1 DEF Unheard, Mending
<1> QED BY <1>1, <1>4, <1>5, <1>6, <1>7, <1>8, FailsWork

LEMMA RepairReplyWork ==
    ASSUME Undoes, AsyncInv, WorkInv, RepairReply
    PROVE  WorkInv'
<1>1. call # NoCall /\ Closing(call.op) /\ call.op = "repair" /\ place = "held"
  BY DEF RepairReply, Awaits, NoCall, Closing
<1>2. PICK r \in Replied(conn) :
         LET after == AfterRollback(call.before, r.conn.status, r.res)
         IN IF after.ret = "ok"
            THEN conn' = [r.conn EXCEPT !.status = after.status] /\ Fails(call.error)
            ELSE conn' = [r.conn EXCEPT !.status = InError] /\ Fails(r.res)
  BY DEF RepairReply
<1> DEFINE after == AfterRollback(call.before, r.conn.status, r.res)
<1>3. PICK a \in Answers(conn.session, call.stmt) : IsReply(r, a)
  BY <1>1, ClosingCall
<1>4. PICK st \in {after.status, InError}, ret \in {call.error, r.res} :
        conn' = [r.conn EXCEPT !.status = st] /\ Fails(ret)
  BY <1>2
<1>5. RollsBackTo(r.conn.status, r.res, after) /\ Len(scopes) > 0 /\ ~TopScope.test
  BY <1>1, ClosingCall, RollbackIs
<1> HIDE DEF after
<1>6. /\ conn'.session = a.session
      /\ conn'.status.test => conn.status.test
      /\ ~conn'.status.in_error => ~conn.status.in_error /\ conn'.status.depth = conn.status.depth - 1
  BY <1>1, <1>3, <1>4, <1>5, RolledStatus DEF IsReply
<1>7. /\ Sound(a.session) /\ a.session.durable = conn.session.durable
      /\ Unheard => a.res = "lost"
      /\ Len(scopes) > 1 => Engaged(a.session)
      /\ Len(scopes) > 1 /\ ~OnTest(scopes) => Held(a.session, Inner(scopes))
  BY <1>1, <1>3, RollbackWork
<1>8. Unheard => ret = "lost"
  BY <1>3, <1>4, <1>7 DEF Unheard, IsReply
<1>9. call' = NoCall
  BY DEF RepairReply
<1> QED BY <1>1, <1>4, <1>5, <1>6, <1>7, <1>8, <1>9, FailsWork

-------------------------------------------------------------------------------
(* COMMIT and RELEASE.                                                      *)

(* What a reply to the commit of the outermost closure makes durable.       *)
CommitsTop(a) ==
    LET s   == conn.session
        all == s.durable \cup TopScope.wrote
    IN \/ a.res \in {"ok", "lost"} /\ a.session.durable = all
       \/ a.res = "ok" /\ Dialect = "Pg" /\ a.session.durable = s.durable
       \/ a.res = "lost" /\ a.session.durable = s.durable
       \/ a.res \notin {"ok", "lost"} /\ a.session \in {s, Closed(s)}

LEMMA CommitFinds ==
    ASSUME Undoes, AsyncInv, WorkInv, call # NoCall, call.op = "commit"
    PROVE  /\ Follows(conn.status, conn.session, scopes, FALSE) /\ Sound(conn.session)
           /\ Fated(scopes, fate) /\ Accounted(conn.session.durable, fate)
           /\ Unsettled(conn.session.durable, fate)
           /\ Engaged(conn.session) /\ Len(scopes) > 0 /\ ~TopScope.test /\ ~Unheard
           /\ conn.status \in Status /\ IsOpen(conn.status) /\ conn.session \in Session
           /\ scopes \in Seq(Scope) /\ Len(scopes) \in Nat /\ Dialect \in {"Pg", "Turso"}
           /\ call.stmt \in Stmt /\ call.stmt = CommitSql(conn.status) /\ place = "held"
<1>1. ~Mending /\ ~Unheard
  BY DEF Mending, Unheard
<1>2. /\ IsOpen(conn.status) /\ Len(scopes) > 0 /\ ~TopScope.test
      /\ call.stmt = CommitSql(conn.status)
  BY Awaiting DEF Fits, Closing
<1>3. Engaged(conn.session)
  BY <1>1, <1>2, EngagedCall
<1> QED BY <1>1, <1>2, <1>3, Awaiting, AsyncTypes DEF Undoes

LEMMA CommitTop ==
    ASSUME Undoes, AsyncInv, WorkInv, call # NoCall, call.op = "commit",
           NEW a \in Answers(conn.session, call.stmt), Len(scopes) = 1
    PROVE  /\ Sound(a.session) /\ (a.session.txn = "lost" <=> a.res = "lost")
           /\ ~OnTest(scopes) /\ CommitsTop(a)
<1> DEFINE s == conn.session
<1>1. ~OnTest(scopes) /\ conn.status.depth = 1
  BY CommitFinds DEF TopScope, OnTest, Follows, IsOpen
<1>2. call.stmt.op = "commit" /\ call.stmt \in Stmt
  BY <1>1, CommitFinds DEF CommitSql, TransactionSql
<1>3. /\ Sound(a.session) /\ (a.session.txn = "lost" <=> a.res = "lost")
      /\ a.session.durable = s.durable \/ (s.txn = "open" /\ a.session.durable = s.durable \cup s.work)
      /\ a.res # "lost" => s.txn # "lost" /\ a \in ServerReplies(s, call.stmt)
  BY <1>2, CommitFinds, SessionAnswers DEF Keeps, Commits, Autocommits
<1>4. s.txn = "open" => s.work = TopScope.wrote
  <2>1. Works(scopes)[0] = {} /\ Works(scopes)[1] = Works(scopes)[0] \cup scopes[0 + 1].wrote
    BY WorksSplit
  <2>2. Works(scopes)[1] = TopScope.wrote
    BY <2>1 DEF TopScope
  <2> QED BY <1>1, <2>2, CommitFinds DEF Follows, Held, Holds, IsOpen
<1>5. ASSUME a.res = "lost" PROVE CommitsTop(a)
  BY <1>3, <1>4, <1>5 DEF CommitsTop
<1>6. ASSUME a.res # "lost" PROVE CommitsTop(a)
  <2>1. a \in CommitReplies(s) /\ s.txn \in {"open", "aborted"}
    BY <1>2, <1>3, <1>6, CommitFinds, SoundTxn DEF ServerReplies, Engaged
  <2>2. CASE a.res = "ok" /\ s.txn = "open" /\ a.session = Committed(s)
    <3>1. a.session.durable = s.durable \cup s.work
      BY <2>2, CommitFinds, LostSessions
    <3>2. a.session.durable = s.durable \cup TopScope.wrote
      BY <1>4, <2>2, <3>1
    <3> QED BY <2>2, <3>2 DEF CommitsTop
  <2>3. CASE a.res = "ok" /\ s.txn = "aborted" /\ a.session = Closed(s)
    BY <2>3, CommitFinds, LostSessions DEF CommitsTop, Sound
  <2>4. CASE a.res \notin {"ok", "lost"} /\ a.session \in {s, Closed(s)}
    BY <2>4 DEF CommitsTop
  <2> QED BY <1>3, <1>6, <2>1, <2>2, <2>3, <2>4, CommitFinds, CommitAnswers
<1> QED BY <1>1, <1>3, <1>5, <1>6

LEMMA CommitNested ==
    ASSUME Undoes, AsyncInv, WorkInv, call # NoCall, call.op = "commit",
           NEW a \in Answers(conn.session, call.stmt), Len(scopes) > 1
    PROVE  /\ Sound(a.session) /\ a.session.durable = conn.session.durable /\ Engaged(a.session)
           /\ a.res = "ok" /\ ~OnTest(scopes) => Held(a.session, Merge(scopes))
           /\ a.res # "ok" /\ ~OnTest(scopes) => Held(a.session, Inner(scopes))
           /\ a.res # "ok" => a.session \in {conn.session, AfterError(conn.session)}
                              \/ a.session.txn = "lost"
<1> DEFINE s == conn.session
           n == Len(scopes)
           level == conn.status.depth - 1
<1>1. conn.status.depth \in Nat /\ conn.status.depth >= n /\ (~OnTest(scopes) => conn.status.depth = n)
  BY CommitFinds DEF Follows, IsOpen, Status
<1>2. call.stmt.op = "release" /\ call.stmt.arg = level /\ call.stmt \in Stmt
  BY <1>1, CommitFinds DEF CommitSql, TransactionSql
<1>3. /\ Sound(a.session) /\ (a.session.txn = "lost" <=> a.res = "lost")
      /\ a.session.durable = s.durable /\ Engaged(a.session)
      /\ a.res # "lost" => s.txn # "lost" /\ a \in ReleaseReplies(s, level)
  BY <1>2, CommitFinds, SessionAnswers DEF Keeps, Commits, Autocommits, ServerReplies
<1>4. a.res # "ok" => a.session \in {s, AfterError(s)} \/ a.session.txn = "lost"
  BY <1>2, CommitFinds, FailedAnswers
<1>5. ASSUME ~OnTest(scopes)
      PROVE  IF a.res = "ok" THEN Held(a.session, Merge(scopes)) ELSE Held(a.session, Inner(scopes))
  <2>1. Held(s, scopes) /\ level = n - 1
    BY <1>1, <1>5, CommitFinds DEF Follows, IsOpen
  <2>2. CASE a.res = "lost"
    <3>1. a.session.txn = "lost"
      BY <1>3, <2>2
    <3> QED BY <2>2, <3>1 DEF Held
  <2>3. CASE a.res = "ok"
    <3>1. s.txn = "open" /\ a.session = Released(s, n - 1)
      BY <1>3, <2>1, <2>3, CommitFinds, ReleaseAnswers
    <3> QED BY <2>1, <2>3, <3>1, CommitFinds, HeldReleased
  <2>4. CASE a.res \notin {"ok", "lost"}
    <3>1. (s.txn # "open" \/ SavesAt(s, n - 1) = {}) /\ a.session = AfterError(s) /\ s.txn # "lost"
      BY <1>3, <2>1, <2>4, CommitFinds, ReleaseAnswers
    <3>2. s.txn # "open"
      BY <2>1, <3>1, CommitFinds, HeldReleased
    <3>3. s.txn = "aborted"
      BY <3>1, <3>2, CommitFinds, SoundTxn DEF Engaged
    <3>4. a.session = s
      BY <3>1, <3>2, CommitFinds, ErrorMoves
    <3>5. Held(s, Inner(scopes))
      BY <2>1, <3>3, CommitFinds, HeldAborted
    <3> QED BY <2>4, <3>4, <3>5
  <2> QED BY <2>2, <2>3, <2>4
<1> QED BY <1>3, <1>4, <1>5

(* A RELEASE that fails, and the rollback that follows.                     *)
LEMMA FollowsFailed ==
    ASSUME NEW st, NEW s, Sound(s), NEW sc \in Seq(Scope), NEW m, Follows(st, s, sc, m),
           NEW k, k.in_error = st.in_error, k.depth = st.depth, k.test = st.test,
           NEW t, Sound(t), t \in {s, AfterError(s)} \/ t.txn = "lost"
    PROVE  Follows(k, t, sc, m)
<1>1. \A i \in 1..Len(sc) : sc[i].wrote = sc[i].wrote /\ sc[i].test = sc[i].test
  OBVIOUS
<1>2. Len(sc) = Len(sc)
  OBVIOUS
<1> QED BY <1>1, <1>2, FollowsNoted

LEMMA CommitReplyWork ==
    ASSUME Undoes, AsyncInv, WorkInv, CommitReply
    PROVE  WorkInv'
<1> DEFINE s == conn.session
           top == TopScope.wrote
<1>1. call # NoCall /\ Closing(call.op) /\ call.op = "commit" /\ place = "held"
  BY DEF CommitReply, Awaits, NoCall, Closing
<1>2. PICK r \in Replied(conn) :
       LET st    == r.conn.status
           after == AfterExit(call.before, st)
       IN CASE r.res = "ok" ->
                 /\ conn' = [r.conn EXCEPT !.status = after.status]
                 /\ call' = NoCall
                 /\ IF after.ret = "ok" THEN Succeeds ELSE Fails(after.ret)
            [] r.res # "ok" /\ IsOpen(st) /\ st.requires_rollback ->
                 /\ conn' = EnterBlock(r.conn, "repair")
                 /\ call' = [op |-> "repair", stmt |-> RollbackSql(st), before |-> st, error |-> r.res]
                 /\ UNCHANGED <<scopes, fate, failures, place>>
            [] OTHER ->
                 /\ conn' = [r.conn EXCEPT !.status = GivenUp(st)]
                 /\ call' = NoCall
                 /\ Fails(r.res)
  BY DEF CommitReply
<1>3. PICK a \in Answers(conn.session, call.stmt) : IsReply(r, a)
  BY <1>1, ClosingCall
<1> DEFINE st == r.conn.status
           n == Len(scopes)
<1>4. /\ r.conn \in AsyncConn /\ st \in Status /\ IsOpen(st) /\ st.depth = conn.status.depth
      /\ r.conn.session = a.session /\ r.res = a.res
  BY <1>1, <1>3, ClosingCall DEF IsReply
<1>5. st.test = conn.status.test /\ st.in_error = conn.status.in_error
  <2>1. (st.test <=> conn.status.test) /\ (st.in_error <=> conn.status.in_error)
    BY <1>3, AsyncHookIs, AsyncTypes DEF IsReply
  <2> QED BY <1>4, <2>1, AsyncTypes DEF Status
<1>6. /\ Follows(conn.status, s, scopes, FALSE) /\ Sound(s)
      /\ Fated(scopes, fate) /\ Accounted(s.durable, fate) /\ Unsettled(s.durable, fate)
      /\ n > 0 /\ ~TopScope.test /\ ~Unheard /\ conn.status \in Status /\ conn.status.depth \in Nat
      /\ scopes \in Seq(Scope) /\ n \in Nat /\ Dialect \in {"Pg", "Turso"}
      /\ ~scopes[Len(scopes)].test
  BY <1>1, CommitFinds DEF TopScope, Status
<1>7. /\ n = 1 => Sound(a.session) /\ (a.session.txn = "lost" <=> a.res = "lost")
                  /\ ~OnTest(scopes) /\ CommitsTop(a)
      /\ n > 1 => Sound(a.session) /\ a.session.durable = s.durable /\ Engaged(a.session)
                  /\ (a.res = "ok" /\ ~OnTest(scopes) => Held(a.session, Merge(scopes)))
                  /\ (a.res # "ok" /\ ~OnTest(scopes) => Held(a.session, Inner(scopes)))
                  /\ (a.res # "ok" => a.session \in {s, AfterError(s)} \/ a.session.txn = "lost")
  BY <1>1, CommitTop, CommitNested
<1>8. (n = 1 \/ n > 1) /\ Sound(a.session)
  <2>1. n = 1 \/ n > 1
    <3>1. n \in Nat /\ n > 0
      BY <1>6
    <3> HIDE DEF n
    <3> QED BY <3>1
  <2> QED BY <1>7, <2>1
<1>9. /\ \A x \in top : x \in DOMAIN fate /\ fate[x] = "pending"
      /\ n = 1 => \A x \in DOMAIN fate : fate[x] = "pending" => x \in top
  BY <1>6, TopIsPending DEF TopScope
<1>10. /\ DecreaseDepth(st) \in Status /\ ~DecreaseDepth(st).in_error
       /\ DecreaseDepth(st).depth = conn.status.depth - 1 /\ (DecreaseDepth(st).test => conn.status.test)
       /\ ~conn.status.in_error
  BY <1>4, <1>5, DecreasedIs, TestStays DEF IsOpen
<1>11. CASE r.res = "ok"
  <2>1. AfterExit(call.before, st) = Return("ok", DecreaseDepth(st))
    BY <1>4 DEF AfterExit, IsOpen
  <2>2. conn' = [r.conn EXCEPT !.status = DecreaseDepth(st)] /\ call' = NoCall /\ Succeeds
    BY <1>2, <1>11, <2>1 DEF Return
  <2>3. conn'.status = DecreaseDepth(st) /\ conn'.session = a.session
    BY <1>4, <1>10, <2>2 DEF AsyncConn
  <2> DEFINE f == IF TopScope.failed THEN "swallowed" ELSE "kept"
  <2>4. /\ scopes' = Merge(scopes) /\ place' = "held"
        /\ fate' = IF n > 1 THEN fate ELSE Settle(fate, top, f)
    BY <1>1, <2>2 DEF Succeeds
  <2>5. f \in {"swallowed", "kept"}
    OBVIOUS
  <2> HIDE DEF f
  <2>6. CASE n = 1
    <3>1. Merge(scopes) = Inner(scopes) /\ Inner(scopes) \in Seq(Scope) /\ Len(Inner(scopes)) = 0
      <4>1. Merge(scopes) = Inner(scopes)
        BY <1>6, <2>6, MergeLast
      <4>2. scopes # <<>>
        BY <1>6, EmptySeq
      <4>3. Inner(scopes) \in Seq(Scope)
        BY <1>6, <4>2, ScopesType
      <4>4. Len(Inner(scopes)) = Len(scopes) - 1
        BY <1>6, InnerIs
      <4> QED BY <2>6, <4>1, <4>3, <4>4
    <3>2. Follows(conn'.status, a.session, scopes', FALSE)
      <4>1. OneTest(scopes') /\ ~OnTest(scopes') /\ Len(scopes') = 0
        BY <2>4, <3>1 DEF OneTest, OnTest
      <4>2. conn.status.depth = 1 /\ ~conn.status.test
        BY <1>6, <1>7, <1>10, <2>6 DEF Follows
      <4> QED BY <1>10, <2>3, <4>1, <4>2 DEF Follows
    <3>3. Fated(scopes', fate')
      <4>1. Fated(Inner(scopes), Settle(fate, scopes[Len(scopes)].wrote, f))
        BY <1>6, <2>5, FatedEnded
      <4>2. fate' = Settle(fate, scopes[Len(scopes)].wrote, f)
        BY <2>4, <2>6 DEF TopScope
      <4> QED BY <2>4, <3>1, <4>1, <4>2
    <3>4. /\ s.durable \subseteq a.session.durable /\ a.session.durable \subseteq s.durable \cup top
          /\ Dialect = "Turso" => top \subseteq a.session.durable
      <4>1. CommitsTop(a) /\ a.res = "ok"
        BY <1>4, <1>7, <1>11, <2>6
      <4>2. \/ a.session.durable = s.durable \cup TopScope.wrote
            \/ Dialect = "Pg" /\ a.session.durable = s.durable
        BY <4>1 DEF CommitsTop
      <4> QED BY <4>2
    <3>5. fate' = Settle(fate, top, f)
      BY <2>4, <2>6
    <3> HIDE DEF s, top
    <3>6. Accounted(a.session.durable, fate') /\ Unsettled(a.session.durable, fate')
      BY <1>6, <1>9, <2>5, <3>4, <3>5, AccountedSettled
    <3> QED BY <1>8, <2>2, <2>3, <2>4, <3>2, <3>3, <3>6, CallEnds
  <2>7. CASE n > 1
    <3>1. /\ scopes' \in Seq(Scope) /\ Len(scopes') = n - 1
          /\ \A i \in 1..(n - 1) : scopes'[i].test = scopes[i].test
      <4>1. scopes # <<>>
        BY <1>6, EmptySeq
      <4>2. Merge(scopes) \in Seq(Scope)
        BY <1>6, <4>1, MergeType
      <4>3. /\ Len(Merge(scopes)) = n - 1
            /\ \A i \in 1..(n - 1) : i # n - 1 => Merge(scopes)[i] = scopes[i]
            /\ Merge(scopes)[n - 1].test = scopes[n - 1].test
        BY <1>6, <2>7, MergeIs
      <4>4. \A i \in 1..(n - 1) : Merge(scopes)[i].test = scopes[i].test
        BY <4>3
      <4> QED BY <2>4, <4>2, <4>3, <4>4
    <3>2. Follows(conn'.status, a.session, scopes', FALSE)
      <4>1. ~OnTest(scopes) => Held(a.session, scopes')
        BY <1>4, <1>7, <1>11, <2>4, <2>7
      <4>2. Engaged(a.session)
        BY <1>7, <2>7
      <4> QED BY <1>6, <1>10, <2>3, <3>1, <4>1, <4>2, FollowsLess
    <3>3. Fated(scopes', fate')
      BY <1>6, <2>4, <2>7, FatedMerged
    <3>4. fate' = fate /\ a.session.durable = s.durable
      BY <1>7, <2>4, <2>7
    <3> QED BY <1>6, <1>8, <2>2, <2>3, <2>4, <3>2, <3>3, <3>4, CallEnds
  <2> QED BY <1>8, <2>6, <2>7
<1>12. CASE r.res # "ok" /\ st.requires_rollback
  <2> DEFINE c == [op |-> "repair", stmt |-> RollbackSql(st), before |-> st, error |-> r.res]
  <2>1. /\ conn' = EnterBlock(r.conn, "repair") /\ call' = c
        /\ scopes' = scopes /\ fate' = fate /\ place' = "held"
    BY <1>1, <1>2, <1>4, <1>12
  <2>2. c.op = "repair" /\ c.error = a.res
    BY <1>4
  <2>3. conn'.status = st /\ conn'.session = a.session
    BY <1>4, <2>1, BlockIs DEF CallOps
  <2> HIDE DEF c
  <2>4. (Mending' <=> n = 1) /\ (Unheard' <=> n = 1 /\ a.res = "lost") /\ Mending' \in BOOLEAN
    BY <2>1, <2>2 DEF Mending, Unheard
  <2>5. CASE n = 1
    <3>1. CommitsTop(a) /\ ~OnTest(scopes) /\ (a.session.txn = "lost" <=> a.res = "lost") /\ a.res # "ok"
      BY <1>4, <1>7, <1>12, <2>5
    <3>2. Mending' = TRUE /\ (Unheard' <=> a.res = "lost")
      BY <2>4, <2>5
    <3>3. Held(a.session, scopes)
      <4>1. CASE a.res = "lost"
        <5>1. a.session.txn = "lost"
          BY <3>1, <4>1
        <5> QED BY <5>1 DEF Held
      <4>2. CASE a.session = s
        BY <1>6, <1>10, <3>1, <4>2 DEF Follows
      <4>3. CASE a.session = Closed(s)
        <5>1. a.session.txn = "idle"
          BY <1>6, <4>3, LostSessions DEF Sound
        <5> QED BY <5>1 DEF Held
      <4> QED BY <3>1, <4>1, <4>2, <4>3 DEF CommitsTop
    <3>4. Follows(st, a.session, scopes, TRUE)
      BY <1>4, <1>5, <1>6, <3>1, <3>3 DEF Follows
    <3>5. Accounted(a.session.durable, fate)
      <4>1. a.session.durable = s.durable \/ a.session.durable = s.durable \cup TopScope.wrote
        BY <1>6, <3>1, LostSessions DEF CommitsTop, Sound
      <4>2. Accounted(s.durable \cup top, fate)
        BY <1>6, <1>9, AccountedUnheard
      <4> QED BY <1>6, <4>1, <4>2
    <3>6. a.res # "lost" => Unsettled(a.session.durable, fate)
      <4> SUFFICES ASSUME a.res # "lost" PROVE Unsettled(a.session.durable, fate)
        OBVIOUS
      <4>1. a.session.durable = s.durable
        BY <1>6, <3>1, LostSessions DEF CommitsTop, Sound
      <4> QED BY <1>6, <4>1
    <3>7. Follows(conn'.status, conn'.session, scopes', Mending')
      BY <2>1, <2>3, <3>2, <3>4
    <3>8. /\ Sound(conn'.session) /\ Fated(scopes', fate') /\ Accounted(conn'.session.durable, fate')
          /\ Unheard' => conn'.session.txn = "lost"
          /\ ~Unheard' => Unsettled(conn'.session.durable, fate')
      BY <1>6, <1>8, <2>1, <2>3, <3>1, <3>2, <3>5, <3>6
    <3> QED BY <2>1, <3>7, <3>8 DEF WorkInv
  <2>6. CASE n > 1
    <3>1. Mending' = FALSE /\ ~Unheard'
      BY <1>6, <2>4, <2>6
    <3>2. a.session.durable = s.durable /\ (a.session \in {s, AfterError(s)} \/ a.session.txn = "lost")
      BY <1>4, <1>7, <1>12, <2>6
    <3>3. Follows(st, a.session, scopes, FALSE)
      <4>1. st.depth = conn.status.depth
        BY <1>4
      <4> QED BY <1>5, <1>6, <1>8, <3>2, <4>1, FollowsFailed
    <3>4. Follows(conn'.status, conn'.session, scopes', Mending')
      BY <2>1, <2>3, <3>1, <3>3
    <3>5. /\ Sound(conn'.session) /\ Fated(scopes', fate') /\ Accounted(conn'.session.durable, fate')
          /\ Unsettled(conn'.session.durable, fate')
      BY <1>6, <1>8, <2>1, <2>3, <3>2
    <3> QED BY <2>1, <3>1, <3>4, <3>5 DEF WorkInv
  <2> QED BY <1>8, <2>5, <2>6
<1>13. CASE r.res # "ok" /\ ~st.requires_rollback
  <2>1. conn' = [r.conn EXCEPT !.status = DecreaseDepth(st)] /\ call' = NoCall /\ Fails(r.res)
    BY <1>2, <1>4, <1>13 DEF GivenUp
  <2>2. conn'.status = DecreaseDepth(st) /\ conn'.session = a.session
    BY <1>4, <1>10, <2>1 DEF AsyncConn
  <2>3. \/ a.session.durable = s.durable
        \/ n = 1 /\ r.res = "lost" /\ a.session.durable = s.durable \cup TopScope.wrote
    <3>1. CASE n = 1
      <4>1. CommitsTop(a) /\ a.res # "ok"
        BY <1>4, <1>7, <1>13, <3>1
      <4> QED BY <1>4, <1>6, <3>1, <4>1, LostSessions DEF CommitsTop, Sound
    <3>2. CASE n > 1
      BY <1>7, <3>2
    <3> QED BY <1>8, <3>1, <3>2
  <2>4. n > 1 => Engaged(a.session) /\ (~OnTest(scopes) => Held(a.session, Inner(scopes)))
    BY <1>4, <1>7, <1>13
  <2> QED BY <1>1, <1>6, <1>8, <1>10, <2>1, <2>2, <2>3, <2>4, FailsWork
<1> QED BY <1>11, <1>12, <1>13

-------------------------------------------------------------------------------
(* Calls that start.                                                        *)

(* What holds between calls.                                                *)
LEMMA Between ==
    ASSUME AsyncInv, WorkInv, call = NoCall
    PROVE  /\ ~Unheard /\ Mending = FALSE
           /\ Sound(conn.session) /\ Fated(scopes, fate)
           /\ Accounted(conn.session.durable, fate) /\ Unsettled(conn.session.durable, fate)
           /\ IF place = "held" THEN Follows(conn.status, conn.session, scopes, FALSE)
              ELSE Left(conn.status, conn.session, scopes)
           /\ scopes \in Seq(Scope) /\ Len(scopes) \in Nat /\ conn.status \in Status
<1>1. ~Unheard /\ Mending = FALSE
  BY DEF Unheard, Mending, NoCall
<1> QED BY <1>1, AsyncTypes DEF WorkInv

LEMMA RefuseWork ==
    ASSUME AsyncInv, WorkInv, Ready, Refuse
    PROVE  WorkInv'
<1>1. /\ call = NoCall /\ place = "held" /\ scopes' = NoteFailure(scopes)
      /\ conn' = conn /\ call' = call /\ fate' = fate /\ place' = place
  BY DEF Ready, Refuse
<1>2. /\ scopes' \in Seq(Scope) /\ Len(scopes') = Len(scopes)
      /\ \A i \in 1..Len(scopes) : scopes'[i].wrote = scopes[i].wrote /\ scopes'[i].test = scopes[i].test
  BY <1>1, Between, ScopesType, NoteFailureIs
<1>3. Follows(conn'.status, conn'.session, scopes', FALSE)
  BY <1>1, <1>2, Between, FollowsNoted
<1>4. Fated(scopes', fate')
  BY <1>1, <1>2, Between, FatedAgain
<1> QED BY <1>1, <1>3, <1>4, Between, CallEnds

(* debug_assert! never fires: whoever sees the flag drops the task.         *)
LEMMA SendWork ==
    ASSUME Undoes, AsyncInv, WorkInv, Ready, NEW op \in CallOps, op # "repair", NEW stmt, Send(op, stmt)
    PROVE  WorkInv'
<1>1. call = NoCall /\ place = "held"
  BY DEF Ready
<1>2. ~conn.is_broken
  BY <1>1 DEF Undoes, AsyncInv, Unbroken, CutOff
<1>3. /\ conn' = EnterBlock(conn, op) /\ scopes' = scopes /\ fate' = fate /\ place' = "held"
      /\ call'.op = op
  BY <1>1, <1>2 DEF Send
<1>4. conn'.status = conn.status /\ conn'.session = conn.session
  BY <1>3, AsyncTypes, BlockIs
<1>5. Mending' = FALSE /\ ~Unheard'
  BY <1>3 DEF Mending, Unheard
<1>6. Follows(conn'.status, conn'.session, scopes', Mending')
  BY <1>1, <1>3, <1>4, <1>5, Between
<1>7. /\ Sound(conn'.session) /\ Fated(scopes', fate') /\ Accounted(conn'.session.durable, fate')
      /\ Unsettled(conn'.session.durable, fate')
  BY <1>1, <1>3, <1>4, Between
<1> QED BY <1>3, <1>5, <1>6, <1>7 DEF WorkInv

LEMMA BeginWork ==
    ASSUME Undoes, AsyncInv, WorkInv, NEW op \in {"begin", "begin_sql", "begin_test"}, Begin(op)
    PROVE  WorkInv'
<1>1. Ready
  BY DEF Begin
<1>2. CASE Refuse
  BY <1>1, <1>2, RefuseWork
<1>3. CASE Send(op, BeginSql(conn.status))
  <2>1. op \in CallOps /\ op # "repair"
    BY DEF CallOps
  <2> QED BY <1>1, <1>3, <2>1, SendWork
<1> QED BY <1>2, <1>3 DEF Begin

LEMMA StatementWork ==
    ASSUME Undoes, AsyncInv, WorkInv, Statement
    PROVE  WorkInv'
<1>1. Ready /\ Send("write", Write(Len(fate) + 1, "query"))
  BY DEF Statement
<1>2. "write" \in CallOps
  BY DEF CallOps
<1> QED BY <1>1, <1>2, SendWork

LEMMA CloseWork ==
    ASSUME Undoes, AsyncInv, WorkInv, CloseOk \/ CloseErr
    PROVE  WorkInv'
<1>1. /\ Ready /\ Len(scopes) > 0 /\ ~TopScope.test /\ call = NoCall /\ place = "held"
  BY DEF CloseOk, CloseErr, Close, Closable, InScope, Ready
<1>2. CASE Send("commit", CommitSql(conn.status)) \/ Send("rollback", RollbackSql(conn.status))
  <2>1. {"commit", "rollback"} \subseteq CallOps
    BY DEF CallOps
  <2> QED BY <1>1, <1>2, <2>1, SendWork
<1>3. CASE ~IsOpen(conn.status) /\ Fails("not_in_transaction") /\ UNCHANGED <<conn, call>>
  <2>1. /\ Follows(conn.status, conn.session, scopes, FALSE) /\ Sound(conn.session) /\ ~Unheard
        /\ conn.status.depth \in Nat /\ Len(scopes) \in Nat
    BY <1>1, Between DEF Status
  <2>2. conn.status.in_error
    <3> SUFFICES ASSUME ~conn.status.in_error PROVE FALSE
      OBVIOUS
    <3>1. conn.status.depth >= Len(scopes)
      BY <2>1 DEF Follows
    <3>2. conn.status.depth > 0
      BY <1>1, <2>1, <3>1
    <3> QED BY <1>3, <3>2 DEF IsOpen
  <2>3. Engaged(conn.session)
    BY <1>1, <2>1 DEF Follows
  <2>4. /\ conn'.session = conn.session /\ conn'.status.test = conn.status.test
        /\ conn'.status.in_error = conn.status.in_error /\ call' = NoCall
    BY <1>1, <1>3
  <2> QED BY <1>1, <1>3, <2>1, <2>2, <2>3, <2>4, FailsWork
<1> QED BY <1>2, <1>3 DEF CloseOk, CloseErr, Close

-------------------------------------------------------------------------------
(* Futures that are dropped.                                                *)

(* What a dropped call leaves: the answer it waited for came or did not.    *)
LEMMA CancelledSession ==
    ASSUME Undoes, AsyncInv, WorkInv, call # NoCall, NEW a \in Answers(conn.session, call.stmt)
    PROVE  /\ Sound(a.session)
           /\ OnTest(scopes) => Engaged(a.session)
           /\ \/ a.session.durable = conn.session.durable
              \/ /\ call.op = "write"
                 /\ a.session.durable = conn.session.durable \cup {Len(fate) + 1}
              \/ /\ call.op = "commit" /\ Len(scopes) = 1
                 /\ a.session.durable = conn.session.durable \cup TopScope.wrote
<1> DEFINE s == conn.session
<1>1. /\ call \in Calls /\ call.stmt \in Stmt /\ Fits(call.op, call.stmt)
      /\ Follows(conn.status, s, scopes, Mending) /\ Sound(s)
      /\ scopes \in Seq(Scope) /\ Len(scopes) \in Nat /\ conn.status \in Status /\ Dialect \in {"Pg", "Turso"}
  BY Awaiting, AsyncTypes DEF Undoes
<1>2. OnTest(scopes) => Engaged(s)
  BY <1>1 DEF Follows
<1>3. CASE call.op \in {"begin", "begin_sql", "begin_test"}
  <2>1. call.stmt = BeginSql(conn.status) /\ ~conn.status.in_error
    BY <1>1, <1>3 DEF Fits, Beginning
  <2>2. call.stmt.op \in {"begin", "savepoint"} /\ (call.stmt.op = "savepoint" => conn.status.depth # 0)
    BY <2>1 DEF BeginSql, TransactionSql
  <2>3. call.stmt.op = "savepoint" => Engaged(s)
    <3>1. Follows(conn.status, s, scopes, FALSE)
      BY <1>3, Awaiting
    <3> QED BY <1>1, <2>1, <2>2, <3>1 DEF Follows
  <2>4. /\ Sound(a.session) /\ (Engaged(s) => Engaged(a.session))
        /\ a.session.durable = s.durable
    BY <1>1, <2>2, <2>3, SessionAnswers DEF Keeps, Commits, Autocommits
  <2> QED BY <1>2, <2>4
<1>4. CASE call.op = "write"
  <2>1. call.stmt.op = "write" /\ call.stmt.arg = Len(fate) + 1
    BY <1>1, <1>4 DEF Fits, Write
  <2>2. /\ Sound(a.session) /\ (Engaged(s) => Engaged(a.session))
        /\ a.session.durable = s.durable \/ a.session.durable = s.durable \cup {Len(fate) + 1}
    BY <1>1, <2>1, SessionAnswers DEF Keeps, Commits, Autocommits
  <2> QED BY <1>2, <1>4, <2>2
<1>5. CASE call.op = "commit"
  <2>1. CASE Len(scopes) = 1
    <3>1. Sound(a.session) /\ ~OnTest(scopes) /\ CommitsTop(a)
      BY <1>5, <2>1, CommitTop
    <3>2. a.session.durable = s.durable \/ a.session.durable = s.durable \cup TopScope.wrote
      BY <1>1, <3>1, LostSessions DEF CommitsTop, Sound
    <3> QED BY <1>5, <2>1, <3>1, <3>2
  <2>2. CASE Len(scopes) > 1
    BY <1>5, <2>2, CommitNested
  <2> DEFINE n == Len(scopes)
  <2>3. n = 1 \/ n > 1
    <3>1. n > 0 /\ n \in Nat
      BY <1>1, <1>5 DEF Fits, Closing
    <3> HIDE DEF n
    <3> QED BY <3>1
  <2> QED BY <2>1, <2>2, <2>3
<1>6. CASE call.op \in {"rollback", "repair"}
  <2>1. Sound(a.session) /\ a.session.durable = s.durable /\ (Len(scopes) > 1 => Engaged(a.session))
    BY <1>6, RollbackWork
  <2>2. OnTest(scopes) => Len(scopes) > 1
    <3>1. Len(scopes) > 0 /\ ~scopes[Len(scopes)].test
      BY <1>1, <1>6 DEF Fits, Closing, TopScope
    <3>2. OnTest(scopes) => Len(scopes) # 1
      BY <3>1 DEF OnTest
    <3>3. Len(scopes) \in Nat
      BY <1>1
    <3> QED BY <3>1, <3>2, <3>3
  <2> QED BY <2>1, <2>2
<1>7. call.op \in CallOps
  BY <1>1 DEF Calls
<1> QED BY <1>3, <1>4, <1>5, <1>6, <1>7 DEF CallOps

(* The fates of the closures that are dropped.                              *)
LEMMA CancelledFates ==
    ASSUME Undoes, AsyncInv, WorkInv, place = "held",
           NEW f, f = (IF CommitSent /\ Len(scopes) = 1 THEN "unknown" ELSE "cancelled"),
           NEW e, \/ e = conn.session.durable
                  \/ /\ call.op = "commit" /\ Len(scopes) = 1
                     /\ e = conn.session.durable \cup TopScope.wrote
    PROVE  LET ends == Settle(fate, WroteByLast(Closures), f)
           IN /\ ends \in Seq(Fates) /\ Len(ends) = Len(fate)
              /\ Accounted(e, ends) /\ Unsettled(e, ends) /\ Fated(Without(Closures), ends)
<1> DEFINE s == conn.session
           n == Len(scopes)
           k == Closures
           items == WroteByLast(k)
           ends == Settle(fate, items, f)
<1>1. /\ Fated(scopes, fate) /\ Accounted(s.durable, fate) /\ (~Unheard => Unsettled(s.durable, fate))
      /\ OneTest(scopes) /\ scopes \in Seq(Scope) /\ fate \in Seq(Fates) /\ n \in Nat
  BY AsyncTypes DEF WorkInv, Follows
<1>2. k \in 0..n /\ (~OnTest(scopes) => k = n)
  BY <1>1, ClosuresCount, ClosuresIs
<1>3. f # "pending" /\ f \in Fates /\ f \in {"unknown", "cancelled"}
  BY DEF Fates
<1>4. /\ \A x \in items : x \in DOMAIN fate /\ fate[x] = "pending"
      /\ k = n => \A x \in DOMAIN fate : fate[x] = "pending" => x \in items
      /\ Fated(Without(k), ends)
  BY <1>1, <1>2, <1>3, FatedWithout
<1>5. ends \in Seq(Fates) /\ Len(ends) = Len(fate)
  BY <1>1, <1>3, SettleKeepsType
<1>6. ASSUME call.op \in {"commit", "repair"}, n = 1 PROVE k = 1 /\ items = TopScope.wrote
  <2>1. ~scopes[1].test
    <3>1. call # NoCall
      BY <1>6 DEF NoCall
    <3> QED BY <1>6, <3>1, Awaiting DEF Fits, Closing, TopScope
  <2>2. k = 1
    BY <1>2, <1>6, <2>1 DEF OnTest
  <2>3. (Len(scopes) - k + 1)..Len(scopes) = {1}
    BY <1>6, <2>2
  <2> HIDE DEF k
  <2>4. WroteByLast(k) = scopes[1].wrote
    BY <2>3 DEF WroteByLast
  <2> QED BY <1>6, <2>2, <2>4 DEF TopScope
<1>7. Unheard => CommitSent /\ n = 1 /\ k = n
  <2> SUFFICES ASSUME Unheard PROVE CommitSent /\ n = 1 /\ k = n
    OBVIOUS
  <2>1. call.op = "repair" /\ call.error = "lost" /\ n = 1
    BY DEF Unheard, Mending
  <2> QED BY <1>6, <2>1 DEF CommitSent
<1>8. s.durable \subseteq e /\ e \subseteq s.durable \cup items
  <2>1. CASE e = s.durable
    BY <2>1
  <2>2. CASE call.op = "commit" /\ n = 1 /\ e = s.durable \cup TopScope.wrote
    BY <1>6, <2>2
  <2> QED BY <2>1, <2>2
<1>9. f = "cancelled" => items \cap e = {}
  <2> SUFFICES ASSUME f = "cancelled" PROVE items \cap e = {}
    OBVIOUS
  <2>1. ~(CommitSent /\ n = 1)
    OBVIOUS
  <2>2. e = s.durable /\ ~Unheard
    BY <1>7, <2>1 DEF CommitSent
  <2> QED BY <1>1, <1>4, <2>2 DEF Unsettled
<1>10. Unsettled(s.durable, fate) \/ \A x \in DOMAIN fate : fate[x] = "pending" => x \in items
  BY <1>1, <1>4, <1>7
<1> HIDE DEF s, items, k, n
<1>11. Accounted(e, ends) /\ Unsettled(e, ends)
  BY <1>1, <1>3, <1>4, <1>8, <1>9, <1>10, AccountedSettled
<1> QED BY <1>4, <1>5, <1>11 DEF items, k

(* A task is dropped with its closures; a test transaction stays open.      *)
LEMMA CancelWork ==
    ASSUME Undoes, AsyncInv, WorkInv, NEW k \in 0..Closures, Cancel(k)
    PROVE  WorkInv'
<1> DEFINE s == conn.session
           n == Len(scopes)
           f == IF CommitSent /\ n = 1 THEN "unknown" ELSE "cancelled"
           ends == Settle(fate, WroteByLast(Closures), f)
<1>1. /\ k = Closures /\ scopes' = Without(Closures) /\ call' = NoCall
      /\ place = "held" /\ place' = "dropped"
      /\ fate' = IF call.op = "write" THEN Append(ends, "unknown") ELSE ends
  BY DEF Cancel, Undoes
<1>2. PICK t \in {s} \cup (IF call = NoCall THEN {} ELSE {a.session : a \in Answers(s, call.stmt)}) :
         conn' = [conn EXCEPT !.session = t]
  BY DEF Cancel
<1>3. conn'.status = conn.status /\ conn'.session = t
  BY <1>2, AsyncTypes DEF AsyncConn
<1>4. /\ Sound(s) /\ Follows(conn.status, s, scopes, Mending) /\ OneTest(scopes)
      /\ scopes \in Seq(Scope) /\ n \in Nat /\ conn.status.depth \in Nat
  BY <1>1, AsyncTypes DEF WorkInv, Follows, Status
<1>5. /\ Sound(t)
      /\ OnTest(scopes) => Engaged(t)
      /\ \/ t.durable = s.durable
         \/ call.op = "write" /\ t.durable = s.durable \cup {Len(fate) + 1}
         \/ call.op = "commit" /\ n = 1 /\ t.durable = s.durable \cup TopScope.wrote
  <2>1. CASE t = s
    BY <1>4, <2>1 DEF Follows
  <2>2. CASE call # NoCall /\ \E a \in Answers(s, call.stmt) : t = a.session
    BY <2>2, CancelledSession
  <2> QED BY <1>2, <2>1, <2>2
<1> HIDE DEF f
<1>6. f = IF CommitSent /\ n = 1 THEN "unknown" ELSE "cancelled"
  BY DEF f
<1>7. Fated(scopes', fate') /\ Accounted(t.durable, fate') /\ Unsettled(t.durable, fate')
  <2>1. CASE call.op = "write"
    <3>1. /\ ends \in Seq(Fates) /\ Len(ends) = Len(fate)
          /\ Accounted(s.durable, ends) /\ Unsettled(s.durable, ends) /\ Fated(Without(Closures), ends)
      BY <1>1, <1>6, CancelledFates
    <3> HIDE DEF ends
    <3>2. fate' = Append(ends, "unknown") /\ scopes' = Without(Closures)
      BY <1>1, <2>1
    <3>3. Without(Closures) \in Seq(Scope)
      BY <1>4, ClosuresCount, WithoutLast
    <3>4. t.durable = s.durable \/ t.durable = s.durable \cup {Len(ends) + 1}
      BY <1>5, <2>1, <3>1
    <3>5. Fated(scopes', fate')
      BY <3>1, <3>2, <3>3, FatedSent
    <3>6. Accounted(t.durable, fate') /\ Unsettled(t.durable, fate')
      BY <3>1, <3>2, <3>4, AccountedSent
    <3> QED BY <3>5, <3>6
  <2>2. CASE call.op # "write"
    <3>1. \/ t.durable = s.durable
          \/ call.op = "commit" /\ n = 1 /\ t.durable = s.durable \cup TopScope.wrote
      BY <1>5, <2>2
    <3>2. Accounted(t.durable, ends) /\ Unsettled(t.durable, ends) /\ Fated(Without(Closures), ends)
      BY <1>1, <1>6, <3>1, CancelledFates
    <3> QED BY <1>1, <2>2, <3>2
  <2> QED BY <2>1, <2>2
<1>8. Left(conn.status, t, scopes')
  <2>1. /\ Closures \in 0..n /\ Closures = (IF OnTest(scopes) THEN n - 1 ELSE n)
    BY <1>4, ClosuresCount, ClosuresIs
  <2>2. /\ Len(Without(Closures)) = n - Closures
        /\ \A i \in 1..(n - Closures) : Without(Closures)[i] = scopes[i]
    BY <1>4, <2>1, WithoutLast
  <2>3. CASE OnTest(scopes)
    <3>1. n > 0 /\ n - Closures = 1
      BY <1>4, <2>1, <2>3 DEF OnTest
    <3>2. Len(scopes') = 1 /\ scopes'[1].test
      BY <1>1, <2>2, <2>3, <3>1 DEF OnTest
    <3>3. OnTest(scopes') /\ OneTest(scopes')
      BY <3>2 DEF OnTest, OneTest
    <3>4. ~conn.status.in_error => conn.status.depth >= n
      BY <1>4, <2>3 DEF Follows
    <3>5. ~conn.status.in_error => conn.status.depth >= Len(scopes')
      BY <1>4, <3>1, <3>2, <3>4
    <3> QED BY <1>5, <2>3, <3>2, <3>3, <3>5 DEF Left, Follows
  <2>4. CASE ~OnTest(scopes)
    <3>1. Len(scopes') = 0
      BY <1>1, <1>4, <2>1, <2>2, <2>4
    <3> QED BY <1>4, <2>4, <3>1 DEF Left, Follows
  <2> QED BY <2>3, <2>4
<1>9. ~Unheard'
  BY <1>1 DEF Unheard, Mending, NoCall
<1> QED BY <1>1, <1>3, <1>5, <1>7, <1>8, <1>9 DEF WorkInv

-------------------------------------------------------------------------------
(* The pool.                                                                *)

(* A connection that is closed ends its transaction, and with it what is
   left of a test transaction.                                              *)
LEMMA ReplacedWork ==
    ASSUME AsyncInv, WorkInv, call = NoCall, Replace
    PROVE  /\ Len(scopes') = 0 /\ conn'.status = NoTransaction
           /\ Sound(conn'.session) /\ Fated(scopes', fate')
           /\ Accounted(conn'.session.durable, fate') /\ Unsettled(conn'.session.durable, fate')
<1> DEFINE s == conn.session
           n == Len(scopes)
           items == WroteByLast(n)
           ends == Settle(fate, items, "cancelled")
<1>1. /\ conn' = [NewConn EXCEPT !.session.durable = s.durable]
      /\ scopes' = <<>> /\ fate' = ends
  BY DEF Replace
<1>2. /\ Sound(s) /\ Fated(scopes, fate) /\ Accounted(s.durable, fate) /\ Unsettled(s.durable, fate)
      /\ scopes \in Seq(Scope) /\ n \in Nat
  BY Between
<1>3. /\ conn'.status = NoTransaction
      /\ conn'.session = [FreshSession EXCEPT !.durable = s.durable]
  BY <1>1 DEF NewConn
<1>4. /\ conn'.session.durable = s.durable /\ conn'.session.txn = "idle"
      /\ conn'.session.work = {}
  BY <1>3 DEF FreshSession
<1>5. conn'.session \in Session
  BY <1>2, <1>3, EmptySeq DEF FreshSession, Session, Txn, Sound
<1>6. Sound(conn'.session)
  BY <1>4, <1>5 DEF Sound
<1>7. n \in 0..n
  BY <1>2
<1>8. /\ \A x \in items : x \in DOMAIN fate /\ fate[x] = "pending"
      /\ Fated(Without(n), ends)
  BY <1>2, <1>7, FatedWithout
<1>9. Without(n) = <<>>
  <2>1. Without(n) \in Seq(Scope) /\ Len(Without(n)) = n - n
    BY <1>2, <1>7, WithoutLast
  <2>2. Len(Without(n)) = 0
    BY <1>2, <2>1
  <2> QED BY <2>1, <2>2, EmptySeq
<1>10. items \cap s.durable = {}
  BY <1>2, <1>8 DEF Unsettled
<1> HIDE DEF items, s
<1>11. Accounted(s.durable, ends) /\ Unsettled(s.durable, ends)
  BY <1>2, <1>8, <1>10, AccountedSettled
<1>12. Len(scopes') = 0
  BY <1>1
<1> HIDE DEF ends
<1> QED BY <1>1, <1>3, <1>4, <1>6, <1>8, <1>9, <1>11, <1>12

LEMMA PoolWork ==
    ASSUME Undoes, AsyncInv, WorkInv, GiveBack \/ Get
    PROVE  WorkInv'
<1>1. call = NoCall /\ call' = NoCall
  BY DEF GiveBack, Get, Ready, AsyncInv, InFlight
<1>2. ~Unheard' /\ Mending' = FALSE
  BY <1>1 DEF Unheard, Mending, NoCall
<1>3. CASE Replace
  <2>1. /\ Len(scopes') = 0 /\ conn'.status = NoTransaction
        /\ Sound(conn'.session) /\ Fated(scopes', fate')
        /\ Accounted(conn'.session.durable, fate') /\ Unsettled(conn'.session.durable, fate')
    BY <1>1, <1>3, ReplacedWork
  <2>2. OneTest(scopes') /\ ~OnTest(scopes')
    BY <2>1 DEF OneTest, OnTest
  <2>3. /\ Follows(conn'.status, conn'.session, scopes', FALSE)
        /\ Left(conn'.status, conn'.session, scopes')
    BY <2>1, <2>2 DEF Follows, Left, NoTransaction
  <2>4. IF place' = "held" THEN Follows(conn'.status, conn'.session, scopes', Mending')
        ELSE Left(conn'.status, conn'.session, scopes')
    BY <1>2, <2>3
  <2> QED BY <1>2, <2>1, <2>4 DEF WorkInv
<1>4. CASE Stays
  <2>1. conn' = conn /\ scopes' = scopes /\ fate' = fate
    BY <1>4 DEF Stays
  <2>2. CASE GiveBack
    <3>1. place' = "pool"
      BY <2>2 DEF GiveBack
    <3>2. CASE place = "dropped"
      <4>1. Left(conn.status, conn.session, scopes)
        BY <1>1, <3>2, Between
      <4> QED BY <1>1, <1>2, <2>1, <3>1, <4>1, Between DEF WorkInv
    <3>3. CASE Ready /\ Closures = 0
      <4>1. Follows(conn.status, conn.session, scopes, FALSE) /\ OneTest(scopes)
        BY <1>1, <3>3, Between DEF Ready, Follows
      <4>2. scopes \in Seq(Scope) /\ Len(scopes) \in Nat
        BY <1>1, Between
      <4>3. ~OnTest(scopes) => Len(scopes) = 0
        BY <3>3, <4>1, <4>2, ClosuresIs
      <4>4. Left(conn.status, conn.session, scopes)
        BY <4>1, <4>3 DEF Left, Follows, OnTest
      <4> QED BY <1>1, <1>2, <2>1, <3>1, <4>4, Between DEF WorkInv
    <3> QED BY <2>2, <3>2, <3>3 DEF GiveBack
  <2>3. CASE Get
    <3>1. place = "pool" /\ place' = "held"
      BY <2>3 DEF Get
    <3>2. Left(conn.status, conn.session, scopes) /\ conn.status \in Status
      BY <1>1, <3>1, Between
    <3>3. CASE Len(scopes) = 0
      <4>1. ~IsBroken(conn)
        <5>1. CASE Pool = "bb8"
          BY <3>1, <5>1 DEF AsyncInv, Unbroken
        <5>2. CASE Pool = "deadpool"
          <6>1. CASE IsBroken(conn)
            <7>1. Replace
              BY <2>3, <5>2, <6>1 DEF Get
            <7>2. conn'.status = NoTransaction /\ conn'.session.txn = "idle" /\ ~conn'.is_broken
              BY <7>1, ReplacedConn
            <7>3. ~IsBroken(conn')
              BY <7>1, ReplacedConn
            <7> QED BY <2>1, <7>3
          <6> QED BY <6>1
        <5> QED BY <5>1, <5>2, AsyncAssumption DEF Undoes
      <4>2. ~conn.status.test
        BY <3>2, <3>3 DEF Left
      <4>3. conn.status.depth = 0
        BY <3>2, <4>1, <4>2 DEF IsBroken, IsBrokenTransactionManager, Status
      <4>4. Follows(conn.status, conn.session, scopes, FALSE)
        BY <3>3, <4>2, <4>3 DEF Follows, OneTest, OnTest
      <4> QED BY <1>1, <1>2, <2>1, <3>1, <4>4, Between DEF WorkInv
    <3>4. CASE Len(scopes) # 0
      <4>1. Follows(conn.status, conn.session, scopes, FALSE)
        BY <3>2, <3>4 DEF Left
      <4> QED BY <1>1, <1>2, <2>1, <3>1, <4>1, Between DEF WorkInv
    <3> QED BY <3>3, <3>4
  <2> QED BY <2>2, <2>3
<1> QED BY <1>3, <1>4 DEF GiveBack, Get

-------------------------------------------------------------------------------
LEMMA NextWorkInv ==
    ASSUME Undoes, AsyncInv, Tidy, WorkInv, [Next]_vars
    PROVE  WorkInv'
<1>1. CASE UNCHANGED vars
  <2>1. UNCHANGED <<conn, call, scopes, fate, place>>
    BY <1>1 DEF vars
  <2>2. Mending' = Mending /\ Unheard' = Unheard
    BY <2>1 DEF Mending, Unheard
  <2> QED BY <2>1, <2>2 DEF WorkInv
<1>2. CASE \E op \in {"begin", "begin_sql", "begin_test"} : Begin(op)
  BY <1>2, BeginWork
<1>3. CASE Statement \/ CloseOk \/ CloseErr
  BY <1>3, StatementWork, CloseWork
<1>4. CASE BeginReply \/ WriteReply
  BY <1>4, BeginReplyWork, WriteReplyWork
<1>5. CASE CommitReply \/ RollbackReply \/ RepairReply
  BY <1>5, CommitReplyWork, RollbackReplyWork, RepairReplyWork
<1>6. CASE \E k \in 0..Closures : Cancel(k)
  BY <1>6, CancelWork
<1>7. CASE GiveBack \/ Get
  BY <1>7, PoolWork
<1> QED BY <1>1, <1>2, <1>3, <1>4, <1>5, <1>6, <1>7 DEF Next

(* All of it.                                                               *)
UndoInv == AsyncInv /\ Tidy /\ WorkInv

LEMMA InitUndoInv == Init => UndoInv
BY InitAsyncInv, InitWorkInv DEF UndoInv

LEMMA NextUndoInv ==
    ASSUME Undoes, UndoInv, [Next]_vars
    PROVE  UndoInv'
<1>1. AsyncInv /\ Tidy /\ WorkInv /\ Guarded
  BY DEF UndoInv, Undoes, Guarded
<1> QED BY <1>1, NextAsyncInv, NextWorkInv DEF UndoInv

LEMMA AlwaysUndoInv ==
    ASSUME Undoes
    PROVE  Spec => []UndoInv
BY InitUndoInv, NextUndoInv, PTL DEF Spec

LEMMA UndoInvSays ==
    ASSUME UndoInv
    PROVE  /\ DroppedIsUndone /\ CancelledIsUndone
           /\ Dialect = "Turso" => KeptIsDurable
BY DEF UndoInv, WorkInv, Accounted, DroppedIsUndone, CancelledIsUndone, KeptIsDurable, FateIs

(* On PostgreSQL and Turso, with callers that drop whole tasks and a pool
   that asks for the flag: when transaction() returns Err its writes are not
   durable, nested or not.                                                  *)
THEOREM DroppedIsUndoneHolds ==
    ASSUME Undoes
    PROVE  Spec => []DroppedIsUndone
BY AlwaysUndoInv, UndoInvSays, PTL

(* On the same terms, a task that is dropped in its transaction() before it
   commits leaves no write that anybody commits later, although the server
   may still run the statement that the task waited for.                    *)
THEOREM CancelledIsUndoneHolds ==
    ASSUME Undoes
    PROVE  Spec => []CancelledIsUndone
BY AlwaysUndoInv, UndoInvSays, PTL

(* On Turso, when the outermost transaction() returns Ok and no statement
   failed in it, what it wrote is committed.                                *)
THEOREM KeptIsDurableHolds ==
    ASSUME Undoes, Dialect = "Turso"
    PROVE  Spec => []KeptIsDurable
BY AlwaysUndoInv, UndoInvSays, PTL

===============================================================================
