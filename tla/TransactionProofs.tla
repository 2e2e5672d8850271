--------------------------- MODULE TransactionProofs ---------------------------
(***************************************************************************)
(* Facts that the proofs about both transaction managers rest on: about    *)
(* the session (a savepoint that exists has a newest one, every reply of   *)
(* the server is a result with a session, what the savepoints hold after   *)
(* each statement), the status, the stack of closures with what they wrote,*)
(* and the fates of the writes.                                            *)
(***************************************************************************)
EXTENDS TransactionManagerStatus, TransactionScopes,
        SequenceTheorems, WellFoundedInduction, TLAPS

(* A set of positions in 1..n that is not empty has a greatest element.     *)
LEMMA GreatestPosition ==
    ASSUME NEW n \in Nat, NEW P \in SUBSET (1..n), P # {}
    PROVE  \E i \in P : \A j \in P : j <= i
<1> DEFINE T == {k \in Nat : \E i \in P : k = n - i}
           R == OpToRel(<, Nat)
<1>1. T \subseteq Nat /\ T # {}
  <2>1. PICK i \in P : TRUE
    OBVIOUS
  <2>2. n - i \in Nat
    OBVIOUS
  <2> QED BY <2>1, <2>2
<1>2. IsWellFoundedOn(R, Nat)
  BY NatLessThanWellFounded
<1> HIDE DEF T, R
<1>3. PICK k \in T : \A y \in T : ~(<<y, k>> \in R)
  BY <1>1, <1>2, WFMin
<1>4. PICK i \in P : k = n - i
  BY <1>3 DEF T
<1>5. ASSUME NEW j \in P PROVE j <= i
  <2>1. n - j \in T
    BY DEF T
  <2>2. ~(n - j < k)
    BY <1>1, <1>3, <2>1 DEF R, OpToRel
  <2> QED BY <1>4, <2>2
<1> QED BY <1>5

(* The newest savepoint of a level is one of that level, and the last.      *)
LEMMA NewestSave ==
    ASSUME NEW s \in Session, NEW level \in Nat, SavesAt(s, level) # {}
    PROVE  /\ Newest(s, level) \in 1..Len(s.saves)
           /\ s.saves[Newest(s, level)].level = level
           /\ \A j \in SavesAt(s, level) : j <= Newest(s, level)
<1>1. Len(s.saves) \in Nat /\ SavesAt(s, level) \in SUBSET (1..Len(s.saves))
  BY DEF Session, SavesAt
<1>2. \E i \in SavesAt(s, level) : \A j \in SavesAt(s, level) : j <= i
  BY <1>1, GreatestPosition
<1>3. /\ Newest(s, level) \in SavesAt(s, level)
      /\ \A j \in SavesAt(s, level) : j <= Newest(s, level)
  BY <1>2 DEF Newest
<1> QED BY <1>1, <1>3 DEF SavesAt

(* What the server does to a session leaves a session.                     *)
LEMMA SessionMoves ==
    ASSUME NEW s \in Session
    PROVE  /\ Closed(s) \in Session
           /\ Committed(s) \in Session
           /\ Gone(s) \in Session
           /\ AfterError(s) \in Session
           /\ \A item \in Nat : Written(s, item) \in Session
<1>1. <<>> \in Seq(Save)
  OBVIOUS
<1>2. \A t \in Session : Closed(t) \in Session
  BY <1>1 DEF Session, Txn, Closed
<1>3. Committed(s) \in Session
  BY <1>2 DEF Session, Committed
<1>4. Gone(s) \in Session
  BY <1>2 DEF Session, Txn, Gone
<1>5. AfterError(s) \in Session
  BY DEF Session, Txn, AfterError
<1>6. ASSUME NEW item \in Nat PROVE Written(s, item) \in Session
  BY DEF Session, Written
<1> QED BY <1>2, <1>3, <1>4, <1>5, <1>6

LEMMA SavepointMoves ==
    ASSUME NEW s \in Session, NEW level \in Nat
    PROVE  /\ SavepointSet(s, level) \in Session
           /\ SavesAt(s, level) # {} => RolledBackTo(s, level) \in Session
           /\ SavesAt(s, level) # {} => Released(s, level) \in Session
<1> DEFINE n == Newest(s, level)
           k == Len(s.saves)
<1>1. s.saves \in Seq(Save) /\ k \in Nat /\ s.work \in SUBSET Nat
  BY DEF Session
<1>2. ASSUME SavesAt(s, level) # {}
      PROVE  /\ n \in 1..k
             /\ SubSeq(s.saves, 1, n) \in Seq(Save)
             /\ SubSeq(s.saves, 1, n - 1) \in Seq(Save)
             /\ SubSeq(s.saves, n + 1, k) \in Seq(Save)
             /\ s.saves[n].work \in SUBSET Nat
  <2>1. n \in 1..k
    BY <1>2, NewestSave
  <2>2. s.saves[n] \in Save
    BY <1>1, <2>1, ElementOfSeq
  <2>3. s.saves[n].work \in SUBSET Nat
    BY <2>2 DEF Save
  <2>4. \A a, b \in Nat : 1 <= a /\ b <= k => SubSeq(s.saves, a, b) \in Seq(Save)
    <3> SUFFICES ASSUME NEW a \in Nat, NEW b \in Nat, 1 <= a, b <= k
                 PROVE  SubSeq(s.saves, a, b) \in Seq(Save)
      OBVIOUS
    <3>1. \A i \in a..b : s.saves[i] \in Save
      BY <1>1, ElementOfSeq
    <3> QED BY <1>1, <3>1, SubSeqProperties
  <2>5. n - 1 \in Nat /\ n + 1 \in Nat /\ n \in Nat /\ n <= k /\ n - 1 <= k /\ 1 <= n + 1
    BY <1>1, <2>1
  <2>6. 1 \in Nat /\ 1 <= 1 /\ 1 <= n + 1 /\ k <= k /\ k \in Nat
    BY <1>1, <2>5
  <2> HIDE DEF n, k
  <2>7. SubSeq(s.saves, 1, n) \in Seq(Save)
    BY ONLY <2>4, <2>5, <2>6, Zenon
  <2>8. SubSeq(s.saves, 1, n - 1) \in Seq(Save)
    BY ONLY <2>4, <2>5, <2>6, Zenon
  <2>9. SubSeq(s.saves, n + 1, k) \in Seq(Save)
    BY ONLY <2>4, <2>5, <2>6, Zenon
  <2> QED BY <2>1, <2>3, <2>7, <2>8, <2>9
<1>3. Kept(s, level) \in Seq(Save)
  <2>1. CASE Dialect = "Mysql" /\ SavesAt(s, level) # {}
    BY <1>2, <2>1, ConcatProperties DEF Kept
  <2>2. CASE ~(Dialect = "Mysql" /\ SavesAt(s, level) # {})
    BY <1>1, <2>2 DEF Kept
  <2> QED BY <2>1, <2>2
<1>4. SavepointSet(s, level) \in Session
  <2>1. [level |-> level, work |-> s.work] \in Save
    BY <1>1 DEF Save
  <2>2. Append(Kept(s, level), [level |-> level, work |-> s.work]) \in Seq(Save)
    BY <1>3, <2>1, AppendProperties
  <2> QED BY <2>2 DEF SavepointSet, Session
<1>5. SavesAt(s, level) # {} => RolledBackTo(s, level) \in Session
  BY <1>2 DEF RolledBackTo, Session, Txn
<1>6. SavesAt(s, level) # {} => Released(s, level) \in Session
  BY <1>2 DEF Released, Session
<1> QED BY <1>4, <1>5, <1>6

Replies == [res : Results, session : Session]

LEMMA ReplyType ==
    \A res \in Results, s \in Session : Reply(res, s) \in Replies
BY DEF Replies, Reply

(* Every reply of the server is a result and a session.                     *)
LEMMA ServerRepliesType ==
    ASSUME NEW s \in Session, NEW stmt \in Stmt
    PROVE  ServerReplies(s, stmt) \subseteq Replies
<1> USE DEF Results, Fault
<1>1. stmt.arg \in Nat /\ stmt.op \in Ops
  BY DEF Stmt
<1>2. BeginReplies(s) \subseteq Replies
  <2>1. [s EXCEPT !.txn = "open"] \in Session
    BY DEF Session, Txn
  <2>2. [Committed(s) EXCEPT !.txn = "open"] \in Session
    BY SessionMoves DEF Session, Txn
  <2> QED BY <2>1, <2>2, ReplyType, SessionMoves DEF BeginReplies
<1>3. \A level \in Nat : SavepointReplies(s, level) \subseteq Replies
  <2> SUFFICES ASSUME NEW level \in Nat PROVE SavepointReplies(s, level) \subseteq Replies
    OBVIOUS
  <2>1. SavepointSet(s, level) \in Session
    BY SavepointMoves
  <2>2. [SavepointSet(s, level) EXCEPT !.txn = "implicit"] \in Session
    BY <2>1 DEF Session, Txn
  <2> QED BY <2>1, <2>2, ReplyType, SessionMoves DEF SavepointReplies
<1>4. \A level \in Nat : RollbackToReplies(s, level) \subseteq Replies
  BY ReplyType, SessionMoves, SavepointMoves DEF RollbackToReplies
<1>5. \A level \in Nat : ReleaseReplies(s, level) \subseteq Replies
  BY ReplyType, SessionMoves, SavepointMoves DEF ReleaseReplies
<1>6. CommitReplies(s) \subseteq Replies
  BY ReplyType, SessionMoves DEF CommitReplies
<1>7. RollbackReplies(s) \subseteq Replies
  BY ReplyType, SessionMoves DEF RollbackReplies
<1>8. \A item \in Nat : WriteReplies(s, item) \subseteq Replies
  BY ReplyType, SessionMoves DEF WriteReplies
<1> QED BY <1>1, <1>2, <1>3, <1>4, <1>5, <1>6, <1>7, <1>8 DEF ServerReplies, Ops

(* Whatever the server answers to a statement is a result, with a session
   that is well-formed: what batch_execute relies on for every statement.   *)
LEMMA AnswersType ==
    ASSUME NEW s \in Session, NEW stmt \in Stmt
    PROVE  Answers(s, stmt) \subseteq Replies
<1>1. ServerReplies(s, stmt) \subseteq Replies
  BY ServerRepliesType
<1>2. \A r \in ServerReplies(s, stmt) : Gone(r.session) \in Session
  BY <1>1, SessionMoves DEF Replies
<1>3. LostReplies(s, stmt) \subseteq Replies
  BY <1>2, SessionMoves, ReplyType DEF LostReplies, Fault, Results
<1> QED BY <1>1, <1>3, ReplyType DEF Answers, Results

(* A COMMIT or ROLLBACK that reports no error leaves no transaction.        *)
LEMMA ClosingReplies ==
    ASSUME NEW s \in Session, NEW stmt \in Stmt, stmt.op \in {"commit", "rollback"},
           NEW a \in Answers(s, stmt), a.res = "ok"
    PROVE  a.session.txn = "idle"
<1>1. a \in ServerReplies(s, stmt)
  BY DEF Answers, LostReplies, Fault, Reply
<1>2. Closed(s).txn = "idle" /\ Committed(s).txn = "idle"
  BY DEF Session, Closed, Committed
<1>3. CASE stmt.op = "commit"
  <2>1. a \in CommitReplies(s)
    BY <1>1, <1>3 DEF ServerReplies
  <2> QED BY <1>2, <2>1 DEF CommitReplies, Fault, Reply
<1>4. CASE stmt.op = "rollback"
  <2>1. a \in RollbackReplies(s)
    BY <1>1, <1>4 DEF ServerReplies
  <2> QED BY <1>2, <2>1 DEF RollbackReplies, Reply
<1> QED BY <1>3, <1>4

(* Outside of a transaction only a BEGIN that succeeds opens one: a data
   statement, or a BEGIN that fails, does not.                             *)
LEMMA QuietReplies ==
    ASSUME NEW s \in Session, s.txn \in {"idle", "lost"},
           NEW stmt \in Stmt, stmt.op \in {"begin", "write"},
           NEW a \in Answers(s, stmt), stmt.op = "begin" => a.res # "ok"
    PROVE  a.session.txn \in {"idle", "lost"}
<1>1. Gone(s).txn = "lost" /\ Closed(s).txn = "idle"
  BY DEF Session, Closed, Gone
<1>2. \A r \in ServerReplies(s, stmt) : Gone(r.session).txn = "lost"
  <2>1. \A r \in ServerReplies(s, stmt) : r.session \in Session
    BY ServerRepliesType DEF Replies
  <2> QED BY <2>1 DEF Session, Closed, Gone
<1>3. CASE s.txn = "idle" /\ a \in ServerReplies(s, stmt) /\ stmt.op = "begin"
  <2>1. a \in BeginReplies(s)
    BY <1>3 DEF ServerReplies
  <2> QED BY <1>3, <2>1 DEF BeginReplies, Fault, Reply
<1>4. CASE s.txn = "idle" /\ a \in ServerReplies(s, stmt) /\ stmt.op = "write"
  <2>1. a \in WriteReplies(s, stmt.arg)
    BY <1>4 DEF ServerReplies
  <2>2. Written(s, stmt.arg).txn = "idle" /\ AfterError(s).txn = "idle"
    BY <1>4 DEF Session, Written, AfterError
  <2> QED BY <1>1, <1>4, <2>1, <2>2 DEF WriteReplies, Fault, Reply
<1>5. CASE s.txn = "lost" \/ a \in LostReplies(s, stmt)
  BY <1>1, <1>2, <1>5 DEF Answers, LostReplies, Fault, Reply
<1> QED BY <1>3, <1>4, <1>5 DEF Answers

-------------------------------------------------------------------------------
(* The stack of savepoints: which one is the newest of a level, and what it
   holds, after each statement.                                            *)

(* i is the position of the newest savepoint of level k in the stack q.     *)
IsNewest(q, k, i) == /\ i \in 1..Len(q) /\ q[i].level = k
                     /\ \A j \in 1..Len(q) : q[j].level = k => j <= i

LEMMA NewestIs ==
    ASSUME NEW s \in Session, NEW k \in Nat, NEW i, IsNewest(s.saves, k, i)
    PROVE  SavesAt(s, k) # {} /\ Newest(s, k) = i
<1>1. Len(s.saves) \in Nat /\ DOMAIN s.saves = 1..Len(s.saves)
  BY LenProperties DEF Session
<1>2. SavesAt(s, k) # {}
  BY <1>1 DEF IsNewest, SavesAt
<1>3. /\ Newest(s, k) \in 1..Len(s.saves) /\ s.saves[Newest(s, k)].level = k
      /\ \A j \in SavesAt(s, k) : j <= Newest(s, k)
  BY <1>2, NewestSave
<1>4. i \in SavesAt(s, k)
  BY <1>1 DEF IsNewest, SavesAt
<1>5. i <= Newest(s, k) /\ Newest(s, k) <= i /\ i \in 1..Len(s.saves)
  BY <1>3, <1>4 DEF IsNewest
<1> DEFINE m == Newest(s, k)
           n == Len(s.saves)
<1> HIDE DEF m, n
<1>6. m = i
  BY <1>1, <1>3, <1>5 DEF m, n
<1> QED BY <1>2, <1>6 DEF m

LEMMA NewestFound ==
    ASSUME NEW s \in Session, NEW k \in Nat, SavesAt(s, k) # {}
    PROVE  IsNewest(s.saves, k, Newest(s, k))
<1>1. DOMAIN s.saves = 1..Len(s.saves)
  BY LenProperties DEF Session
<1> QED BY <1>1, NewestSave DEF IsNewest, SavesAt

(* The first m savepoints of a stack: the newest of a level stays so when it
   is among them.                                                           *)
LEMMA CutKeepsNewest ==
    ASSUME NEW q \in Seq(Save), NEW m \in Nat, m <= Len(q), NEW k, NEW i, IsNewest(q, k, i), i <= m
    PROVE  IsNewest(SubSeq(q, 1, m), k, i) /\ SubSeq(q, 1, m)[i] = q[i]
<1> DEFINE t == SubSeq(q, 1, m)
           n == Len(q)
<1>0. n \in Nat /\ i \in Nat /\ i \in 1..n
  BY LenProperties DEF IsNewest
<1>1. 1 \in Int /\ m \in Int /\ \A j \in 1..m : q[j] \in Save
  <2>1. \A j \in 1..m : j \in 1..Len(q)
    BY <1>0
  <2> QED BY <2>1, ElementOfSeq
<1>2. /\ Len(t) = IF 1 <= m THEN m - 1 + 1 ELSE 0
      /\ \A j \in 1..(m - 1 + 1) : t[j] = q[1 + j - 1]
  BY ONLY <1>1, SubSeqProperties
<1> HIDE DEF t
<1>3. Len(t) = m /\ \A j \in 1..m : t[j] = q[j]
  BY <1>2
<1>4. \A j \in 1..m : j \in 1..n
  BY <1>0
<1>5. i \in 1..m
  BY <1>0
<1> HIDE DEF n
<1> QED BY <1>3, <1>4, <1>5 DEF IsNewest, t, n

LEMMA AddedNewest ==
    ASSUME NEW q \in Seq(Save), NEW e \in Save
    PROVE  IsNewest(Append(q, e), e.level, Len(q) + 1) /\ Append(q, e)[Len(q) + 1] = e
<1> DEFINE t == Append(q, e)
           n == Len(q)
<1>1. n \in Nat /\ Len(t) = n + 1 /\ t[n + 1] = e /\ \A j \in 1..n : t[j] = q[j]
  BY AppendProperties, LenProperties
<1> HIDE DEF t, n
<1>2. \A j \in 1..(n + 1) : (j \in 1..n \/ j = n + 1) /\ j <= n + 1
  BY <1>1
<1>3. \A j \in 1..n : j \in 1..(n + 1) /\ j < n + 1
  BY <1>1
<1>4. n + 1 \in 1..(n + 1)
  BY <1>1
<1>6. IsNewest(t, e.level, n + 1)
  BY <1>1, <1>2, <1>4 DEF IsNewest
<1> QED BY <1>1, <1>6 DEF t, n

LEMMA AddedKeepsNewest ==
    ASSUME NEW q \in Seq(Save), NEW e \in Save, NEW k, k # e.level, NEW i, IsNewest(q, k, i)
    PROVE  IsNewest(Append(q, e), k, i) /\ Append(q, e)[i] = q[i] /\ i < Len(q) + 1
<1> DEFINE t == Append(q, e)
           n == Len(q)
<1>1. n \in Nat /\ Len(t) = n + 1 /\ t[n + 1] = e /\ \A j \in 1..n : t[j] = q[j]
  BY AppendProperties, LenProperties
<1> HIDE DEF t, n
<1>2. \A j \in 1..(n + 1) : (j \in 1..n \/ j = n + 1) /\ j <= n + 1
  BY <1>1
<1>3. \A j \in 1..n : j \in 1..(n + 1) /\ j < n + 1
  BY <1>1
<1>4. i \in 1..n /\ q[i].level = k /\ \A j \in 1..n : q[j].level = k => j <= i
  BY DEF IsNewest, n
<1>5. t[i] = q[i] /\ i < n + 1 /\ i \in 1..(n + 1)
  BY <1>1, <1>3, <1>4
<1>6. \A j \in 1..(n + 1) : t[j].level = k => j <= i
  BY <1>1, <1>2, <1>4
<1>7. IsNewest(t, k, i)
  BY <1>1, <1>4, <1>5, <1>6 DEF IsNewest
<1> QED BY <1>5, <1>7 DEF t, n

(* The stack without the savepoint at position p.                           *)
WithoutAt(q, p) == SubSeq(q, 1, p - 1) \o SubSeq(q, p + 1, Len(q))

LEMMA WithoutIs ==
    ASSUME NEW q \in Seq(Save), NEW p \in 1..Len(q)
    PROVE  /\ Len(WithoutAt(q, p)) = Len(q) - 1
           /\ \A j \in 1..(Len(q) - 1) : WithoutAt(q, p)[j] = IF j < p THEN q[j] ELSE q[j + 1]
<1> DEFINE n == Len(q)
           a == SubSeq(q, 1, p - 1)
           b == SubSeq(q, p + 1, n)
<1>0. n \in Nat /\ p \in Nat /\ 1 <= p /\ p <= n
  BY LenProperties
<1>1. /\ 1 \in Int /\ p - 1 \in Int /\ p + 1 \in Int /\ n \in Int
      /\ \A j \in 1..(p - 1) : j \in 1..n
      /\ \A j \in (p + 1)..n : j \in 1..n
  BY <1>0
<1>2. \A j \in 1..n : q[j] \in Save
  BY ElementOfSeq
<1>3. /\ \A j \in 1..(p - 1) : q[j] \in Save
      /\ \A j \in (p + 1)..n : q[j] \in Save
  BY <1>1, <1>2
<1> HIDE DEF n
<1>4. /\ a \in Seq(Save) /\ Len(a) = IF 1 <= p - 1 THEN (p - 1) - 1 + 1 ELSE 0
      /\ \A j \in 1..((p - 1) - 1 + 1) : a[j] = q[1 + j - 1]
  BY ONLY <1>1, <1>3, SubSeqProperties
<1>5. /\ b \in Seq(Save) /\ Len(b) = IF p + 1 <= n THEN n - (p + 1) + 1 ELSE 0
      /\ \A j \in 1..(n - (p + 1) + 1) : b[j] = q[(p + 1) + j - 1]
  BY ONLY <1>1, <1>3, SubSeqProperties
<1> HIDE DEF a, b
<1>6. Len(a) = p - 1 /\ \A j \in 1..(p - 1) : a[j] = q[j]
  BY <1>0, <1>4
<1>7. Len(b) = n - p /\ \A j \in 1..(n - p) : b[j] = q[p + j]
  BY <1>0, <1>5
<1>8. /\ Len(a \o b) = Len(a) + Len(b)
      /\ \A j \in 1..(Len(a) + Len(b)) : (a \o b)[j] = IF j <= Len(a) THEN a[j] ELSE b[j - Len(a)]
  BY ONLY <1>4, <1>5, ConcatProperties
<1>9. Len(a) + Len(b) = n - 1
  BY <1>0, <1>6, <1>7
<1>10. ASSUME NEW j \in 1..(n - 1) PROVE (a \o b)[j] = IF j < p THEN q[j] ELSE q[j + 1]
  <2>1. CASE j < p
    <3>1. j <= p - 1 /\ j \in 1..(p - 1)
      BY <1>0, <2>1
    <3> QED BY <1>6, <1>8, <1>9, <2>1, <3>1
  <2>2. CASE ~(j < p)
    <3>1. ~(j <= p - 1) /\ j - (p - 1) \in 1..(n - p) /\ p + (j - (p - 1)) = j + 1
      BY <1>0, <2>2
    <3> QED BY <1>6, <1>7, <1>8, <1>9, <2>2, <3>1
  <2> QED BY <2>1, <2>2
<1> QED BY <1>8, <1>9, <1>10 DEF WithoutAt, a, b, n

(* Where a savepoint is after the one at p is dropped.                      *)
Shift(p, i) == IF i < p THEN i ELSE i - 1

LEMMA WithoutKeepsNewest ==
    ASSUME NEW q \in Seq(Save), NEW p \in 1..Len(q), NEW k, NEW i, IsNewest(q, k, i), i # p
    PROVE  IsNewest(WithoutAt(q, p), k, Shift(p, i)) /\ WithoutAt(q, p)[Shift(p, i)] = q[i]
<1> DEFINE t == WithoutAt(q, p)
           n == Len(q)
           x == Shift(p, i)
<1>0. n \in Nat /\ p \in 1..n /\ i \in 1..n /\ q[i].level = k /\ i # p
      /\ \A j \in 1..n : q[j].level = k => j <= i
  BY LenProperties DEF IsNewest
<1>1. Len(t) = n - 1 /\ \A j \in 1..(n - 1) : t[j] = IF j < p THEN q[j] ELSE q[j + 1]
  BY WithoutIs
<1> HIDE DEF t, n
<1>2. x \in 1..(n - 1) /\ t[x] = q[i]
  <2>1. CASE i < p
    <3>1. i \in 1..(n - 1) /\ x = i
      BY <1>0, <2>1 DEF Shift
    <3> QED BY <1>1, <2>1, <3>1
  <2>2. CASE ~(i < p)
    <3>1. i - 1 \in 1..(n - 1) /\ x = i - 1 /\ ~(i - 1 < p) /\ (i - 1) + 1 = i
      BY <1>0, <2>2 DEF Shift
    <3> QED BY <1>1, <3>1
  <2> QED BY <2>1, <2>2
<1>3. ASSUME NEW j \in 1..(n - 1), t[j].level = k PROVE j <= x
  <2>1. CASE j < p
    <3>1. j \in 1..n
      BY <1>0
    <3>2. j <= i
      BY <1>0, <1>1, <1>3, <2>1, <3>1
    <3> QED BY <1>0, <2>1, <3>2 DEF Shift
  <2>2. CASE ~(j < p)
    <3>1. j + 1 \in 1..n
      BY <1>0
    <3>2. j + 1 <= i
      BY <1>0, <1>1, <1>3, <2>2, <3>1
    <3> QED BY <1>0, <2>2, <3>2 DEF Shift
  <2> QED BY <2>1, <2>2
<1> HIDE DEF x
<1>4. IsNewest(t, k, x)
  BY <1>0, <1>1, <1>2, <1>3 DEF IsNewest
<1> QED BY <1>2, <1>4 DEF t, x

(* What SAVEPOINT leaves of the older savepoints: those of other levels, in
   their order.                                                             *)
KeptAt(s, level, i) ==
    IF Dialect = "Mysql" /\ SavesAt(s, level) # {} THEN Shift(Newest(s, level), i) ELSE i

LEMMA KeptType ==
    ASSUME NEW s \in Session, NEW level \in Nat
    PROVE  Kept(s, level) \in Seq(Save)
<1> DEFINE p == Newest(s, level)
           q == s.saves
<1>0. q \in Seq(Save)
  BY DEF Session
<1>1. CASE ~(Dialect = "Mysql" /\ SavesAt(s, level) # {})
  BY <1>0, <1>1 DEF Kept
<1>2. CASE Dialect = "Mysql" /\ SavesAt(s, level) # {}
  <2>1. Kept(s, level) = SubSeq(q, 1, p - 1) \o SubSeq(q, p + 1, Len(q))
    BY <1>2 DEF Kept
  <2>2. p \in 1..Len(q)
    BY <1>2, NewestSave
  <2> HIDE DEF p, q
  <2>3. /\ Len(q) \in Nat /\ 1 \in Int /\ p + 1 \in Int /\ Len(q) \in Int /\ p - 1 \in Int
        /\ \A j \in 1..(p - 1) : j \in 1..Len(q)
        /\ \A j \in (p + 1)..Len(q) : j \in 1..Len(q)
    BY <1>0, <2>2, LenProperties
  <2>4. \A j \in 1..Len(q) : q[j] \in Save
    BY <1>0, ElementOfSeq
  <2>5. (\A j \in 1..(p - 1) : q[j] \in Save) /\ (\A j \in (p + 1)..Len(q) : q[j] \in Save)
    BY <2>3, <2>4
  <2>6. SubSeq(q, 1, p - 1) \in Seq(Save) /\ SubSeq(q, p + 1, Len(q)) \in Seq(Save)
    BY ONLY <2>3, <2>5, SubSeqProperties
  <2> QED BY <2>1, <2>6, ConcatProperties
<1> QED BY <1>1, <1>2

LEMMA KeptKeepsNewest ==
    ASSUME NEW s \in Session, NEW level \in Nat,
           NEW k \in Nat, k # level, NEW i, IsNewest(s.saves, k, i)
    PROVE  /\ IsNewest(Kept(s, level), k, KeptAt(s, level, i))
           /\ Kept(s, level)[KeptAt(s, level, i)] = s.saves[i]
<1> DEFINE p == Newest(s, level)
           q == s.saves
<1>0. q \in Seq(Save)
  BY DEF Session
<1>1. CASE ~(Dialect = "Mysql" /\ SavesAt(s, level) # {})
  BY <1>0, <1>1 DEF Kept, KeptAt
<1>2. CASE Dialect = "Mysql" /\ SavesAt(s, level) # {}
  <2>1. Kept(s, level) = WithoutAt(q, p) /\ KeptAt(s, level, i) = Shift(p, i)
    BY <1>2 DEF Kept, WithoutAt, KeptAt
  <2>2. p \in 1..Len(q) /\ q[p].level = level
    BY <1>2, NewestSave
  <2> HIDE DEF p
  <2>3. i # p
    BY <2>2 DEF IsNewest
  <2> QED BY <1>0, <2>1, <2>2, <2>3, WithoutKeepsNewest
<1> QED BY <1>1, <1>2

LEMMA KeptInOrder ==
    ASSUME NEW s \in Session, NEW level \in Nat,
           NEW i \in 1..Len(s.saves), s.saves[i].level # level,
           NEW j \in 1..Len(s.saves), s.saves[j].level # level, i < j
    PROVE  KeptAt(s, level, i) < KeptAt(s, level, j)
<1> DEFINE p == Newest(s, level)
           n == Len(s.saves)
<1>0. n \in Nat
  BY LenProperties DEF Session
<1>1. CASE ~(Dialect = "Mysql" /\ SavesAt(s, level) # {})
  BY <1>1 DEF KeptAt
<1>2. CASE Dialect = "Mysql" /\ SavesAt(s, level) # {}
  <2>1. KeptAt(s, level, i) = Shift(p, i) /\ KeptAt(s, level, j) = Shift(p, j)
    BY <1>2 DEF KeptAt
  <2>2. p \in 1..n /\ i # p /\ j # p
    BY <1>2, NewestSave
  <2> HIDE DEF p, n
  <2>3. i \in 1..n /\ j \in 1..n
    BY DEF n
  <2>4. Shift(p, i) < Shift(p, j)
    BY <1>0, <2>2, <2>3 DEF Shift
  <2> QED BY <2>1, <2>4
<1> QED BY <1>1, <1>2

-------------------------------------------------------------------------------
(* A session holds the work of d levels, w[k] that of the first k of them:
   it has a savepoint for each level but the last, in their order, with the
   work below it.                                                           *)
Holds(s, w, d) ==
    /\ s.work = w[d]
    /\ \A k \in 1..(d - 1) : SavesAt(s, k) # {} /\ s.saves[Newest(s, k)].work = w[k]
    /\ \A j, k \in 1..(d - 1) : j < k => Newest(s, j) < Newest(s, k)

(* Holds depends on what the levels wrote, and no more.                     *)
LEMMA HoldsWork ==
    ASSUME NEW s \in Session, NEW t \in Session, NEW d \in Nat, NEW w, NEW v,
           Holds(s, w, d), t.saves = s.saves, t.work = v[d],
           \A k \in 1..(d - 1) : v[k] = w[k]
    PROVE  Holds(t, v, d)
<1>1. \A k : SavesAt(t, k) = SavesAt(s, k)
  BY DEF SavesAt
<1>2. \A k : Newest(t, k) = Newest(s, k)
  BY <1>1 DEF Newest
<1> QED BY <1>1, <1>2 DEF Holds

(* What Holds says of one level, by position.                               *)
LEMMA HeldAt ==
    ASSUME NEW s \in Session, NEW d \in Nat, NEW w, Holds(s, w, d), NEW k \in 1..(d - 1)
    PROVE  /\ k \in Nat /\ IsNewest(s.saves, k, Newest(s, k))
           /\ Newest(s, k) \in 1..Len(s.saves) /\ s.saves[Newest(s, k)].level = k
           /\ s.saves[Newest(s, k)].work = w[k]
<1>1. k \in Nat
  OBVIOUS
<1>2. SavesAt(s, k) # {} /\ s.saves[Newest(s, k)].work = w[k]
  BY DEF Holds
<1> QED BY <1>1, <1>2, NewestFound, NewestSave

LEMMA HoldsSavepointSet ==
    ASSUME NEW s \in Session, NEW d \in Nat \ {0}, NEW w, NEW v, Holds(s, w, d),
           v[d + 1] = w[d], \A k \in 1..d : v[k] = w[k]
    PROVE  Holds(SavepointSet(s, d), v, d + 1)
<1> DEFINE t == SavepointSet(s, d)
           q == Kept(s, d)
           e == [level |-> d, work |-> s.work]
           at(k) == IF k = d THEN Len(q) + 1 ELSE KeptAt(s, d, Newest(s, k))
<1>0. /\ d \in Nat /\ t \in Session /\ s.saves \in Seq(Save) /\ s.work \in SUBSET Nat
      /\ q \in Seq(Save)
  BY SavepointMoves, KeptType DEF Session
<1>1. t.saves = Append(q, e) /\ t.work = s.work /\ e \in Save /\ e.level = d /\ e.work = s.work
  BY <1>0 DEF SavepointSet, Session, Save
<1> HIDE DEF q, e, t
<1>2. \A k \in 1..d : k = d \/ (k \in 1..(d - 1) /\ k # d)
  BY <1>0
<1>3. ASSUME NEW k \in 1..(d - 1), k # d
      PROVE  /\ IsNewest(t.saves, k, at(k)) /\ t.saves[at(k)].work = w[k] /\ at(k) < Len(q) + 1
  <2> DEFINE i == Newest(s, k)
  <2>1. k \in Nat /\ IsNewest(s.saves, k, i) /\ s.saves[i].work = w[k]
    BY <1>0, HeldAt
  <2>2. IsNewest(q, k, KeptAt(s, d, i)) /\ q[KeptAt(s, d, i)] = s.saves[i]
    BY <1>0, <1>3, <2>1, KeptKeepsNewest DEF q
  <2>3. at(k) = KeptAt(s, d, i)
    BY <1>3
  <2> HIDE DEF i, at
  <2>4. IsNewest(q, k, at(k)) /\ k # e.level /\ q[at(k)].work = w[k]
    BY <1>1, <1>3, <2>1, <2>2, <2>3
  <2>5. IsNewest(Append(q, e), k, at(k)) /\ Append(q, e)[at(k)] = q[at(k)] /\ at(k) < Len(q) + 1
    BY <1>0, <1>1, <2>4, AddedKeepsNewest
  <2> QED BY <1>1, <2>4, <2>5
<1>4. IsNewest(t.saves, d, at(d)) /\ t.saves[at(d)].work = w[d]
  <2>1. at(d) = Len(q) + 1
    OBVIOUS
  <2>2. s.work = w[d]
    BY DEF Holds
  <2> HIDE DEF at
  <2> QED BY <1>0, <1>1, <2>1, <2>2, AddedNewest
<1>5. ASSUME NEW k \in 1..d
      PROVE  SavesAt(t, k) # {} /\ Newest(t, k) = at(k) /\ t.saves[at(k)].work = w[k]
  <2>1. IsNewest(t.saves, k, at(k)) /\ t.saves[at(k)].work = w[k]
    BY <1>2, <1>3, <1>4
  <2>2. k \in Nat
    BY <1>0
  <2> HIDE DEF at
  <2> QED BY <1>0, <2>1, <2>2, NewestIs
<1>6. ASSUME NEW j \in 1..d, NEW k \in 1..d, j < k PROVE at(j) < at(k)
  <2>1. j \in 1..(d - 1) /\ j # d
    BY <1>0, <1>6
  <2>2. CASE k = d
    BY <1>3, <2>1, <2>2
  <2>3. CASE k \in 1..(d - 1) /\ k # d
    <3> DEFINE a == Newest(s, j)
               b == Newest(s, k)
    <3>1. a < b
      BY <1>6, <2>1, <2>3 DEF Holds
    <3>2. /\ a \in 1..Len(s.saves) /\ s.saves[a].level = j
          /\ b \in 1..Len(s.saves) /\ s.saves[b].level = k
      BY <1>0, <2>1, <2>3, HeldAt
    <3>3. at(j) = KeptAt(s, d, a) /\ at(k) = KeptAt(s, d, b)
      BY <2>1, <2>3
    <3> HIDE DEF a, b, at
    <3> QED BY <1>0, <2>1, <2>3, <3>1, <3>2, <3>3, KeptInOrder
  <2> QED BY <1>2, <2>2, <2>3
<1>7. (d + 1) - 1 = d /\ t.work = v[d + 1]
  BY <1>0, <1>1 DEF Holds
<1> HIDE DEF at
<1>8. Holds(t, v, d + 1)
  BY <1>5, <1>6, <1>7 DEF Holds
<1> QED BY <1>8 DEF t

(* The stack cut above or below the savepoint of the level that ends.       *)
LEMMA HoldsCut ==
    ASSUME NEW s \in Session, NEW d \in Nat, d > 1, NEW w, Holds(s, w, d),
           NEW m, m \in {Newest(s, d - 1), Newest(s, d - 1) - 1},
           NEW t \in Session, t.saves = SubSeq(s.saves, 1, m),
           NEW v, t.work = v[d - 1], \A k \in 1..(d - 2) : v[k] = w[k]
    PROVE  Holds(t, v, d - 1)
<1> DEFINE q == s.saves
           p == Newest(s, d - 1)
<1>0. q \in Seq(Save) /\ Len(q) \in Nat
  BY LenProperties DEF Session
<1>1. d - 1 \in 1..(d - 1) /\ (d - 1) - 1 = d - 2
  OBVIOUS
<1>2. p \in 1..Len(q)
  BY <1>1, HeldAt
<1> HIDE DEF q, p
<1>3. m \in Nat /\ m <= Len(q) /\ m >= p - 1
  BY <1>0, <1>2 DEF p
<1>4. ASSUME NEW k \in 1..(d - 2)
      PROVE  SavesAt(t, k) # {} /\ Newest(t, k) = Newest(s, k) /\ t.saves[Newest(s, k)].work = w[k]
  <2> DEFINE i == Newest(s, k)
  <2>0. k \in 1..(d - 1) /\ k < d - 1 /\ k \in Nat
    OBVIOUS
  <2>1. IsNewest(q, k, i) /\ i \in 1..Len(q) /\ q[i].work = w[k]
    BY <2>0, HeldAt DEF q
  <2>2. i < p
    BY <1>1, <2>0 DEF Holds, p
  <2> HIDE DEF i
  <2>3. i <= m
    BY <1>0, <1>2, <1>3, <2>1, <2>2
  <2>4. IsNewest(t.saves, k, i) /\ t.saves[i] = q[i]
    <3>1. IsNewest(SubSeq(q, 1, m), k, i) /\ SubSeq(q, 1, m)[i] = q[i]
      BY <1>0, <1>3, <2>1, <2>3, CutKeepsNewest
    <3>2. t.saves = SubSeq(q, 1, m)
      BY DEF q
    <3> QED BY <3>1, <3>2
  <2>5. SavesAt(t, k) # {} /\ Newest(t, k) = i
    BY <2>0, <2>4, NewestIs
  <2> QED BY <2>1, <2>4, <2>5 DEF i
<1>5. \A j, k \in 1..(d - 2) : j < k => Newest(s, j) < Newest(s, k)
  <2>1. \A j \in 1..(d - 2) : j \in 1..(d - 1)
    OBVIOUS
  <2> QED BY <2>1 DEF Holds
<1>6. 1..((d - 1) - 1) = 1..(d - 2)
  BY <1>1
<1>7. \A k \in 1..((d - 1) - 1) : SavesAt(t, k) # {} /\ t.saves[Newest(t, k)].work = v[k]
  BY <1>4, <1>6
<1>8. \A j, k \in 1..((d - 1) - 1) : j < k => Newest(t, j) < Newest(t, k)
  BY <1>4, <1>5, <1>6
<1> QED BY <1>7, <1>8 DEF Holds

LEMMA HoldsRolledBackTo ==
    ASSUME NEW s \in Session, NEW d \in Nat, d > 1, NEW w, Holds(s, w, d)
    PROVE  Holds(RolledBackTo(s, d - 1), w, d - 1)
<1> DEFINE t == RolledBackTo(s, d - 1)
<1>1. d - 1 \in 1..(d - 1) /\ d - 1 \in Nat
  OBVIOUS
<1>2. SavesAt(s, d - 1) # {} /\ s.saves[Newest(s, d - 1)].work = w[d - 1]
  BY <1>1 DEF Holds
<1>3. t \in Session
  BY <1>1, <1>2, SavepointMoves
<1>4. t.saves = SubSeq(s.saves, 1, Newest(s, d - 1)) /\ t.work = w[d - 1]
  BY <1>2 DEF RolledBackTo, Session
<1> HIDE DEF t
<1>5. Holds(t, w, d - 1)
  BY <1>3, <1>4, HoldsCut
<1> QED BY <1>5 DEF t

LEMMA HoldsReleased ==
    ASSUME NEW s \in Session, NEW d \in Nat, d > 1, NEW w, Holds(s, w, d),
           NEW v, v[d - 1] = w[d], \A k \in 1..(d - 2) : v[k] = w[k]
    PROVE  Holds(Released(s, d - 1), v, d - 1)
<1> DEFINE t == Released(s, d - 1)
<1>1. d - 1 \in 1..(d - 1) /\ d - 1 \in Nat
  OBVIOUS
<1>2. SavesAt(s, d - 1) # {}
  BY <1>1 DEF Holds
<1>3. t \in Session
  BY <1>1, <1>2, SavepointMoves
<1>4. t.saves = SubSeq(s.saves, 1, Newest(s, d - 1) - 1) /\ t.work = v[d - 1]
  BY DEF Released, Session, Holds
<1> HIDE DEF t
<1>5. Holds(t, v, d - 1)
  BY <1>3, <1>4, HoldsCut
<1> QED BY <1>5 DEF t

-------------------------------------------------------------------------------
(* The status, and the tails of a commit and a rollback, case by case.     *)

LEMMA StatusConstants == NoTransaction \in Status /\ InError \in Status
BY DEF Status, NoTransaction, InError

LEMMA StatusMoves ==
    ASSUME NEW st \in Status
    PROVE  /\ IncreaseDepth(st) \in Status
           /\ IsOpen(st) => DecreaseDepth(st) \in Status
           /\ \A to \in BOOLEAN : SetRequiresRollback(st, to) \in Status
           /\ SetTestTransactionFlag(st) \in Status
<1>1. IncreaseDepth(st) \in Status
  BY DEF Status, IncreaseDepth
<1>2. IsOpen(st) => DecreaseDepth(st) \in Status
  BY StatusConstants DEF Status, DecreaseDepth, IsOpen
<1>3. \A to \in BOOLEAN : SetRequiresRollback(st, to) \in Status
  BY DEF Status, SetRequiresRollback
<1>4. SetTestTransactionFlag(st) \in Status
  BY DEF Status, SetTestTransactionFlag
<1> QED BY <1>1, <1>2, <1>3, <1>4

LEMMA SqlType ==
    ASSUME NEW st \in Status
    PROVE  /\ BeginSql(st) \in Stmt
           /\ IsOpen(st) => RollbackSql(st) \in Stmt
           /\ IsOpen(st) => CommitSql(st) \in Stmt
BY DEF Status, IsOpen, BeginSql, RollbackSql, CommitSql, TransactionSql, Stmt, Ops, Vias

(* The tails of a commit and a rollback, case by case.                      *)
ExitIs(before, st, res) ==
    /\ st.in_error => AfterExit(before, st) = Return("broken", st)
    /\ IsOpen(st) => AfterExit(before, st) = Return("ok", DecreaseDepth(st))
    /\ ~st.in_error /\ st.depth = 0 /\ before.depth = 1 => AfterExit(before, st) = Return("ok", st)
    /\ res = "ok" => AfterRollback(before, st, res) = AfterExit(before, st)
    /\ res # "ok" /\ IsOpen(st) /\ st.depth > 1 =>
          AfterRollback(before, st, res) =
             Return(IF before.requires_rollback THEN "ok" ELSE res,
                    [st EXCEPT !.depth = @ - 1, !.requires_rollback = TRUE])
    /\ res # "ok" /\ st.in_error => AfterRollback(before, st, res) = Return(res, InError)

LEMMA ExitCases ==
    ASSUME NEW before \in Status, NEW st \in Status, NEW res
    PROVE  ExitIs(before, st, res)
<1>1. ~(IsOpen(st) /\ st.in_error) /\ (st.depth = 0 => ~IsOpen(st))
  BY DEF IsOpen, Status
<1>2. IsOpen(st) \/ st.in_error => st # NoTransaction
  BY DEF IsOpen, NoTransaction
<1> HIDE DEF NoTransaction, InError
<1> QED BY <1>1, <1>2 DEF AfterExit, AfterRollback, ExitIs

LEMMA DecreasedDepth ==
    ASSUME NEW st \in Status, IsOpen(st)
    PROVE  DecreaseDepth(st).depth = st.depth - 1 /\ ~DecreaseDepth(st).in_error
BY DEF DecreaseDepth, NoTransaction, IsOpen, Status

-------------------------------------------------------------------------------
(* What a break and an error make of a session, and what a write does.     *)

LEMMA LostSessions ==
    ASSUME NEW s \in Session
    PROVE  /\ Gone(s).txn = "lost" /\ Gone(s).work = {} /\ Gone(s).durable = s.durable
           /\ Closed(s).txn = "idle" /\ Closed(s).work = {} /\ Closed(s).durable = s.durable
           /\ Committed(s).txn = "idle" /\ Committed(s).work = {}
           /\ Committed(s).durable = s.durable \cup s.work
BY DEF Session, Closed, Gone, Committed

(* What a break makes of a session.                                         *)
LEMMA LostAnswers ==
    ASSUME NEW s \in Session, NEW stmt \in Stmt, NEW a \in LostReplies(s, stmt)
    PROVE  /\ Dialect \in {"Pg", "Mysql"}
           /\ a.res = "lost" /\ a.session.txn = "lost" /\ a.session.work = {}
           /\ \/ a.session.durable = s.durable
              \/ \E b \in ServerReplies(s, stmt) : a.session.durable = b.session.durable
<1>1. Dialect \in {"Pg", "Mysql"}
  BY DialectAssumption DEF LostReplies, Embedded
<1>2. a = Reply("lost", Gone(s)) \/ \E b \in ServerReplies(s, stmt) : a = Reply("lost", Gone(b.session))
  BY DEF LostReplies, Fault
<1>3. CASE a = Reply("lost", Gone(s))
  BY <1>1, <1>3, LostSessions DEF Reply
<1>4. CASE \E b \in ServerReplies(s, stmt) : a = Reply("lost", Gone(b.session))
  <2>1. PICK b \in ServerReplies(s, stmt) : a = Reply("lost", Gone(b.session))
    BY <1>4
  <2>2. b.session \in Session
    BY ServerRepliesType DEF Replies
  <2> QED BY <1>1, <2>1, <2>2, LostSessions DEF Reply
<1> QED BY <1>2, <1>3, <1>4

(* An error leaves the session, or has PostgreSQL abort it.                 *)
LEMMA ErrorMoves ==
    ASSUME NEW s \in Session
    PROVE  /\ AfterError(s) \in Session
           /\ AfterError(s).durable = s.durable /\ AfterError(s).work = s.work
           /\ AfterError(s).saves = s.saves
           /\ \/ AfterError(s) = s
              \/ /\ Dialect = "Pg" /\ s.txn = "open" /\ AfterError(s) = [s EXCEPT !.txn = "aborted"]
                 /\ AfterError(s).txn = "aborted"
           /\ Dialect = "Pg" /\ s.txn = "open" => AfterError(s).txn = "aborted"
           /\ Dialect # "Pg" \/ s.txn # "open" => AfterError(s) = s
BY SessionMoves DEF Session, AfterError, Txn

LEMMA WrittenIs ==
    ASSUME NEW s \in Session, NEW item \in Nat
    PROVE  /\ Written(s, item) \in Session /\ Written(s, item).txn = s.txn
           /\ s.txn # "idle" => Written(s, item).durable = s.durable
           /\ s.txn = "idle" => /\ Written(s, item).durable = s.durable \cup {item}
                                /\ Written(s, item).work = s.work
BY SessionMoves DEF Written, Session

-------------------------------------------------------------------------------
(* The stack of closures keeps its type.                                   *)

LEMMA ScopesType ==
    ASSUME NEW s \in Seq(Scope)
    PROVE  /\ NoteFailure(s) \in Seq(Scope)
           /\ s # <<>> => Inner(s) \in Seq(Scope) /\ Len(Inner(s)) = Len(s) - 1
           /\ s # <<>> => s[Len(s)] \in Scope
<1>1. Len(s) \in Nat /\ s # <<>> => Len(s) \in 1..Len(s)
  BY EmptySeq
<1>2. s # <<>> => s[Len(s)] \in Scope
  BY <1>1, EmptySeq, ElementOfSeq
<1>3. NoteFailure(s) \in Seq(Scope)
  <2>1. CASE s = <<>>
    BY <2>1 DEF NoteFailure
  <2>2. CASE s # <<>>
    <3>1. [s[Len(s)] EXCEPT !.failed = TRUE] \in Scope
      BY <1>2, <2>2 DEF Scope
    <3>2. Len(s) \in 1..Len(s)
      BY <2>2, EmptySeq
    <3> QED BY <2>2, <3>1, <3>2, ExceptSeq DEF NoteFailure
  <2> QED BY <2>1, <2>2
<1>4. ASSUME s # <<>> PROVE Inner(s) \in Seq(Scope) /\ Len(Inner(s)) = Len(s) - 1
  <2> DEFINE n == Len(s) - 1
  <2>1. Len(s) \in Nat \ {0} /\ n \in Nat
    BY <1>4, EmptySeq
  <2>2. \A i \in 1..n : s[i] \in Scope
    BY <2>1, ElementOfSeq
  <2> HIDE DEF n
  <2>3. SubSeq(s, 1, n) \in Seq(Scope) /\ Len(SubSeq(s, 1, n)) = n
    <3>1. Len(SubSeq(s, 1, n)) = IF 1 <= n THEN n - 1 + 1 ELSE 0
      BY <2>1, <2>2, SubSeqProperties
    <3> QED BY <2>1, <2>2, <3>1, SubSeqProperties
  <2> QED BY <2>3 DEF Inner, n
<1> QED BY <1>2, <1>3, <1>4

LEMMA MergeType ==
    ASSUME NEW s \in Seq(Scope), s # <<>>
    PROVE  Merge(s) \in Seq(Scope)
<1>1. CASE Len(s) = 1
  BY <1>1 DEF Merge
<1>2. CASE Len(s) # 1
  <2> DEFINE t == Inner(s)
             n == Len(s) - 1
             last == s[Len(s)]
             e1 == [t[n] EXCEPT !.wrote = @ \cup last.wrote]
             t1 == [t EXCEPT ![n] = e1]
             e2 == [t1[n] EXCEPT !.failed = @ \/ last.failed]
             t2 == [t1 EXCEPT ![n] = e2]
  <2>1. t \in Seq(Scope) /\ Len(t) = n /\ last \in Scope /\ n \in 1..n
    <3>1. Len(s) \in Nat \ {0}
      BY EmptySeq
    <3>2. n \in 1..n
      <4>1. \A k \in Nat \ {0} : k # 1 => k - 1 \in 1..(k - 1)
        OBVIOUS
      <4> QED BY <1>2, <3>1, <4>1
    <3>3. t \in Seq(Scope) /\ Len(t) = n /\ last \in Scope
      BY ScopesType
    <3> QED BY <3>2, <3>3
  <2>2. Merge(s) = t2
    BY <1>2 DEF Merge
  <2>3. t[n] \in Scope
    BY <2>1, ElementOfSeq
  <2>4. e1 \in Scope
    BY <2>1, <2>3 DEF Scope
  <2> HIDE DEF e1
  <2>5. t1 \in Seq(Scope) /\ Len(t1) = n
    BY <2>1, <2>4, ExceptSeq
  <2> HIDE DEF t1
  <2>6. t1[n] \in Scope
    BY <2>1, <2>5, ElementOfSeq
  <2>7. e2 \in Scope
    BY <2>1, <2>6 DEF Scope
  <2> HIDE DEF e2
  <2> QED BY <2>1, <2>2, <2>5, <2>7, ExceptSeq
<1> QED BY <1>1, <1>2

-------------------------------------------------------------------------------
(* The closures and what they wrote.                                       *)

(* What the first k closures of sc wrote, and as a function of k.           *)
Wrote(sc, k) == UNION {sc[i].wrote : i \in 1..k}

Works(sc)    == [k \in Nat |-> Wrote(sc, k)]

LEMMA WroteSplit ==
    ASSUME NEW sc, NEW k \in Nat
    PROVE  Wrote(sc, 0) = {} /\ Wrote(sc, k + 1) = Wrote(sc, k) \cup sc[k + 1].wrote
<1>1. 1..0 = {} /\ 1..(k + 1) = 1..k \cup {k + 1}
  OBVIOUS
<1> HIDE DEF Wrote
<1>2. Wrote(sc, 0) = {}
  BY <1>1 DEF Wrote
<1>3. ASSUME NEW x PROVE x \in Wrote(sc, k + 1) <=> x \in Wrote(sc, k) \/ x \in sc[k + 1].wrote
  BY <1>1 DEF Wrote
<1> QED BY <1>2, <1>3

LEMMA WroteSame ==
    ASSUME NEW sc, NEW tc, NEW k \in Nat, \A i \in 1..k : tc[i].wrote = sc[i].wrote
    PROVE  Wrote(tc, k) = Wrote(sc, k)
<1>1. ASSUME NEW x PROVE x \in Wrote(tc, k) <=> x \in Wrote(sc, k)
  BY DEF Wrote
<1> QED BY <1>1

-------------------------------------------------------------------------------
(* The moves of the stack of closures, by position.                        *)

(* The moves of the stack of closures, by position.                         *)
LEMMA NoteFailureIs ==
    ASSUME NEW sc \in Seq(Scope)
    PROVE  /\ Len(NoteFailure(sc)) = Len(sc)
           /\ \A i \in 1..Len(sc) : /\ NoteFailure(sc)[i].wrote = sc[i].wrote
                                    /\ NoteFailure(sc)[i].test = sc[i].test
           /\ Len(sc) > 0 => NoteFailure(sc)[Len(sc)].failed
<1> DEFINE n == Len(sc)
<1>1. n \in Nat
  BY LenProperties
<1>2. CASE sc = <<>>
  BY <1>2 DEF NoteFailure
<1>3. CASE sc # <<>>
  <2> DEFINE e == [sc[n] EXCEPT !.failed = TRUE]
             t == [sc EXCEPT ![n] = e]
  <2>1. n \in 1..n /\ sc[n] \in Scope
    BY <1>1, <1>3, EmptySeq, ScopesType
  <2>2. e \in Scope /\ e.wrote = sc[n].wrote /\ e.test = sc[n].test /\ e.failed
    BY <2>1 DEF Scope
  <2> HIDE DEF e
  <2>3. Len(t) = n /\ t[n] = e /\ \A i \in 1..n : i # n => t[i] = sc[i]
    BY <2>1, <2>2, ExceptSeq
  <2>4. NoteFailure(sc) = t
    BY <1>3 DEF NoteFailure, e
  <2> HIDE DEF t, n
  <2>5. \A i \in 1..n : t[i].wrote = sc[i].wrote /\ t[i].test = sc[i].test
    BY <2>2, <2>3
  <2> QED BY <2>2, <2>3, <2>4, <2>5 DEF n
<1> QED BY <1>2, <1>3

WroteTop(sc, item) == [sc EXCEPT ![Len(sc)].wrote = @ \cup {item}]

LEMMA WroteTopIs ==
    ASSUME NEW sc \in Seq(Scope), Len(sc) > 0, NEW item \in Items
    PROVE  /\ WroteTop(sc, item) \in Seq(Scope) /\ Len(WroteTop(sc, item)) = Len(sc)
           /\ WroteTop(sc, item)[Len(sc)].wrote = sc[Len(sc)].wrote \cup {item}
           /\ \A i \in 1..Len(sc) : /\ i # Len(sc) => WroteTop(sc, item)[i].wrote = sc[i].wrote
                                    /\ WroteTop(sc, item)[i].test = sc[i].test
                                    /\ WroteTop(sc, item)[i].failed = sc[i].failed
<1> DEFINE n == Len(sc)
           e == [sc[n] EXCEPT !.wrote = @ \cup {item}]
           t == [sc EXCEPT ![n] = e]
<1>1. n \in Nat /\ sc # <<>>
  BY LenProperties, EmptySeq
<1>2. n \in 1..n /\ sc[n] \in Scope
  BY <1>1, ScopesType
<1>3. e \in Scope /\ e.wrote = sc[n].wrote \cup {item} /\ e.test = sc[n].test /\ e.failed = sc[n].failed
  BY <1>2 DEF Scope
<1> HIDE DEF e
<1>4. t \in Seq(Scope) /\ Len(t) = n /\ t[n] = e /\ \A i \in 1..n : i # n => t[i] = sc[i]
  BY <1>2, <1>3, ExceptSeq
<1>5. WroteTop(sc, item) = t
  BY DEF WroteTop, e
<1> HIDE DEF t, n
<1>6. \A i \in 1..n : i # n => t[i].wrote = sc[i].wrote
  BY <1>4
<1>7. \A i \in 1..n : t[i].test = sc[i].test /\ t[i].failed = sc[i].failed
  BY <1>3, <1>4
<1> QED BY <1>3, <1>4, <1>5, <1>6, <1>7 DEF n

LEMMA InnerIs ==
    ASSUME NEW sc \in Seq(Scope), Len(sc) > 0
    PROVE  /\ Len(Inner(sc)) = Len(sc) - 1
           /\ \A i \in 1..(Len(sc) - 1) : Inner(sc)[i] = sc[i]
<1> DEFINE n == Len(sc) - 1
<1>1. n \in Nat /\ sc # <<>>
  BY LenProperties, EmptySeq
<1>2. 1 \in Int /\ n \in Int /\ \A i \in 1..n : i \in 1..Len(sc)
  BY <1>1, LenProperties
<1>3. \A i \in 1..n : sc[i] \in Scope
  BY <1>2, ElementOfSeq
<1> HIDE DEF n
<1>4. \A i \in 1..(n - 1 + 1) : SubSeq(sc, 1, n)[i] = sc[1 + i - 1]
  BY ONLY <1>2, <1>3, SubSeqProperties
<1>5. \A i \in 1..n : SubSeq(sc, 1, n)[i] = sc[i]
  BY <1>1, <1>4
<1>6. Len(Inner(sc)) = n
  BY <1>1, ScopesType DEF n
<1> QED BY <1>5, <1>6 DEF Inner, n

LEMMA MergeIs ==
    ASSUME NEW sc \in Seq(Scope), Len(sc) > 1
    PROVE  /\ Len(Merge(sc)) = Len(sc) - 1
           /\ \A i \in 1..(Len(sc) - 1) : i # Len(sc) - 1 => Merge(sc)[i] = sc[i]
           /\ Merge(sc)[Len(sc) - 1].wrote = sc[Len(sc) - 1].wrote \cup sc[Len(sc)].wrote
           /\ (Merge(sc)[Len(sc) - 1].failed <=> sc[Len(sc) - 1].failed \/ sc[Len(sc)].failed)
           /\ Merge(sc)[Len(sc) - 1].test = sc[Len(sc) - 1].test
<1>0. Len(sc) \in Nat /\ sc # <<>>
  BY LenProperties, EmptySeq
<1>m. Len(sc) # 1
  <2> DEFINE k == Len(sc)
  <2>1. k \in Nat /\ k > 1
    BY <1>0
  <2> HIDE DEF k
  <2>2. k # 1
    BY <2>1
  <2> QED BY <2>2 DEF k
<1> DEFINE t == Inner(sc)
           n == Len(sc) - 1
           last == sc[Len(sc)]
           e1 == [t[n] EXCEPT !.wrote = @ \cup last.wrote]
           t1 == [t EXCEPT ![n] = e1]
           e2 == [t1[n] EXCEPT !.failed = @ \/ last.failed]
           t2 == [t1 EXCEPT ![n] = e2]
<1>1. n \in 1..n
  <2>1. \A k \in Nat : k > 1 => k - 1 \in 1..(k - 1)
    OBVIOUS
  <2> QED BY <1>0, <2>1
<1>2. t \in Seq(Scope) /\ Len(t) = n /\ last \in Scope /\ \A i \in 1..n : t[i] = sc[i]
  <2>1. t \in Seq(Scope) /\ Len(t) = n /\ last \in Scope
    BY <1>0, ScopesType
  <2>2. Len(sc) > 0
    BY <1>0
  <2>3. \A i \in 1..n : t[i] = sc[i]
    BY <2>2, InnerIs
  <2> QED BY <2>1, <2>3
<1>3. Merge(sc) = t2
  BY <1>m DEF Merge
<1>4. t[n] \in Scope /\ t[n] = sc[n]
  BY <1>1, <1>2, ElementOfSeq
<1> HIDE DEF t, n, last
<1>5. e1 \in Scope /\ e1.wrote = sc[n].wrote \cup last.wrote /\ e1.failed = sc[n].failed /\ e1.test = sc[n].test
  BY <1>2, <1>4 DEF Scope
<1> HIDE DEF e1
<1>6. t1 \in Seq(Scope) /\ Len(t1) = n /\ t1[n] = e1 /\ \A i \in 1..n : i # n => t1[i] = t[i]
  BY <1>1, <1>2, <1>5, ExceptSeq
<1> HIDE DEF t1
<1>7. /\ e2 \in Scope /\ e2.wrote = sc[n].wrote \cup last.wrote
      /\ (e2.failed <=> sc[n].failed \/ last.failed) /\ e2.test = sc[n].test
  BY <1>2, <1>5, <1>6 DEF Scope
<1> HIDE DEF e2
<1>8. Len(t2) = n /\ t2[n] = e2 /\ \A i \in 1..n : i # n => t2[i] = t1[i]
  BY <1>1, <1>6, <1>7, ExceptSeq
<1> HIDE DEF t2
<1>9. \A i \in 1..n : i # n => t2[i] = sc[i]
  BY <1>2, <1>6, <1>8
<1> QED BY <1>3, <1>7, <1>8, <1>9 DEF n, last

LEMMA OpenedIs ==
    ASSUME NEW sc \in Seq(Scope), NEW test \in BOOLEAN
    PROVE  /\ Append(sc, NewScope(test)) \in Seq(Scope)
           /\ Len(Append(sc, NewScope(test))) = Len(sc) + 1
           /\ \A i \in 1..Len(sc) : Append(sc, NewScope(test))[i] = sc[i]
           /\ Append(sc, NewScope(test))[Len(sc) + 1] = NewScope(test)
           /\ NewScope(test).wrote = {}
<1>1. NewScope(test) \in Scope /\ NewScope(test).wrote = {}
  BY DEF NewScope, Scope
<1> QED BY <1>1, AppendProperties

-------------------------------------------------------------------------------
(* The work of the levels, after each move.                                *)

(* The work of the levels, after each move.                                 *)
LEMMA WorksSplit ==
    ASSUME NEW sc, NEW k \in Nat
    PROVE  /\ Works(sc)[0] = {}
           /\ Works(sc)[k + 1] = Works(sc)[k] \cup sc[k + 1].wrote
<1>1. k + 1 \in Nat /\ 0 \in Nat
  OBVIOUS
<1> QED BY <1>1, WroteSplit DEF Works

LEMMA WorksSame ==
    ASSUME NEW sc, NEW tc, NEW m \in Nat, \A i \in 1..m : tc[i].wrote = sc[i].wrote,
           NEW k \in 0..m
    PROVE  Works(tc)[k] = Works(sc)[k]
<1>1. k \in Nat /\ \A i \in 1..k : i \in 1..m
  OBVIOUS
<1> QED BY <1>1, WroteSame DEF Works

LEMMA WorksOpened ==
    ASSUME NEW sc \in Seq(Scope), NEW test \in BOOLEAN
    PROVE  /\ Works(Append(sc, NewScope(test)))[Len(sc) + 1] = Works(sc)[Len(sc)]
           /\ \A k \in 0..Len(sc) : Works(Append(sc, NewScope(test)))[k] = Works(sc)[k]
<1> DEFINE tc == Append(sc, NewScope(test))
           n == Len(sc)
<1>1. n \in Nat /\ tc[n + 1].wrote = {} /\ \A i \in 1..n : tc[i].wrote = sc[i].wrote
  <2>1. n \in Nat
    BY LenProperties
  <2>2. Append(sc, NewScope(test))[Len(sc) + 1] = NewScope(test) /\ NewScope(test).wrote = {}
    BY OpenedIs
  <2>3. \A i \in 1..Len(sc) : Append(sc, NewScope(test))[i] = sc[i]
    BY OpenedIs
  <2>4. tc[n + 1] = NewScope(test) /\ \A i \in 1..n : tc[i] = sc[i]
    BY <2>2, <2>3
  <2> HIDE DEF tc, n
  <2> QED BY <2>1, <2>2, <2>4
<1> HIDE DEF tc, n
<1>2. \A k \in 0..n : Works(tc)[k] = Works(sc)[k]
  BY <1>1, WorksSame
<1>3. Works(tc)[n + 1] = Works(tc)[n] \cup tc[n + 1].wrote
  BY <1>1, WorksSplit
<1>n. n \in 0..n
  BY <1>1
<1>4. Works(tc)[n + 1] = Works(sc)[n]
  BY <1>1, <1>2, <1>3, <1>n
<1> QED BY <1>2, <1>4 DEF tc, n

LEMMA WorksNoted ==
    ASSUME NEW sc \in Seq(Scope), NEW k \in 0..Len(sc)
    PROVE  Works(NoteFailure(sc))[k] = Works(sc)[k]
<1>1. Len(sc) \in Nat
  BY LenProperties
<1>2. \A i \in 1..Len(sc) : NoteFailure(sc)[i].wrote = sc[i].wrote
  BY NoteFailureIs
<1> QED BY <1>1, <1>2, WorksSame

LEMMA WorksTop ==
    ASSUME NEW sc \in Seq(Scope), Len(sc) > 0, NEW item \in Items
    PROVE  /\ Works(WroteTop(sc, item))[Len(sc)] = Works(sc)[Len(sc)] \cup {item}
           /\ \A k \in 0..(Len(sc) - 1) : Works(WroteTop(sc, item))[k] = Works(sc)[k]
<1> DEFINE tc == WroteTop(sc, item)
           n == Len(sc)
<1>1. /\ n \in Nat /\ tc[n].wrote = sc[n].wrote \cup {item}
      /\ \A i \in 1..n : i # n => tc[i].wrote = sc[i].wrote
  <2>1. n \in Nat
    BY LenProperties
  <2>2. WroteTop(sc, item)[Len(sc)].wrote = sc[Len(sc)].wrote \cup {item}
    BY WroteTopIs
  <2>3. \A i \in 1..Len(sc) : i # Len(sc) => WroteTop(sc, item)[i].wrote = sc[i].wrote
    BY WroteTopIs
  <2> QED BY <2>1, <2>2, <2>3
<1>g. n > 0
  OBVIOUS
<1> HIDE DEF tc, n
<1>2. n - 1 \in Nat /\ (n - 1) + 1 = n /\ n - 1 \in 0..(n - 1) /\ \A i \in 1..(n - 1) : i \in 1..n /\ i # n
  BY <1>1, <1>g
<1>3. \A k \in 0..(n - 1) : Works(tc)[k] = Works(sc)[k]
  <2>1. n - 1 \in Nat /\ \A i \in 1..(n - 1) : tc[i].wrote = sc[i].wrote
    BY <1>1, <1>2
  <2> QED BY ONLY <2>1, WorksSame
<1>4. Works(tc)[n] = Works(tc)[n - 1] \cup tc[n].wrote /\ Works(sc)[n] = Works(sc)[n - 1] \cup sc[n].wrote
  BY <1>2, WorksSplit
<1>5. Works(tc)[n] = Works(sc)[n] \cup {item}
  BY <1>1, <1>2, <1>3, <1>4
<1> QED BY <1>3, <1>5 DEF tc, n

LEMMA WorksInner ==
    ASSUME NEW sc \in Seq(Scope), Len(sc) > 0, NEW k \in 0..(Len(sc) - 1)
    PROVE  Works(Inner(sc))[k] = Works(sc)[k]
<1> DEFINE m == Len(sc) - 1
<1>1. m \in Nat
  BY LenProperties
<1>2. \A i \in 1..m : Inner(sc)[i].wrote = sc[i].wrote
  <2>1. \A i \in 1..m : Inner(sc)[i] = sc[i]
    BY InnerIs
  <2> HIDE DEF m
  <2> QED BY <2>1
<1> HIDE DEF m
<1>3. k \in 0..m
  BY DEF m
<1> QED BY <1>1, <1>2, <1>3, WorksSame

LEMMA WorksMerged ==
    ASSUME NEW sc \in Seq(Scope), Len(sc) > 1
    PROVE  /\ Works(Merge(sc))[Len(sc) - 1] = Works(sc)[Len(sc)]
           /\ \A k \in 0..(Len(sc) - 2) : Works(Merge(sc))[k] = Works(sc)[k]
<1> DEFINE tc == Merge(sc)
           n == Len(sc)
<1>1. /\ n \in Nat /\ tc[n - 1].wrote = sc[n - 1].wrote \cup sc[n].wrote
      /\ \A i \in 1..(n - 1) : i # n - 1 => tc[i] = sc[i]
  <2>1. n \in Nat
    BY LenProperties
  <2>2. Merge(sc)[Len(sc) - 1].wrote = sc[Len(sc) - 1].wrote \cup sc[Len(sc)].wrote
    BY MergeIs
  <2>3. \A i \in 1..(Len(sc) - 1) : i # Len(sc) - 1 => Merge(sc)[i] = sc[i]
    BY MergeIs
  <2> QED BY <2>1, <2>2, <2>3
<1>g. n > 1
  OBVIOUS
<1> HIDE DEF tc, n
<1>2. /\ n - 2 \in Nat /\ n - 1 \in Nat /\ (n - 2) + 1 = n - 1 /\ (n - 1) + 1 = n
      /\ n - 2 \in 0..(n - 2) /\ \A i \in 1..(n - 2) : i \in 1..(n - 1) /\ i # n - 1
  BY <1>1, <1>g
<1>3. \A k \in 0..(n - 2) : Works(tc)[k] = Works(sc)[k]
  <2>1. n - 2 \in Nat /\ \A i \in 1..(n - 2) : tc[i].wrote = sc[i].wrote
    BY <1>1, <1>2
  <2> QED BY ONLY <2>1, WorksSame
<1>4. Works(tc)[n - 1] = Works(tc)[n - 2] \cup tc[n - 1].wrote
  BY <1>2, WorksSplit
<1>5. Works(sc)[n - 1] = Works(sc)[n - 2] \cup sc[n - 1].wrote
  BY <1>2, WorksSplit
<1>6. Works(sc)[n] = Works(sc)[n - 1] \cup sc[n].wrote
  BY <1>2, WorksSplit
<1>7. Works(tc)[n - 1] = Works(sc)[n]
  BY <1>1, <1>2, <1>3, <1>4, <1>5, <1>6
<1> QED BY <1>3, <1>7 DEF tc, n

(* The session holds the same with the closures tc.                         *)
LEMMA HoldsAgain ==
    ASSUME NEW s \in Session, NEW t \in Session, NEW d \in Nat, NEW sc, NEW tc,
           Holds(s, Works(sc), d), t.saves = s.saves, t.work = Works(tc)[d],
           \A k \in 0..(d - 1) : Works(tc)[k] = Works(sc)[k]
    PROVE  Holds(t, Works(tc), d)
<1>1. \A k \in 1..(d - 1) : k \in 0..(d - 1)
  OBVIOUS
<1> QED BY <1>1, HoldsWork

-------------------------------------------------------------------------------
(* The fates of the writes, and the closures that wrote them.              *)

(* The running closures sc wrote disjoint sets, and what they wrote is what
   is pending.                                                              *)
Fated(sc, ends) ==
    /\ \A i, j \in 1..Len(sc) : i # j => sc[i].wrote \cap sc[j].wrote = {}
    /\ \A x : x \in Works(sc)[Len(sc)] <=> x \in DOMAIN ends /\ ends[x] = "pending"

LEMMA WorksOf ==
    ASSUME NEW sc, NEW k \in Nat, NEW x
    PROVE  x \in Works(sc)[k] <=> \E i \in 1..k : x \in sc[i].wrote
<1>1. Works(sc)[k] = Wrote(sc, k)
  BY DEF Works
<1> QED BY <1>1 DEF Wrote

LEMMA FatedAgain ==
    ASSUME NEW sc \in Seq(Scope), NEW tc \in Seq(Scope), NEW ends, Fated(sc, ends),
           Len(tc) = Len(sc), \A i \in 1..Len(sc) : tc[i].wrote = sc[i].wrote
    PROVE  Fated(tc, ends)
<1> DEFINE n == Len(sc)
<1>1. n \in Nat /\ n \in 0..n
  BY LenProperties
<1>2. \A i \in 1..n : tc[i].wrote = sc[i].wrote
  OBVIOUS
<1> HIDE DEF n
<1>3. Works(tc)[n] = Works(sc)[n]
  BY <1>1, <1>2, WorksSame
<1> QED BY <1>2, <1>3 DEF Fated, n

LEMMA FatedOpened ==
    ASSUME NEW sc \in Seq(Scope), NEW ends, Fated(sc, ends), NEW test \in BOOLEAN
    PROVE  Fated(Append(sc, NewScope(test)), ends)
<1> DEFINE tc == Append(sc, NewScope(test))
           n == Len(sc)
<1>1. n \in Nat
  BY LenProperties
<1>2. Len(tc) = n + 1
  BY OpenedIs
<1>3. Works(tc)[n + 1] = Works(sc)[n]
  BY WorksOpened
<1>4. tc[n + 1] = NewScope(test) /\ NewScope(test).wrote = {}
  BY OpenedIs
<1>5. \A i \in 1..n : tc[i] = sc[i]
  BY OpenedIs
<1> HIDE DEF tc, n
<1>6. \A i \in 1..(n + 1) : i \in 1..n \/ i = n + 1
  BY <1>1
<1>7. \A i, j \in 1..(n + 1) : i # j => tc[i].wrote \cap tc[j].wrote = {}
  <2>1. \A i, j \in 1..n : i # j => sc[i].wrote \cap sc[j].wrote = {}
    BY DEF Fated, n
  <2>2. tc[n + 1].wrote = {}
    BY <1>4
  <2> QED BY <1>5, <1>6, <2>1, <2>2
<1>8. Fated(tc, ends)
  BY <1>2, <1>3, <1>7 DEF Fated, n
<1> QED BY <1>8 DEF tc

LEMMA AppendedFate ==
    ASSUME NEW ends \in Seq(Fates), NEW f \in Fates
    PROVE  /\ Len(ends) \in Nat /\ DOMAIN ends = 1..Len(ends) /\ DOMAIN Append(ends, f) = 1..(Len(ends) + 1)
           /\ \A x \in 1..Len(ends) : Append(ends, f)[x] = ends[x]
           /\ Append(ends, f)[Len(ends) + 1] = f
<1>1. Append(ends, f) \in Seq(Fates) /\ Len(Append(ends, f)) = Len(ends) + 1
  BY AppendProperties
<1>2. DOMAIN Append(ends, f) = 1..(Len(ends) + 1)
  BY <1>1, LenProperties
<1>3. Len(ends) \in Nat /\ DOMAIN ends = 1..Len(ends)
  BY LenProperties
<1>4. \A x \in 1..Len(ends) : Append(ends, f)[x] = ends[x]
  BY AppendProperties
<1>5. Append(ends, f)[Len(ends) + 1] = f
  BY AppendProperties
<1> QED BY <1>2, <1>3, <1>4, <1>5

LEMMA FatedWritten ==
    ASSUME NEW sc \in Seq(Scope), NEW ends \in Seq(Fates), Fated(sc, ends),
           Len(ends) + 1 \in Items, Len(sc) > 0
    PROVE  Fated(WroteTop(sc, Len(ends) + 1), Append(ends, "pending"))
<1> DEFINE item == Len(ends) + 1
           tc == WroteTop(sc, item)
           e == Append(ends, "pending")
           n == Len(sc)
           m == Len(ends)
<1>0. "pending" \in Fates
  BY DEF Fates
<1>1. /\ m \in Nat /\ DOMAIN ends = 1..m /\ DOMAIN e = 1..(m + 1)
      /\ \A x \in 1..m : e[x] = ends[x]
      /\ e[m + 1] = "pending"
  <2>1. /\ Len(ends) \in Nat /\ DOMAIN ends = 1..Len(ends) /\ DOMAIN Append(ends, "pending") = 1..(Len(ends) + 1)
        /\ \A x \in 1..Len(ends) : Append(ends, "pending")[x] = ends[x]
        /\ Append(ends, "pending")[Len(ends) + 1] = "pending"
    BY <1>0, AppendedFate
  <2> QED BY <2>1
<1>2. n \in Nat /\ n \in 1..n
  BY LenProperties
<1>3. Len(tc) = n
  BY WroteTopIs
<1>4. Works(tc)[n] = Works(sc)[n] \cup {item}
  BY WorksTop
<1>5. tc[n].wrote = sc[n].wrote \cup {item}
  BY WroteTopIs
<1>6. \A i \in 1..n : i # n => tc[i].wrote = sc[i].wrote
  BY WroteTopIs
<1> HIDE DEF tc, e
<1>7. item \notin DOMAIN ends /\ item = m + 1
  BY <1>1
<1>f. /\ \A i, j \in 1..n : i # j => sc[i].wrote \cap sc[j].wrote = {}
      /\ \A x : x \in Works(sc)[n] <=> x \in DOMAIN ends /\ ends[x] = "pending"
  BY DEF Fated
<1> HIDE DEF item, n, m
<1>8. \A i \in 1..n : item \notin sc[i].wrote
  BY <1>2, <1>7, <1>f, WorksOf
<1>9. \A i, j \in 1..n : i # j => tc[i].wrote \cap tc[j].wrote = {}
  BY <1>2, <1>5, <1>6, <1>8, <1>f
<1>10. ASSUME NEW x PROVE x \in Works(tc)[n] <=> x \in DOMAIN e /\ e[x] = "pending"
  <2>1. x \in 1..(m + 1) <=> x \in 1..m \/ x = m + 1
    BY <1>1
  <2>2. x = m + 1 => x \notin 1..m
    BY <1>1
  <2> QED BY <1>1, <1>4, <1>7, <1>f, <2>1, <2>2
<1>11. Fated(tc, e)
  BY <1>3, <1>9, <1>10 DEF Fated
<1> QED BY <1>11 DEF tc, e, item

LEMMA FatedAuto ==
    ASSUME NEW sc \in Seq(Scope), NEW ends \in Seq(Fates), Fated(sc, ends)
    PROVE  Fated(sc, Append(ends, "auto"))
<1> DEFINE e == Append(ends, "auto")
           m == Len(ends)
<1>0. "auto" \in Fates
  BY DEF Fates
<1>1. /\ m \in Nat /\ DOMAIN ends = 1..m /\ DOMAIN e = 1..(m + 1)
      /\ \A x \in 1..m : e[x] = ends[x]
      /\ e[m + 1] = "auto"
  BY <1>0, AppendedFate
<1> HIDE DEF e, m
<1>2. ASSUME NEW x
      PROVE  (x \in DOMAIN e /\ e[x] = "pending") <=> (x \in DOMAIN ends /\ ends[x] = "pending")
  <2>1. x \in 1..(m + 1) <=> x \in 1..m \/ x = m + 1
    BY <1>1
  <2>2. x = m + 1 => x \notin 1..m
    BY <1>1
  <2> QED BY <1>1, <2>1, <2>2
<1>3. Fated(sc, e)
  BY <1>2 DEF Fated
<1> QED BY <1>3 DEF e

LEMMA SettleIs ==
    ASSUME NEW ends, NEW items, NEW f
    PROVE  /\ DOMAIN Settle(ends, items, f) = DOMAIN ends
           /\ \A x \in DOMAIN ends : Settle(ends, items, f)[x] = IF x \in items THEN f ELSE ends[x]
BY DEF Settle

LEMMA SettleKeepsType ==
    ASSUME NEW ends \in Seq(Fates), NEW items, NEW f \in Fates
    PROVE  /\ Settle(ends, items, f) \in Seq(Fates)
           /\ Len(Settle(ends, items, f)) = Len(ends)
<1>1. Len(ends) \in Nat /\ DOMAIN ends = 1..Len(ends)
  BY LenProperties
<1>2. \A i \in 1..Len(ends) : (IF i \in items THEN f ELSE ends[i]) \in Fates
  BY <1>1, ElementOfSeq
<1>3. Settle(ends, items, f) \in [1..Len(ends) -> Fates]
  BY <1>1, <1>2 DEF Settle
<1> HIDE DEF Settle
<1> QED BY <1>1, <1>3

LEMMA FatedEnded ==
    ASSUME NEW sc \in Seq(Scope), NEW ends, Fated(sc, ends), Len(sc) > 0,
           NEW f, f # "pending"
    PROVE  Fated(Inner(sc), Settle(ends, sc[Len(sc)].wrote, f))
<1> DEFINE tc == Inner(sc)
           n == Len(sc)
           top == sc[n].wrote
           e == Settle(ends, top, f)
<1>0. n \in Nat
  BY LenProperties
<1>g. n > 0
  OBVIOUS
<1>1. Len(tc) = n - 1
  BY InnerIs
<1>2. \A i \in 1..(n - 1) : tc[i] = sc[i]
  BY InnerIs
<1>3. \A k \in 0..(n - 1) : Works(tc)[k] = Works(sc)[k]
  BY WorksInner
<1>4. DOMAIN e = DOMAIN ends /\ \A x \in DOMAIN ends : e[x] = IF x \in top THEN f ELSE ends[x]
  BY SettleIs
<1>f. /\ \A i, j \in 1..n : i # j => sc[i].wrote \cap sc[j].wrote = {}
      /\ \A x : x \in Works(sc)[n] <=> x \in DOMAIN ends /\ ends[x] = "pending"
  BY DEF Fated
<1> HIDE DEF tc, n, e
<1>5. /\ n - 1 \in Nat /\ n - 1 \in 0..(n - 1) /\ (n - 1) + 1 = n /\ n \in 1..n
      /\ \A i \in 1..(n - 1) : i \in 1..n /\ i # n
  BY <1>0, <1>g
<1>6. Works(sc)[n] = Works(sc)[n - 1] \cup top
  BY <1>5, WorksSplit
<1>7. \A x \in Works(sc)[n - 1] : x \notin top
  BY <1>5, <1>f, WorksOf
<1>8. ASSUME NEW x PROVE x \in Works(tc)[n - 1] <=> x \in DOMAIN e /\ e[x] = "pending"
  BY <1>3, <1>4, <1>5, <1>6, <1>7, <1>f
<1>9. \A i, j \in 1..(n - 1) : i # j => tc[i].wrote \cap tc[j].wrote = {}
  BY <1>2, <1>5, <1>f
<1>10. Fated(tc, e)
  BY <1>1, <1>8, <1>9 DEF Fated
<1> QED BY <1>10 DEF tc, e, n

LEMMA FatedMerged ==
    ASSUME NEW sc \in Seq(Scope), NEW ends, Fated(sc, ends), Len(sc) > 1
    PROVE  Fated(Merge(sc), ends)
<1> DEFINE tc == Merge(sc)
           n == Len(sc)
<1>0. n \in Nat
  BY LenProperties
<1>g. n > 1
  OBVIOUS
<1>1. Len(tc) = n - 1
  BY MergeIs
<1>2. \A i \in 1..(n - 1) : i # n - 1 => tc[i] = sc[i]
  BY MergeIs
<1>3. tc[n - 1].wrote = sc[n - 1].wrote \cup sc[n].wrote
  BY MergeIs
<1>4. Works(tc)[n - 1] = Works(sc)[n]
  BY WorksMerged
<1>f. /\ \A i, j \in 1..n : i # j => sc[i].wrote \cap sc[j].wrote = {}
      /\ \A x : x \in Works(sc)[n] <=> x \in DOMAIN ends /\ ends[x] = "pending"
  BY DEF Fated
<1> HIDE DEF tc, n
<1>5. n \in 1..n /\ n - 1 \in 1..n /\ \A i \in 1..(n - 1) : i \in 1..n /\ i # n
  BY <1>0, <1>g
<1>6. ASSUME NEW i \in 1..(n - 1), i # n - 1 PROVE tc[i].wrote \cap tc[n - 1].wrote = {}
  <2>1. sc[i].wrote \cap sc[n - 1].wrote = {} /\ sc[i].wrote \cap sc[n].wrote = {}
    BY <1>5, <1>6, <1>f
  <2> QED BY <1>2, <1>3, <1>6, <2>1
<1>7. ASSUME NEW i \in 1..(n - 1), NEW j \in 1..(n - 1), i # j PROVE tc[i].wrote \cap tc[j].wrote = {}
  <2>1. CASE i # n - 1 /\ j # n - 1
    BY <1>2, <1>5, <1>7, <1>f, <2>1
  <2>2. CASE i = n - 1
    BY <1>6, <1>7, <2>2
  <2>3. CASE j = n - 1
    BY <1>6, <1>7, <2>3
  <2> QED BY <2>1, <2>2, <2>3
<1>8. Fated(tc, ends)
  BY <1>1, <1>4, <1>7, <1>f DEF Fated
<1> QED BY <1>8 DEF tc

(* The last closure that ends with Ok ends like any other.                  *)
LEMMA MergeLast ==
    ASSUME NEW sc \in Seq(Scope), Len(sc) = 1
    PROVE  Merge(sc) = Inner(sc)
<1>1. Inner(sc) \in Seq(Scope) /\ Len(Inner(sc)) = 0
  <2>1. sc # <<>>
    BY EmptySeq
  <2>2. Inner(sc) \in Seq(Scope) /\ Len(Inner(sc)) = Len(sc) - 1
    BY <2>1, ScopesType
  <2> QED BY <2>2
<1>2. Inner(sc) = <<>>
  BY <1>1, EmptySeq
<1> QED BY <1>2 DEF Merge

(* What the innermost closure wrote is pending; the only closure wrote all
   of it.                                                                   *)
LEMMA TopIsPending ==
    ASSUME NEW sc \in Seq(Scope), Len(sc) > 0, NEW ends, Fated(sc, ends)
    PROVE  /\ \A x \in sc[Len(sc)].wrote : x \in DOMAIN ends /\ ends[x] = "pending"
           /\ Len(sc) = 1 =>
                 \A x : x \in sc[Len(sc)].wrote <=> x \in DOMAIN ends /\ ends[x] = "pending"
<1> DEFINE n == Len(sc)
<1>1. n \in Nat /\ n \in 1..n
  BY LenProperties
<1>f. \A x : x \in Works(sc)[n] <=> x \in DOMAIN ends /\ ends[x] = "pending"
  BY DEF Fated
<1> HIDE DEF n
<1>2. \A x \in sc[n].wrote : x \in Works(sc)[n]
  BY <1>1, WorksOf
<1>3. ASSUME n = 1, NEW x \in Works(sc)[n] PROVE x \in sc[n].wrote
  <2>1. PICK i \in 1..n : x \in sc[i].wrote
    BY <1>1, <1>3, WorksOf
  <2>2. i = n
    BY <1>3
  <2> QED BY <2>1, <2>2
<1>4. \A x \in sc[n].wrote : x \in DOMAIN ends /\ ends[x] = "pending"
  BY <1>2, <1>f
<1>5. n = 1 => \A x : x \in sc[n].wrote <=> x \in DOMAIN ends /\ ends[x] = "pending"
  BY <1>2, <1>3, <1>f
<1> QED BY <1>4, <1>5 DEF n

===============================================================================
