-------------------------- MODULE PgStatementsProofs --------------------------
(***************************************************************************)
(* For every set of statements, every bound and every sequence of calls:   *)
(* the statement cache agrees with the server, a call that returns leaves  *)
(* nothing to be read, and it reports what the server said, once.  The     *)
(* first rests on the server's names not exceeding the counter, so that a  *)
(* new one overwrites none; the second on Settled, which also speaks of    *)
(* the calls that are yet to be sent; the third on ReportInv, which says   *)
(* where the failure of a statement is still to be read.                   *)
(***************************************************************************)
EXTENDS PgStatements, TLAPS

CacheType ==
    /\ counter \in Nat
    /\ DOMAIN cache \subseteq Keys
    /\ DOMAIN prepared \subseteq Nat

IInv == CacheType /\ CachedIsPrepared /\ NamesAreFresh

(* Only a preparation, one that comes to nothing too, and a change of the
   cache size touch the cache or its counter.                              *)
LEMMA OthersKeepStatements ==
    [Next]_vars => \/ UNCHANGED <<cache, counter, prepared>>
                   \/ TextRefused
                   \/ \E ok \in BOOLEAN : Prepare(ok)
                   \/ \E s \in {"Unbounded", "Disabled"} : SetCacheSize(s)
<1> DEFINE Goal == UNCHANGED <<cache, counter, prepared>>
<1> SUFFICES ASSUME [Next]_vars
             PROVE  \/ Goal
                    \/ TextRefused
                    \/ \E ok \in BOOLEAN : Prepare(ok)
                    \/ \E s \in {"Unbounded", "Disabled"} : SetCacheSize(s)
  OBVIOUS
<1>1. CASE UNCHANGED vars  BY <1>1 DEF vars
<1>2. ASSUME NEW s \in {"Unbounded", "Disabled"}, SetCacheSize(s)
      PROVE  \E r \in {"Unbounded", "Disabled"} : SetCacheSize(r)
  BY <1>2
<1>3. ASSUME NEW kind \in Kinds \ {"batch"}, NEW key \in Keys, StartQuery(kind, key)
      PROVE  Goal
  BY <1>3 DEF StartQuery, statements, server
<1>4. ASSUME NEW outcome \in {"ok", "err", "unbound"}, BatchExecute(outcome)  PROVE Goal
  BY <1>4 DEF BatchExecute, statements
<1>5. CASE CollectBindsFails  BY <1>5 DEF CollectBindsFails, statements, server
<1>6. CASE FindStatement      BY <1>6 DEF FindStatement, statements, server
<1>7. CASE Send               BY <1>7 DEF Send, statements
<1>8. CASE SendRefused        BY <1>8 DEF SendRefused, statements, server
<1>9. CASE FirstResult        BY <1>9 DEF FirstResult, TakeResult, statements
<1>10. CASE Drain             BY <1>10 DEF Drain, TakeResult, statements
<1>11. CASE CursorNew         BY <1>11 DEF CursorNew, TakeResult, statements
<1>12. CASE Dropping          BY <1>12 DEF Dropping, TakeResult, statements
<1>13. CASE Finish            BY <1>13 DEF Finish, statements
<1>14. CASE CopyResult        BY <1>14 DEF CopyResult, TakeResult, statements
<1>15. CASE Next1             BY <1>15 DEF Next1, TakeResult, statements, server
<1>16. CASE FillBuf           BY <1>16 DEF FillBuf, statements
<1>17. CASE Lose              BY <1>17 DEF Lose, statements
<1>18. CASE DropCursor        BY <1>18 DEF DropCursor, statements, server
<1>19. CASE DropBuffer        BY <1>19 DEF DropBuffer, statements, server
<1>20. ASSUME NEW ok \in BOOLEAN, Written(ok)  PROVE Goal
  BY <1>20 DEF Written, statements, server
<1> HIDE DEF Goal
<1> QED
  BY <1>1, <1>2, <1>3, <1>4, <1>5, <1>6, <1>7, <1>8, <1>9, <1>10, <1>11, <1>12, <1>13,
     <1>14, <1>15, <1>16, <1>17, <1>18, <1>19, <1>20 DEF Next, Progress, Caller

(* A preparation takes a name above all others, and registers it when the
   server has it.                                                          *)
LEMMA PrepareKeeps ==
    ASSUME IInv, NEW ok \in BOOLEAN, Prepare(ok)
    PROVE  IInv'
<1>1. /\ counter' = counter + 1 /\ counter \in Nat
      /\ prepared' = IF ok THEN With(prepared, counter + 1, call.key) ELSE prepared
      /\ cache' = IF ok THEN With(cache, call.key, counter + 1) ELSE cache
  BY DEF Prepare, NextName, Registered, IInv, CacheType
<1>2. CASE ~ok
  <2>1. UNCHANGED <<cache, prepared>>  BY <1>1, <1>2
  <2> QED  BY <1>1, <2>1 DEF IInv, CacheType, CachedIsPrepared, NamesAreFresh
<1>3. CASE ok
  <2>1. /\ DOMAIN prepared' = DOMAIN prepared \cup {counter + 1}
        /\ \A n \in DOMAIN prepared :
              n # counter + 1 => prepared'[n] = prepared[n]
        /\ prepared'[counter + 1] = call.key
    BY <1>1, <1>3 DEF With
  <2>2. /\ DOMAIN cache' = DOMAIN cache \cup {call.key}
        /\ \A k \in DOMAIN cache : k # call.key => cache'[k] = cache[k]
        /\ cache'[call.key] = counter + 1
    BY <1>1, <1>3 DEF With
  <2>3. \A n \in DOMAIN prepared : n \in Nat /\ n <= counter
    BY DEF IInv, CacheType, NamesAreFresh
  <2>4. CacheType'
    <3>1. call.key \in Cacheable  BY DEF Prepare, Uncached
    <3>2. Cacheable \subseteq Keys  BY StatementsAssumption DEF StatementsAssumption
    <3> QED  BY <1>1, <2>1, <2>2, <3>1, <3>2 DEF IInv, CacheType
  <2>5. CachedIsPrepared'
    <3> SUFFICES ASSUME NEW k \in DOMAIN cache'
                 PROVE  cache'[k] \in DOMAIN prepared' /\ prepared'[cache'[k]] = k
      BY DEF CachedIsPrepared
    <3>1. CASE k = call.key  BY <2>1, <2>2, <3>1
    <3>2. CASE k # call.key
      <4>1. k \in DOMAIN cache /\ cache'[k] = cache[k]  BY <2>2, <3>2
      <4>2. cache[k] \in DOMAIN prepared /\ prepared[cache[k]] = k
        BY <4>1 DEF IInv, CachedIsPrepared
      <4>3. cache[k] # counter + 1  BY <1>1, <2>3, <4>2
      <4> QED  BY <2>1, <4>1, <4>2, <4>3
    <3> QED  BY <3>1, <3>2
  <2>6. NamesAreFresh'  BY <1>1, <2>1, <2>3 DEF NamesAreFresh
  <2> QED  BY <2>4, <2>5, <2>6 DEF IInv
<1> QED  BY <1>2, <1>3

(* A text that is refused at most uses up a number.                        *)
LEMMA TextRefusedKeeps == IInv /\ TextRefused => IInv'
<1> SUFFICES ASSUME IInv, TextRefused PROVE IInv'  OBVIOUS
<1>1. /\ cache' = cache /\ prepared' = prepared
      /\ counter' \in {counter, counter + 1} /\ counter \in Nat
  BY DEF TextRefused, server, IInv, CacheType
<1>2. \A n \in DOMAIN prepared : n \in Nat /\ n <= counter
  BY DEF IInv, CacheType, NamesAreFresh
<1> QED  BY <1>1, <1>2 DEF IInv, CacheType, CachedIsPrepared, NamesAreFresh

(* A new cache is empty, and counts on.                                    *)
LEMMA SetCacheSizeKeeps ==
    ASSUME IInv, NEW s \in {"Unbounded", "Disabled"}, SetCacheSize(s)
    PROVE  IInv'
<1>1. cache' = <<>> /\ counter' = counter /\ prepared' = prepared
  BY DEF SetCacheSize, CounterAfter, server
<1>2. DOMAIN cache' = {}  BY <1>1
<1> QED  BY <1>1, <1>2 DEF IInv, CacheType, CachedIsPrepared, NamesAreFresh

LEMMA InitHolds == Init => IInv
BY DEF Init, IInv, CacheType, CachedIsPrepared, NamesAreFresh

LEMMA StepKeeps == IInv /\ [Next]_vars => IInv'
<1> SUFFICES ASSUME IInv, [Next]_vars PROVE IInv'  OBVIOUS
<1>1. CASE UNCHANGED <<cache, counter, prepared>>
  BY <1>1 DEF IInv, CacheType, CachedIsPrepared, NamesAreFresh
<1> QED  BY <1>1, OthersKeepStatements, PrepareKeeps, TextRefusedKeeps, SetCacheSizeKeeps

(* The cache and the server agree on what each name stands for, and a name
   that a preparation chooses is new to the server: after failed preparations
   and replaced caches too.                                                *)
THEOREM NamesAgreeHolds == Spec => []NamesAgree
<1>1. IInv => NamesAgree  BY DEF IInv, NamesAgree
<1> QED  BY InitHolds, StepKeeps, <1>1, PTL DEF Spec

-------------------------------------------------------------------------------
(* What the server answers is a sequence of results.                        *)
LEMMA RepliesType ==
    ASSUME NEW kind
    PROVE  Replies(kind) \subseteq Seq(Results)
<1>1. Rows \subseteq Seq(Results)
  <2> SUFFICES ASSUME NEW n \in 0..MaxRows
               PROVE  [i \in 1..n |-> "row"] \in Seq(Results)
    BY DEF Rows
  <2>1. n \in Nat  BY StatementsAssumption DEF StatementsAssumption
  <2> QED  BY <2>1 DEF Results
<1>2. \A r \in Rows, e \in Results : r \o <<e>> \in Seq(Results)
  BY <1>1
<1>3. /\ <<"done">> \in Seq(Results) /\ <<"error">> \in Seq(Results)
      /\ <<"empty">> \in Seq(Results) /\ <<"copy_in">> \in Seq(Results)
      /\ <<"copy_out", "done">> \in Seq(Results) /\ <<"copy_out", "error">> \in Seq(Results)
  BY DEF Results
<1>4. SUFFICES ASSUME NEW reply \in Replies(kind)
               PROVE  reply \in Seq(Results)
  OBVIOUS
<1>5. CASE kind = "row_by_row"
  <2>1. \/ \E r \in Rows, e \in {"done", "error"} : reply = r \o <<e>>
        \/ reply = <<"empty">>
    BY <1>5 DEF Replies
  <2>2. {"done", "error"} \subseteq Results  BY DEF Results
  <2> QED  BY <1>2, <1>3, <2>1, <2>2, Zenon
<1>6. CASE kind # "row_by_row"
  <2>1. reply \in {<<"done">>, <<"error">>, <<"empty">>, <<"copy_in">>, <<"copy_out", "done">>,
                   <<"copy_out", "error">>}
    <3>1. CASE kind = "copy_to"
      <4>1. Replies(kind) = {<<"copy_out", "done">>, <<"copy_out", "error">>, <<"error">>}
        BY <3>1 DEF Replies
      <4> QED  BY <4>1, Zenon
    <3>2. CASE kind = "copy_from"
      <4>1. Replies(kind) = {<<"copy_in">>, <<"error">>}  BY <3>2 DEF Replies
      <4> QED  BY <4>1, Zenon
    <3>3. CASE kind \notin {"row_by_row", "copy_to", "copy_from"}
      <4>1. Replies(kind) = {<<"done">>, <<"error">>, <<"empty">>}  BY <3>3 DEF Replies
      <4> QED  BY <4>1, Zenon
    <3> QED  BY <1>6, <3>1, <3>2, <3>3
  <2> QED  BY <1>3, <2>1, Zenon
<1> QED  BY <1>5, <1>6

(* What is read leaves libpq in one of its states.                          *)
LEMMA TakeResultType ==
    ASSUME TypeOK, TakeResult
    PROVE  /\ async' \in {"idle", "busy", "copy_in", "copy_out"}
           /\ coming' \in Seq(Results)
           /\ UNCHANGED <<prepared, chunks, lost>>
<1>1. async' \in {"idle", "busy", "copy_in", "copy_out"}  BY DEF TakeResult
<1>2. coming' \in Seq(Results)
  <2>1. CASE coming = <<>>  BY <2>1 DEF TakeResult, TypeOK
  <2>2. CASE coming # <<>>
    <3>1. Tail(coming) \in Seq(Results)  BY <2>2 DEF TypeOK
    <3>2. <<>> \in Seq(Results)  OBVIOUS
    <3> QED  BY <3>1, <3>2, <2>2 DEF TakeResult, TypeOK
  <2> QED  BY <2>1, <2>2
<1> QED  BY <1>1, <1>2 DEF TakeResult

(* A call that returns is still a call, and so is one that was refused or
   that has its first result.                                              *)
LEMMA CallsType ==
    ASSUME call \in Call, NEW n \in Nat, NEW outcome \in {"none", "ok", "err", "unbound"}
    PROVE  /\ Returns(outcome, n) \in Call /\ Returns(outcome, n).name = call.name
           /\ Refused \in Call /\ Refused.name = call.name
           /\ Opened \in Call /\ Opened.name = call.name
<1>1. ASSUME NEW o \in {"none", "ok", "err", "unbound"}, NEW k \in Nat
      PROVE  Returns(o, k) \in Call /\ Returns(o, k).name = call.name
  <2> DEFINE f == call.finishes + k
  <2>1. f \in Nat  BY DEF Call
  <2>2. Returns(o, k) = [call EXCEPT !.pc = "idle", !.outcome = o, !.finishes = f]
    BY DEF Returns
  <2> HIDE DEF f
  <2> QED  BY <2>1, <2>2 DEF Call
<1>2. Refused \in Call /\ Refused.name = call.name
  <2>1. CASE call.kind = "execute"  BY <2>1 DEF Refused, Call
  <2>2. CASE call.kind # "execute"  BY <2>2, <1>1 DEF Refused
  <2> QED  BY <2>1, <2>2
<1>3. Opened \in Call /\ Opened.name = call.name
  <2>1. CASE call.kind = "execute"     BY <2>1 DEF Opened, Call
  <2>2. CASE call.kind = "load"        BY <2>2 DEF Opened, Call
  <2>3. CASE call.kind = "row_by_row"
    <3> DEFINE f == NextResult = "row"
    <3>1. f \in BOOLEAN  OBVIOUS
    <3>2. Opened = [call EXCEPT !.pc = "rows", !.outcome = "ok", !.fresh = f]
      BY <2>3 DEF Opened
    <3> HIDE DEF f
    <3> QED  BY <3>1, <3>2 DEF Call
  <2>4. CASE call.kind = "copy_to"     BY <2>4 DEF Opened, Call
  <2>5. CASE call.kind \notin {"execute", "load", "row_by_row", "copy_to"}
    BY <2>5 DEF Opened, Call
  <2> QED  BY <2>1, <2>2, <2>3, <2>4, <2>5
<1> QED  BY <1>1, <1>2, <1>3

LEMMA InitType == Init => TypeOK
<1> SUFFICES ASSUME Init PROVE TypeOK  OBVIOUS
<1>1. PICK k \in Keys :
         call = [kind |-> "batch", key |-> k, name |-> 0, pc |-> "idle", fresh |-> TRUE,
                 failed |-> FALSE, outcome |-> "ok", finishes |-> 1]
  BY DEF Init
<1>2. call \in Call /\ call.name = 0  BY <1>1 DEF Call
<1>3. coming \in Seq(Results)  BY DEF Init
<1>4. DOMAIN cache = {} /\ DOMAIN prepared = {}  BY DEF Init
<1>5. /\ size \in {"Unbounded", "Disabled"} /\ counter = 0
      /\ async \in {"idle", "busy", "copy_in", "copy_out"}
      /\ chunks \in Nat /\ lost \in BOOLEAN /\ unread \in BOOLEAN /\ calls \in Nat
  BY DEF Init
<1> QED  BY <1>2, <1>3, <1>4, <1>5 DEF TypeOK

(* Every step keeps the types.                                             *)
LEMMA StepType == TypeOK /\ [Next]_vars => TypeOK'
<1> SUFFICES ASSUME TypeOK, [Next]_vars PROVE TypeOK'  OBVIOUS
<1> DEFINE CallOK == call' \in Call /\ call'.name <= counter'
           TheRest == /\ UNCHANGED <<size, cache, counter>>
                      /\ DOMAIN prepared' \subseteq Nat /\ \A n \in DOMAIN prepared' : prepared'[n] \in Keys
                      /\ async' \in {"idle", "busy", "copy_in", "copy_out"}
                      /\ coming' \in Seq(Results) /\ chunks' \in Nat /\ lost' \in BOOLEAN
                      /\ unread' \in BOOLEAN /\ calls' \in Nat
<1>a. CallOK /\ TheRest => TypeOK'  BY DEF TypeOK
<1>b. call \in Call /\ call.name <= counter /\ counter \in Nat /\ call.name \in Nat  BY DEF TypeOK, Call
<1>c. UNCHANGED <<prepared, async, coming, chunks, lost, unread, calls, size, cache, counter>> => TheRest
  BY DEF TypeOK
<1>d. ASSUME TakeResult, UNCHANGED <<size, cache, counter, calls>>, unread' \in BOOLEAN
      PROVE  TheRest
  BY <1>d, TakeResultType DEF TypeOK
<1>e. ASSUME NEW o \in {"none", "ok", "err", "unbound"}, NEW k \in Nat
      PROVE  Returns(o, k) \in Call /\ Returns(o, k).name = call.name
  BY <1>b, CallsType
<1>f. Refused \in Call /\ Refused.name = call.name /\ Opened \in Call /\ Opened.name = call.name
  <2>1. "ok" \in {"none", "ok", "err", "unbound"} /\ 1 \in Nat  OBVIOUS
  <2> QED  BY <1>b, <2>1, CallsType
<1>1. CASE UNCHANGED vars  BY <1>1, <1>a, <1>b, <1>c DEF vars
<1>2. ASSUME NEW s \in {"Unbounded", "Disabled"}, SetCacheSize(s)  PROVE TypeOK'
  BY <1>2 DEF SetCacheSize, CounterAfter, server, TypeOK
<1>3. ASSUME NEW kind \in Kinds \ {"batch"}, NEW key \in Keys, StartQuery(kind, key)
      PROVE  TypeOK'
  <2>1. CallOK  BY <1>3, <1>b DEF StartQuery, statements, Call
  <2>2. TheRest  BY <1>3 DEF StartQuery, statements, server, TypeOK
  <2> QED  BY <2>1, <2>2, <1>a
<1>4. ASSUME NEW outcome \in {"ok", "err", "unbound"}, BatchExecute(outcome)  PROVE TypeOK'
  <2>1. CallOK
    <3> DEFINE f == outcome = "err"
    <3>1. f \in BOOLEAN  OBVIOUS
    <3>2. \E k \in Keys :
             call' = [kind |-> "batch", key |-> k, name |-> 0, pc |-> "idle", fresh |-> TRUE,
                      failed |-> f, outcome |-> outcome,
                      finishes |-> IF outcome = "unbound" THEN 0 ELSE 1]
      BY <1>4 DEF BatchExecute
    <3>3. counter' \in Nat  BY <1>4, <1>b DEF BatchExecute, statements
    <3> HIDE DEF f
    <3> QED  BY <3>1, <3>2, <3>3 DEF Call
  <2>2. coming' \in Seq(Results) /\ async' \in {"idle", "busy", "copy_in", "copy_out"} /\ unread' \in BOOLEAN
    <3>1. \/ UNCHANGED <<async, coming, unread>>
          \/ async' = "idle" /\ coming' = <<>> /\ unread' = FALSE
      BY <1>4 DEF BatchExecute
    <3>2. <<>> \in Seq(Results)  OBVIOUS
    <3> QED  BY <3>1, <3>2 DEF TypeOK
  <2>3. TheRest  BY <2>2, <1>4 DEF BatchExecute, statements, TypeOK
  <2> QED  BY <2>1, <2>3, <1>a
<1>5. CASE CollectBindsFails
  <2>1. CallOK
    <3>1. \E k \in Nat : call' = Returns("unbound", k)  BY <1>5 DEF CollectBindsFails
    <3> QED  BY <3>1, <1>5, <1>b, <1>e DEF CollectBindsFails, statements
  <2> QED  BY <2>1, <1>5, <1>a, <1>c DEF CollectBindsFails, statements, server
<1>t. CASE TextRefused
  <2>1. call' \in Call /\ call'.name = call.name
    <3>1. call' = Returns("err", 1)  BY <1>t DEF TextRefused
    <3> QED  BY <3>1, <1>e
  <2>2. counter' \in Nat /\ counter <= counter'
    BY <1>t, <1>b DEF TextRefused
  <2>3. call'.name <= counter'  BY <2>1, <2>2, <1>b
  <2>4. \A k \in DOMAIN cache : cache[k] \in 1..counter'
    BY <2>2, <1>b DEF TypeOK
  <2> QED  BY <1>t, <2>1, <2>2, <2>3, <2>4 DEF TextRefused, server, TypeOK
<1>6. CASE FindStatement
  <2> DEFINE n == IF Uncached(call.key) THEN 0 ELSE cache[call.key]
  <2>1. n \in Nat /\ n <= counter  BY <1>6, <1>b DEF FindStatement, TypeOK
  <2>2. call' = [call EXCEPT !.pc = "send", !.name = n] /\ counter' = counter
    BY <1>6 DEF FindStatement, statements
  <2> HIDE DEF n
  <2>3. CallOK  BY <2>1, <2>2, <1>b DEF Call
  <2> QED  BY <2>3, <1>6, <1>a, <1>c DEF FindStatement, statements, server
<1>7. ASSUME NEW ok \in BOOLEAN, Prepare(ok)  PROVE TypeOK'
  <2>1. CallOK
    <3>1. counter' = counter + 1  BY <1>7 DEF Prepare
    <3>2. CASE ok
      <4> DEFINE n == counter + 1
      <4>1. call' = [call EXCEPT !.pc = "send", !.name = n] /\ n \in Nat
        BY <1>7, <3>2, <1>b DEF Prepare, NextName
      <4>2. counter' = n  BY <3>1
      <4> HIDE DEF n
      <4>3. call' \in Call  BY <4>1, <1>b DEF Call
      <4>4. call'.name = n  BY <4>1, <1>b DEF Call
      <4> QED  BY <4>1, <4>2, <4>3, <4>4
    <3>3. CASE ~ok
      <4>1. call' = Returns("err", 1)  BY <1>7, <3>3 DEF Prepare
      <4> QED  BY <3>1, <4>1, <1>b, <1>e
    <3> QED  BY <3>2, <3>3
  <2>2. call.key \in Keys  BY <1>b DEF Call
  <2>3. /\ DOMAIN prepared' \subseteq Nat /\ \A n \in DOMAIN prepared' : prepared'[n] \in Keys
        /\ DOMAIN cache' \subseteq Keys /\ \A k \in DOMAIN cache' : cache'[k] \in 1..counter'
    <3>1. /\ counter' = counter + 1 /\ counter \in Nat
          /\ prepared' = IF ok THEN With(prepared, counter + 1, call.key) ELSE prepared
          /\ cache' = IF ok THEN With(cache, call.key, counter + 1) ELSE cache
      BY <1>7, <1>b DEF Prepare, NextName, Registered
    <3>2. CASE ok  BY <3>1, <3>2, <2>2 DEF With, TypeOK
    <3>3. CASE ~ok  BY <3>1, <3>3 DEF TypeOK
    <3> QED  BY <3>2, <3>3
  <2>4. /\ counter' \in Nat /\ size' = size /\ async' = "idle" /\ coming' = <<>> /\ unread' = FALSE
        /\ UNCHANGED <<chunks, lost, calls>>
    BY <1>7, <1>b DEF Prepare
  <2>5. coming' \in Seq(Results)  BY <2>4
  <2> QED  BY <2>1, <2>3, <2>4, <2>5 DEF TypeOK
<1>8. CASE Send
  <2>1. PICK reply \in Replies(call.kind), n \in 0..MaxRows :
           /\ coming' = IF call.name # 0 /\ call.name \notin DOMAIN prepared THEN <<"error">> ELSE reply
           /\ chunks' = IF call.kind = "copy_to" THEN n ELSE 0
           /\ call' = [call EXCEPT !.pc = "first", !.failed = Fails(coming')]
    BY <1>8 DEF Send
  <2>2. coming' \in Seq(Results)
    <3>1. <<"error">> \in Seq(Results)  BY DEF Results
    <3>2. reply \in Seq(Results)  BY RepliesType
    <3> QED  BY <3>1, <3>2, <2>1
  <2>3. chunks' \in Nat  BY <2>1, StatementsAssumption DEF StatementsAssumption
  <2>4. CallOK
    <3> DEFINE f == Fails(coming')
    <3>1. f \in BOOLEAN  BY DEF Fails
    <3>2. call' = [call EXCEPT !.pc = "first", !.failed = f] /\ counter' = counter
      BY <2>1, <1>8 DEF Send, statements
    <3> HIDE DEF f
    <3> QED  BY <3>1, <3>2, <1>b DEF Call
  <2>5. TheRest  BY <2>2, <2>3, <1>8 DEF Send, statements, TypeOK
  <2> QED  BY <2>4, <2>5, <1>a
<1>9. CASE SendRefused
  BY <1>9, <1>a, <1>b, <1>c, <1>f DEF SendRefused, statements, server
<1>10. CASE FirstResult
  <2>1. call' \in Call /\ call'.name = call.name
    <3>1. CASE NextResult = "none"
      <4>1. call' = [call EXCEPT !.pc = "panic"]  BY <1>10, <3>1 DEF FirstResult
      <4> QED  BY <4>1, <1>b DEF Call
    <3>2. CASE NextResult \in {"error", "empty"}
      <4>1. call' = Refused  BY <1>10, <3>2 DEF FirstResult
      <4> QED  BY <4>1, <1>f
    <3>3. CASE NextResult \notin {"none", "error", "empty"}
      <4>1. call' = Opened  BY <1>10, <3>3 DEF FirstResult
      <4> QED  BY <4>1, <1>f
    <3> QED  BY <3>1, <3>2, <3>3
  <2>2. unread' \in BOOLEAN  BY <1>10 DEF FirstResult, TypeOK
  <2>3. TheRest  BY <1>10, <2>2, <1>d DEF FirstResult, statements
  <2> QED  BY <2>1, <2>3, <1>a, <1>b
<1>11. CASE Drain
  <2>1. call' \in Call /\ call'.name = call.name
    <3>1. CASE ReadsOn  BY <1>11, <3>1, <1>b DEF Drain
    <3>2. CASE ~ReadsOn
      <4> DEFINE o == IF NextResult = "error" THEN "err" ELSE call.outcome
      <4>1. call' = Returns(o, 1)  BY <1>11, <3>2 DEF Drain
      <4>2. o \in {"none", "ok", "err", "unbound"}  BY <1>b DEF Call
      <4> HIDE DEF o
      <4> QED  BY <4>1, <4>2, <1>e
    <3> QED  BY <3>1, <3>2
  <2>2. unread' \in BOOLEAN  BY <1>11 DEF Drain, TypeOK, ReadsOn
  <2>3. TheRest  BY <1>11, <2>2, <1>d DEF Drain, statements
  <2> QED  BY <2>1, <2>3, <1>a, <1>b
<1>12. CASE CursorNew
  <2>1. call' \in Call /\ call'.name = call.name
    <3>1. \/ call' = Returns("ok", 1) \/ call' = Returns("err", 1) \/ call' = [call EXCEPT !.pc = "panic"]
      BY <1>12 DEF CursorNew
    <3>2. [call EXCEPT !.pc = "panic"] \in Call /\ [call EXCEPT !.pc = "panic"].name = call.name
      BY <1>b DEF Call
    <3>3. "ok" \in {"none", "ok", "err", "unbound"} /\ "err" \in {"none", "ok", "err", "unbound"}
      OBVIOUS
    <3> QED  BY <3>1, <3>2, <3>3, <1>e
  <2>2. TheRest  BY <1>12, <1>d DEF CursorNew, statements, TypeOK
  <2> QED  BY <2>1, <2>2, <1>a, <1>b
<1>13. CASE Dropping
  <2>1. call' \in Call /\ call'.name = call.name
    <3>1. CASE DropsOn  BY <1>13, <3>1, <1>b DEF Dropping
    <3>2. CASE ~DropsOn
      <4> DEFINE o == call.outcome
      <4>1. call' = Returns(o, 1)  BY <1>13, <3>2 DEF Dropping
      <4>2. o \in {"none", "ok", "err", "unbound"}  BY <1>b DEF Call
      <4> HIDE DEF o
      <4> QED  BY <4>1, <4>2, <1>e
    <3> QED  BY <3>1, <3>2
  <2>2. TheRest  BY <1>13, <1>d DEF Dropping, statements, TypeOK
  <2> QED  BY <2>1, <2>2, <1>a, <1>b
<1>14. CASE Finish
  <2>1. PICK reply \in {<<"done">>, <<"error">>} :
           \/ call' = Returns("err", 1) /\ UNCHANGED <<async, coming>>
           \/ /\ async' = "busy" /\ coming' = reply
              /\ call' = [call EXCEPT !.pc = "result", !.failed = Fails(reply)]
    BY <1>14 DEF Finish, CopyEnds
  <2>2. CallOK
    <3> DEFINE f == Fails(reply)
    <3>1. f \in BOOLEAN  BY DEF Fails
    <3>2. \/ call' = Returns("err", 1) \/ call' = [call EXCEPT !.pc = "result", !.failed = f]
      BY <2>1
    <3>3. counter' = counter  BY <1>14 DEF Finish, statements
    <3> HIDE DEF f
    <3>4. [call EXCEPT !.pc = "result", !.failed = f] \in Call
          /\ [call EXCEPT !.pc = "result", !.failed = f].name = call.name
      BY <3>1, <1>b DEF Call
    <3> QED  BY <3>2, <3>3, <3>4, <1>b, <1>e
  <2>3. <<"done">> \in Seq(Results) /\ <<"error">> \in Seq(Results)  BY DEF Results
  <2>4. TheRest  BY <2>1, <2>3, <1>14 DEF Finish, statements, TypeOK
  <2> QED  BY <2>2, <2>4, <1>a
<1>15. CASE CopyResult
  <2>1. call' \in Call /\ call'.name = call.name
    <3>1. call' = Returns("err", 1) \/ call' = [call EXCEPT !.pc = "drain"]
      BY <1>15 DEF CopyResult
    <3>2. [call EXCEPT !.pc = "drain"] \in Call /\ [call EXCEPT !.pc = "drain"].name = call.name
      BY <1>b DEF Call
    <3> QED  BY <3>1, <3>2, <1>e
  <2>2. TheRest  BY <1>15, <1>d DEF CopyResult, statements, TypeOK
  <2> QED  BY <2>1, <2>2, <1>a, <1>b
<1>16. CASE Next1
  <2>1. call' \in Call /\ call'.name = call.name
    <3>1. \/ call' = [call EXCEPT !.fresh = FALSE]
          \/ call' = [call EXCEPT !.finishes = call.finishes + 1]
          \/ call' = call
      BY <1>16 DEF Next1
    <3> DEFINE n == call.finishes + 1
    <3>2. n \in Nat  BY <1>b DEF Call
    <3>3. \/ call' = [call EXCEPT !.fresh = FALSE]
          \/ call' = [call EXCEPT !.finishes = n]
          \/ call' = call
      BY <3>1
    <3> HIDE DEF n
    <3> QED  BY <3>2, <3>3, <1>b DEF Call
  <2>2. unread' \in BOOLEAN /\ UNCHANGED <<size, cache, counter, calls, unread>>
    BY <1>16 DEF Next1, statements, TypeOK
  <2>3. CASE TakeResult  BY <2>1, <2>2, <2>3, <1>d, <1>a, <1>b
  <2>4. CASE UNCHANGED server  BY <2>1, <2>2, <2>4, <1>c, <1>a, <1>b DEF server
  <2> QED  BY <2>3, <2>4, <1>16 DEF Next1
<1>17. CASE FillBuf
  <2>1. chunks' \in Nat /\ async' \in {"idle", "busy", "copy_in", "copy_out"}
    BY <1>17 DEF FillBuf, TypeOK
  <2>2. TheRest  BY <2>1, <1>17 DEF FillBuf, statements, TypeOK
  <2> QED  BY <2>2, <1>17, <1>a, <1>b DEF FillBuf
<1>18. CASE Lose
  <2>1. CallOK
    <3> DEFINE f == (async = "busy" \/ call.failed)
    <3>1. f \in BOOLEAN  OBVIOUS
    <3>2. call' = [call EXCEPT !.failed = f] /\ counter' = counter
      BY <1>18 DEF Lose, statements
    <3> HIDE DEF f
    <3> QED  BY <3>1, <3>2, <1>b DEF Call
  <2>2. coming' \in Seq(Results)
    <3>1. <<"error">> \in Seq(Results)  BY DEF Results
    <3> QED  BY <3>1, <1>18 DEF Lose, TypeOK
  <2>3. TheRest  BY <2>2, <1>18 DEF Lose, statements, TypeOK
  <2> QED  BY <2>1, <2>3, <1>a
<1>19. CASE DropCursor
  <2>1. CallOK  BY <1>19, <1>b DEF DropCursor, statements, Call
  <2> QED  BY <2>1, <1>19, <1>a, <1>c DEF DropCursor, statements, server
<1>20. CASE DropBuffer
  <2>1. CallOK  BY <1>20, <1>b, <1>e DEF DropBuffer, statements
  <2> QED  BY <2>1, <1>20, <1>a, <1>c DEF DropBuffer, statements, server
<1>21. ASSUME NEW ok \in BOOLEAN, Written(ok)  PROVE TypeOK'
  <2>1. CallOK  BY <1>21, <1>b DEF Written, statements, Call
  <2> QED  BY <2>1, <1>21, <1>a, <1>c DEF Written, statements, server
<1> HIDE DEF CallOK, TheRest
<1> QED
  BY <1>1, <1>2, <1>3, <1>4, <1>5, <1>6, <1>7, <1>8, <1>9, <1>10, <1>11, <1>12, <1>13,
     <1>14, <1>15, <1>16, <1>17, <1>18, <1>19, <1>20, <1>21, <1>t DEF Next, Progress, Caller

(* Cache, names, results and the call keep their types, in every state.     *)
THEOREM TypeCorrect == Spec => []TypeOK
BY InitType, StepType, PTL DEF Spec

-------------------------------------------------------------------------------
(* Before a call is sent and after it has returned nothing is left to read,
   but for what makes unread true; the buffer of a COPY TO always does.     *)
Settled ==
    /\ call.pc \in {"idle", "prepare", "send"} /\ ~unread => async = "idle" \/ lost
    /\ call.pc = "copy_to" => unread

(* A read that finds the end, or an error, leaves libpq idle.               *)
LEMMA EndOfResults ==
    ASSUME TakeResult, NextResult \in {"none", "error"}
    PROVE  async' = "idle"
BY DEF TakeResult, Cleared

LEMMA SettledStep == TypeOK /\ Settled /\ [Next]_vars => Settled'
<1> SUFFICES ASSUME TypeOK, Settled, [Next]_vars PROVE Settled'  OBVIOUS
<1> USE DEF Settled
<1>a. call \in Call  BY DEF TypeOK
<1>b. \A o, n : Returns(o, n).pc = "idle"  BY <1>a DEF Returns, Call
<1>c. Refused.pc \in {"idle", "drain"}  BY <1>a, <1>b DEF Refused, Call
<1>d. Opened.pc \in {"drain", "cursor_new", "rows", "copy_to", "copy_from"}
      /\ (Opened.pc = "copy_to" => call.kind = "copy_to")
  BY <1>a DEF Opened, Call
<1>1. CASE UNCHANGED vars  BY <1>1 DEF vars
<1>2. ASSUME NEW s \in {"Unbounded", "Disabled"}, SetCacheSize(s)  PROVE Settled'
  BY <1>2 DEF SetCacheSize, server
<1>3. ASSUME NEW kind \in Kinds \ {"batch"}, NEW key \in Keys, StartQuery(kind, key)
      PROVE  Settled'
  BY <1>3 DEF StartQuery, statements, server
<1>4. ASSUME NEW outcome \in {"ok", "err", "unbound"}, BatchExecute(outcome)  PROVE Settled'
  BY <1>4 DEF BatchExecute
<1>5. CASE CollectBindsFails  BY <1>5, <1>b DEF CollectBindsFails, statements, server
<1>t. CASE TextRefused        BY <1>t, <1>b DEF TextRefused, server
<1>6. CASE FindStatement
  <2>1. call'.pc = "send"  BY <1>6, <1>a DEF FindStatement, Call
  <2> QED  BY <2>1, <1>6 DEF FindStatement, statements, server
<1>7. ASSUME NEW ok \in BOOLEAN, Prepare(ok)  PROVE Settled'
  <2>1. call'.pc # "copy_to"  BY <1>7, <1>a, <1>b DEF Prepare, Call
  <2> QED  BY <2>1, <1>7 DEF Prepare
<1>8. CASE Send
  <2>1. call'.pc = "first"  BY <1>8, <1>a DEF Send, Call
  <2> QED  BY <2>1
<1>9. CASE SendRefused  BY <1>9, <1>c DEF SendRefused, statements, server
<1>10. CASE FirstResult
  <2>1. CASE NextResult = "none"
    <3>1. call'.pc = "panic"  BY <1>10, <2>1, <1>a DEF FirstResult, Call
    <3> QED  BY <3>1
  <2>2. CASE NextResult = "error"
    <3>1. async' = "idle" /\ call' = Refused  BY <1>10, <2>2, EndOfResults DEF FirstResult
    <3> QED  BY <3>1, <1>c
  <2>3. CASE NextResult = "empty"
    <3>1. call' = Refused /\ (call.kind # "execute" => unread')  BY <1>10, <2>3 DEF FirstResult
    <3>2. call.kind = "execute" => Refused.pc = "drain"  BY <1>a DEF Refused, Call
    <3> QED  BY <3>1, <3>2, <1>c
  <2>4. CASE NextResult \notin {"none", "error", "empty"}
    <3>1. call' = Opened /\ (call.kind = "copy_to" => unread')  BY <1>10, <2>4 DEF FirstResult
    <3> QED  BY <3>1, <1>d
  <2> QED  BY <2>1, <2>2, <2>3, <2>4
<1>11. CASE Drain
  <2>1. CASE ReadsOn  BY <2>1, <1>11 DEF Drain
  <2>2. CASE ~ReadsOn
    <3>1. async' = "idle"  BY <2>2, <1>11, EndOfResults DEF Drain, ReadsOn
    <3>2. call'.pc = "idle"  BY <2>2, <1>11, <1>b DEF Drain
    <3> QED  BY <3>1, <3>2
  <2> QED  BY <2>1, <2>2
<1>12. CASE CursorNew
  <2>1. CASE NextResult \in {"none", "error"}
    <3>1. async' = "idle"  BY <2>1, <1>12, EndOfResults DEF CursorNew
    <3>2. call'.pc = "idle"  BY <2>1, <1>12, <1>b DEF CursorNew
    <3> QED  BY <3>1, <3>2
  <2>2. CASE NextResult \notin {"none", "error"}
    <3>1. call'.pc = "panic"  BY <2>2, <1>12, <1>a DEF CursorNew, Call
    <3> QED  BY <3>1
  <2> QED  BY <2>1, <2>2
<1>13. CASE Dropping
  <2>1. CASE DropsOn  BY <2>1, <1>13 DEF Dropping
  <2>2. CASE ~DropsOn
    <3>1. async' = "idle"  BY <2>2, <1>13, EndOfResults DEF Dropping, DropsOn
    <3>2. call'.pc = "idle"  BY <2>2, <1>13, <1>b DEF Dropping
    <3> QED  BY <3>1, <3>2
  <2> QED  BY <2>1, <2>2
<1>14. CASE Finish
  <2>1. \/ lost /\ lost' /\ call'.pc = "idle"
        \/ call'.pc = "result"
    <3>1. CASE lost  BY <3>1, <1>14, <1>b DEF Finish
    <3>2. CASE ~lost
      <4>1. PICK reply : call' = [call EXCEPT !.pc = "result", !.failed = Fails(reply)]
        BY <3>2, <1>14 DEF Finish, CopyEnds
      <4> QED  BY <4>1, <1>a DEF Call
    <3> QED  BY <3>1, <3>2
  <2> QED  BY <2>1
<1>15. CASE CopyResult
  <2>1. CASE CopyFailed
    <3>1. async' = "idle"  BY <2>1, <1>15, EndOfResults DEF CopyResult, CopyFailed
    <3>2. call'.pc = "idle"  BY <2>1, <1>15, <1>b DEF CopyResult
    <3> QED  BY <3>1, <3>2
  <2>2. CASE ~CopyFailed
    <3>1. call'.pc = "drain"  BY <2>2, <1>15, <1>a DEF CopyResult, Call
    <3> QED  BY <3>1
  <2> QED  BY <2>1, <2>2
<1>16. CASE Next1
  <2>1. call'.pc = "rows"  BY <1>16, <1>a DEF Next1, Call
  <2> QED  BY <2>1
<1>17. CASE FillBuf  BY <1>17 DEF FillBuf
<1>18. CASE Lose
  <2>1. call'.pc = call.pc /\ lost' /\ unread' = unread  BY <1>18, <1>a DEF Lose, Call
  <2> QED  BY <2>1
<1>19. CASE DropCursor
  <2>1. call'.pc = "dropping"  BY <1>19, <1>a DEF DropCursor, Call
  <2> QED  BY <2>1
<1>20. CASE DropBuffer
  <2>1. call'.pc = "idle" /\ unread'  BY <1>20, <1>b DEF DropBuffer
  <2> QED  BY <2>1
<1>21. ASSUME NEW ok \in BOOLEAN, Written(ok)  PROVE Settled'
  <2>1. call'.pc = "finish"  BY <1>21, <1>a DEF Written, Call
  <2> QED  BY <2>1
<1> HIDE DEF Settled
<1> QED
  BY <1>1, <1>2, <1>3, <1>4, <1>5, <1>6, <1>7, <1>8, <1>9, <1>10, <1>11, <1>12, <1>13,
     <1>14, <1>15, <1>16, <1>17, <1>18, <1>19, <1>20, <1>21, <1>t DEF Next, Progress, Caller

(* Whatever a call ends with, however early a cursor is dropped, the next
   statement can be sent.                                                  *)
THEOREM ReadyForNextHolds == Spec => []ReadyForNext
<1>1. Init => Settled
  <2> SUFFICES ASSUME Init PROVE Settled  OBVIOUS
  <2>1. call.pc = "idle" /\ async = "idle"  BY DEF Init
  <2> QED  BY <2>1 DEF Settled
<1>2. Settled => ReadyForNext  BY DEF Settled, ReadyForNext, Free
<1> QED  BY InitType, StepType, SettledStep, <1>1, <1>2, PTL DEF Spec

-------------------------------------------------------------------------------
(* What a call reports.  FailureIsAhead: a call that would return Ok has any
   failure of its statement still to read; RowsReported: so has a row by row
   cursor, whose results are rows and at most one error; Reported: how many
   FinishQuery events there are at each position.                           *)

KindFits ==
    /\ call.pc \in {"rows", "dropping"} => call.kind = "row_by_row"
    /\ call.pc = "copy_to" => call.kind = "copy_to"

(* A call that returns Ok unless it reads an error.                         *)
Ongoing ==
    \/ call.pc = "first" /\ call.kind \in {"execute", "load"}
    \/ call.pc \in {"cursor_new", "result"}
    \/ call.pc = "drain" /\ call.outcome = "ok"

(* At most one result is left, and a failure is that result.                *)
LastAhead ==
    /\ async = "busy"
    /\ coming \in {<<>>, <<"done">>, <<"error">>, <<"empty">>}
    /\ call.failed => coming = <<"error">>

FailureIsAhead ==
    /\ Ongoing => LastAhead
    /\ Free /\ call.outcome = "ok" /\ call.kind \notin {"row_by_row", "copy_to"} =>
          ~call.failed /\ async # "busy"

RowsAhead ==
    /\ async \in {"idle", "busy"}
    /\ \A i \in DOMAIN coming : /\ coming[i] \in {"row", "done", "error", "empty"}
                                /\ coming[i] = "error" => call.failed

RowsReported ==
    call.pc \in {"first", "rows", "dropping"} /\ call.kind = "row_by_row" => RowsAhead

Reported ==
    /\ Free => ReportedOnce
    /\ call.pc = "copy_to" => call.finishes = 1
    /\ call.pc \in {"rows", "dropping"} =>
          call.finishes = 0 \/ (call.finishes = 1 /\ call.failed /\ async = "idle")
    /\ call.pc \in {"prepare", "send", "first", "cursor_new", "drain", "copy_from", "finish",
                    "result"} => call.finishes = 0

ReportInv == KindFits /\ FailureIsAhead /\ RowsReported /\ Reported

(* The next of a call's last results: the end, an error, or the one result.  *)
LEMMA TakeLast ==
    ASSUME TakeResult, LastAhead
    PROVE  \/ NextResult = "none" /\ async' = "idle" /\ ~call.failed
           \/ NextResult = "error" /\ async' = "idle"
           \/ /\ NextResult \in {"done", "empty"} /\ async' = "busy" /\ coming' = <<>>
              /\ ~call.failed
<1>1. CASE coming = <<>>
  BY <1>1 DEF TakeResult, LastAhead, NextResult, Cleared
<1>2. CASE coming = <<"error">>
  BY <1>2 DEF TakeResult, LastAhead, NextResult, Cleared
<1>3. ASSUME NEW r \in {"done", "empty"}, coming = <<r>>
      PROVE  /\ NextResult = r /\ async' = "busy" /\ coming' = <<>> /\ ~call.failed
  <2>1. coming # <<>> /\ Head(coming) = r /\ Tail(coming) = <<>> /\ coming # <<"error">>
    BY <1>3
  <2> QED BY <2>1 DEF TakeResult, LastAhead, NextResult, Cleared
<1> QED BY <1>1, <1>2, <1>3 DEF LastAhead

(* The next of a cursor's results: after an error there is no other.         *)
LEMMA TakeRow ==
    ASSUME TypeOK, TakeResult, RowsAhead
    PROVE  /\ async' \in {"idle", "busy"}
           /\ \A i \in DOMAIN coming' : /\ coming'[i] \in {"row", "done", "error", "empty"}
                                        /\ coming'[i] = "error" => call.failed
           /\ NextResult \in {"none", "row", "done", "error", "empty"}
           /\ NextResult = "error" => call.failed /\ async' = "idle"
           /\ async = "idle" => NextResult = "none" /\ async' = "idle"
<1>1. CASE async = "idle"
  <2>1. NextResult = "none" /\ async' = "idle" /\ ~Cleared
    BY <1>1 DEF NextResult, TakeResult, Cleared
  <2>2. coming' = coming
    BY <1>1, <2>1 DEF TakeResult
  <2> QED BY <2>1, <2>2 DEF RowsAhead
<1>2. CASE async = "busy" /\ coming = <<>>
  <2>1. NextResult = "none" /\ async' = "idle" /\ coming' = <<>>
    BY <1>2 DEF NextResult, TakeResult
  <2> QED BY <1>2, <2>1 DEF RowsAhead
<1>3. CASE async = "busy" /\ coming # <<>>
  <2>1. /\ coming \in Seq(Results) /\ Len(coming) \in Nat \ {0}
        /\ DOMAIN coming = 1..Len(coming) /\ Head(coming) = coming[1] /\ 1 \in DOMAIN coming
    BY <1>3 DEF TypeOK
  <2>2. NextResult = coming[1] /\ coming[1] \in {"row", "done", "error", "empty"}
        /\ (coming[1] = "error" => call.failed)
    BY <1>3, <2>1 DEF NextResult, RowsAhead
  <2>3. CASE NextResult = "error"
    <3>1. async' = "idle" /\ coming' = <<>>
      BY <2>3 DEF TakeResult, Cleared
    <3> QED BY <1>3, <2>2, <2>3, <3>1
  <2>4. CASE NextResult # "error"
    <3>1. async' = "busy" /\ coming' = Tail(coming)
      BY <1>3, <2>2, <2>4 DEF TakeResult, Cleared
    <3>2. \A i \in DOMAIN Tail(coming) : i + 1 \in DOMAIN coming /\ Tail(coming)[i] = coming[i + 1]
      BY <2>1, <1>3
    <3> QED BY <1>3, <2>2, <2>4, <3>1, <3>2 DEF RowsAhead
  <2> QED BY <2>3, <2>4
<1> QED BY <1>1, <1>2, <1>3 DEF RowsAhead

(* What the server answers fits the kind of the call.                       *)
LEMMA RepliesFit ==
    ASSUME NEW kind, NEW reply \in Replies(kind)
    PROVE  /\ kind \in {"execute", "load"} => reply \in {<<"done">>, <<"error">>, <<"empty">>}
           /\ kind = "row_by_row" =>
                 \A i \in DOMAIN reply : reply[i] \in {"row", "done", "error", "empty"}
<1>1. ASSUME kind \in {"execute", "load"} PROVE reply \in {<<"done">>, <<"error">>, <<"empty">>}
  <2>1. Replies(kind) = {<<"done">>, <<"error">>, <<"empty">>}
    BY <1>1 DEF Replies
  <2> QED BY <2>1
<1>2. ASSUME kind = "row_by_row", NEW i \in DOMAIN reply
      PROVE  reply[i] \in {"row", "done", "error", "empty"}
  <2>1. CASE reply = <<"empty">>
    <3>1. DOMAIN reply = {1} /\ reply[1] = "empty"
      BY <2>1
    <3> QED BY <1>2, <3>1
  <2>2. ASSUME NEW r \in Rows, NEW e \in {"done", "error"}, reply = r \o <<e>>
        PROVE  reply[i] \in {"row", "done", "error", "empty"}
    <3>1. PICK n \in 0..MaxRows : r = [k \in 1..n |-> "row"]
      BY DEF Rows
    <3>2. n \in Nat
      BY StatementsAssumption DEF StatementsAssumption
    <3>3. r \in Seq({"row"}) /\ Len(r) = n /\ \A k \in 1..n : r[k] = "row"
      BY <3>1, <3>2
    <3>4. DOMAIN reply = 1..(n + 1) /\ reply[n + 1] = e /\ \A k \in 1..n : reply[k] = r[k]
      BY <2>2, <3>2, <3>3
    <3> QED BY <1>2, <3>2, <3>3, <3>4
  <2>3. \/ \E r \in Rows, e \in {"done", "error"} : reply = r \o <<e>>
        \/ reply = <<"empty">>
    BY <1>2 DEF Replies
  <2> QED BY <2>1, <2>2, <2>3
<1> QED BY <1>1, <1>2

(* Only an error fails a result of one.                                     *)
LEMMA FailsIs ==
    /\ ~Fails(<<"done">>) /\ ~Fails(<<"empty">>) /\ Fails(<<"error">>)
<1>1. DOMAIN <<"done">> = {1} /\ DOMAIN <<"empty">> = {1} /\ DOMAIN <<"error">> = {1}
  OBVIOUS
<1> QED BY <1>1 DEF Fails

LEMMA ReportStep == TypeOK /\ ReportInv /\ [Next]_vars => ReportInv'
<1> SUFFICES ASSUME TypeOK, ReportInv, [Next]_vars PROVE ReportInv'  OBVIOUS
<1>k. KindFits /\ FailureIsAhead /\ RowsReported /\ Reported  BY DEF ReportInv
<1>a. call \in Call /\ call.finishes \in Nat /\ call.failed \in BOOLEAN /\ call.kind \in Kinds \cup {"batch"}
  BY DEF TypeOK, Call
(* What is left of the call when it returns, is refused, or is opened.      *)
<1>b. ASSUME NEW o, NEW n \in Nat
      PROVE  /\ Returns(o, n).pc = "idle" /\ Returns(o, n).kind = call.kind
             /\ Returns(o, n).failed = call.failed /\ Returns(o, n).outcome = o
             /\ Returns(o, n).finishes = call.finishes + n
  BY <1>a DEF Returns, Call
<1>c. /\ Refused.kind = call.kind /\ Refused.failed = call.failed /\ Refused.outcome = "err"
      /\ \/ Refused.pc = "drain" /\ Refused.finishes = call.finishes
         \/ Refused.pc = "idle" /\ Refused.finishes = call.finishes + 1
  <2>1. CASE call.kind = "execute"  BY <2>1, <1>a DEF Refused, Call
  <2>2. CASE call.kind # "execute"
    <3>1. Refused = Returns("err", 1)  BY <2>2 DEF Refused
    <3> QED  BY <3>1, <1>b
  <2> QED  BY <2>1, <2>2
<1>d. /\ Opened.kind = call.kind /\ Opened.failed = call.failed
      /\ \/ Opened.pc = "drain" /\ call.kind = "execute" /\ Opened.finishes = call.finishes
         \/ Opened.pc = "cursor_new" /\ call.kind = "load" /\ Opened.finishes = call.finishes
         \/ Opened.pc = "rows" /\ call.kind = "row_by_row" /\ Opened.finishes = call.finishes
         \/ Opened.pc = "copy_to" /\ call.kind = "copy_to" /\ Opened.finishes = 1
         \/ Opened.pc = "copy_from" /\ Opened.finishes = call.finishes
  <2>1. CASE call.kind = "execute"     BY <2>1, <1>a DEF Opened, Call
  <2>2. CASE call.kind = "load"        BY <2>2, <1>a DEF Opened, Call
  <2>3. CASE call.kind = "row_by_row"  BY <2>3, <1>a DEF Opened, Call
  <2>4. CASE call.kind = "copy_to"     BY <2>4, <1>a DEF Opened, Call
  <2>5. CASE call.kind \notin {"execute", "load", "row_by_row", "copy_to"}
    BY <2>5, <1>a DEF Opened, Call
  <2> QED  BY <2>1, <2>2, <2>3, <2>4, <2>5
(* A call that is over, or that has not read anything yet.                  *)
<1>e. ASSUME call'.pc = "idle", call'.outcome \notin {"ok"}, call'.finishes = 1
      PROVE  ReportInv'
  BY <1>e DEF ReportInv, KindFits, FailureIsAhead, Ongoing, RowsReported, Reported, ReportedOnce, Free
<1>f. ASSUME call'.pc \in {"prepare", "send", "copy_from", "finish"}, call'.finishes = 0
      PROVE  ReportInv'
  BY <1>f DEF ReportInv, KindFits, FailureIsAhead, Ongoing, RowsReported, Reported, Free
<1>g. ASSUME call'.pc = "panic"
      PROVE  ReportInv'
  BY <1>g DEF ReportInv, KindFits, FailureIsAhead, Ongoing, RowsReported, Reported, Free
(* A call that reads on, and returns an error in any case.                  *)
<1>h. ASSUME call'.pc = "drain", call'.outcome # "ok", call'.finishes = 0
      PROVE  ReportInv'
  BY <1>h DEF ReportInv, KindFits, FailureIsAhead, Ongoing, RowsReported, Reported, Free
(* A call that reads on.                                                    *)
<1>i. ASSUME call'.pc \in {"drain", "cursor_new", "result"}, call'.finishes = 0, LastAhead'
      PROVE  ReportInv'
  BY <1>i DEF ReportInv, KindFits, FailureIsAhead, Ongoing, RowsReported, Reported, Free
(* A call that returns Ok.                                                  *)
<1>j. ASSUME call'.pc = "idle", ~call'.failed, async' # "busy", call'.finishes = 1
      PROVE  ReportInv'
  BY <1>j DEF ReportInv, KindFits, FailureIsAhead, Ongoing, RowsReported, Reported, ReportedOnce, Free
<1>1. CASE UNCHANGED <<call, async, coming>>
  BY <1>1, <1>k DEF ReportInv, KindFits, FailureIsAhead, Ongoing, LastAhead, RowsReported, RowsAhead,
       Reported, ReportedOnce, Free
<1>2. ASSUME NEW s \in {"Unbounded", "Disabled"}, SetCacheSize(s)  PROVE ReportInv'
  BY <1>2, <1>1 DEF SetCacheSize, server
<1>3. ASSUME NEW kind \in Kinds \ {"batch"}, NEW key \in Keys, StartQuery(kind, key)
      PROVE  ReportInv'
  BY <1>3, <1>f DEF StartQuery
<1>4. ASSUME NEW outcome \in {"ok", "err", "unbound"}, BatchExecute(outcome)  PROVE ReportInv'
  <2> DEFINE f == outcome = "err"
             n == IF outcome = "unbound" THEN 0 ELSE 1
  <2>a. PICK k \in Keys :
           call' = [kind |-> "batch", key |-> k, name |-> 0, pc |-> "idle", fresh |-> TRUE,
                    failed |-> f, outcome |-> outcome, finishes |-> n]
    BY Zenon, <1>4 DEF BatchExecute
  <2> HIDE DEF f, n
  <2>b. /\ call'.kind = "batch" /\ call'.pc = "idle" /\ call'.failed = f
        /\ call'.outcome = outcome /\ call'.finishes = n
    BY ONLY <2>a
  <2>1. /\ call'.kind = "batch" /\ call'.pc = "idle" /\ (call'.failed <=> outcome = "err")
        /\ call'.outcome = outcome /\ call'.finishes = (IF outcome = "unbound" THEN 0 ELSE 1)
    BY ONLY <2>b DEF f, n
  <2>2. CASE outcome = "unbound"
    BY <2>1, <2>2 DEF ReportInv, KindFits, FailureIsAhead, Ongoing, RowsReported, Reported,
         ReportedOnce, Free
  <2>3. CASE outcome = "err"  BY <2>1, <2>3, <1>e
  <2>4. CASE outcome = "ok"   BY <2>1, <2>4, <1>4, <1>j DEF BatchExecute
  <2> QED  BY <2>2, <2>3, <2>4
<1>5. CASE CollectBindsFails
  <2>1. call.pc = "prepare" /\ call.finishes = 0
    BY <1>5, <1>k DEF CollectBindsFails, Reported
  <2>2. /\ call'.pc = "idle" /\ call'.kind = call.kind /\ call'.outcome = "unbound"
        /\ call'.finishes = IF call.kind = "execute" THEN 1 ELSE 0
    BY <1>5, <1>b, <2>1 DEF CollectBindsFails
  <2> QED
    BY <2>2 DEF ReportInv, KindFits, FailureIsAhead, Ongoing, RowsReported, Reported, ReportedOnce, Free
<1>t. CASE TextRefused
  <2>1. call.finishes = 0 /\ call' = Returns("err", 1)
    BY <1>t, <1>k DEF TextRefused, Reported
  <2> QED  BY <2>1, <1>b, <1>e
<1>6. CASE FindStatement
  <2>1. call'.pc = "send" /\ call'.finishes = call.finishes /\ call.pc = "prepare"
    BY <1>6, <1>a DEF FindStatement, Call
  <2> QED  BY <2>1, <1>k, <1>f DEF Reported
<1>7. ASSUME NEW ok \in BOOLEAN, Prepare(ok)  PROVE ReportInv'
  <2>1. call.pc = "prepare" /\ call.finishes = 0
    BY <1>7, <1>k DEF Prepare, Reported
  <2>2. CASE ok
    <3>1. call'.pc = "send" /\ call'.finishes = 0
      BY <1>7, <2>1, <2>2, <1>a DEF Prepare, Call
    <3> QED  BY <3>1, <1>f
  <2>3. CASE ~ok
    <3>1. call' = Returns("err", 1)  BY <1>7, <2>3 DEF Prepare
    <3> QED  BY <2>1, <3>1, <1>b, <1>e
  <2> QED  BY <2>2, <2>3
<1>8. CASE Send
  <2>1. PICK reply \in Replies(call.kind) :
           /\ coming' \in {<<"error">>, reply}
           /\ call' = [call EXCEPT !.pc = "first", !.failed = Fails(coming')]
    BY <1>8 DEF Send
  <2>2. async' = "busy" /\ call.pc = "send" /\ call.finishes = 0
    BY <1>8, <1>k DEF Send, Reported
  <2> DEFINE f == Fails(coming')
  <2>3. f \in BOOLEAN  BY DEF Fails
  <2>4. call'.pc = "first" /\ call'.kind = call.kind /\ call'.failed = f /\ call'.finishes = 0
    <3>1. call' = [call EXCEPT !.pc = "first", !.failed = f]  BY <2>1
    <3> HIDE DEF f
    <3> QED  BY <3>1, <2>2, <1>a DEF Call
  <2>5. KindFits' /\ Reported' /\ ~Free'
    BY <2>4 DEF KindFits, Reported, Free
  <2>6. FailureIsAhead'
    <3> SUFFICES ASSUME call.kind \in {"execute", "load"} PROVE LastAhead'
      BY <2>4, <2>5 DEF FailureIsAhead, Ongoing
    <3>1. coming' \in {<<"done">>, <<"error">>, <<"empty">>}
      BY <2>1, RepliesFit
    <3>2. f => coming' = <<"error">>
      BY <3>1, FailsIs
    <3> QED  BY <2>2, <2>4, <3>1, <3>2 DEF LastAhead
  <2>7. RowsReported'
    <3> SUFFICES ASSUME call.kind = "row_by_row" PROVE RowsAhead'
      BY <2>4 DEF RowsReported
    <3>1. \A i \in DOMAIN coming' : coming'[i] \in {"row", "done", "error", "empty"}
      <4>1. CASE coming' = reply  BY <4>1, RepliesFit
      <4>2. CASE coming' = <<"error">>
        <5>1. DOMAIN coming' = {1} /\ coming'[1] = "error"  BY <4>2
        <5> QED  BY <5>1
      <4> QED  BY <4>1, <4>2, <2>1
    <3>2. \A i \in DOMAIN coming' : coming'[i] = "error" => f
      BY DEF Fails
    <3> QED  BY <2>2, <2>4, <3>1, <3>2 DEF RowsAhead
  <2> QED  BY <2>5, <2>6, <2>7 DEF ReportInv
<1>9. CASE SendRefused
  <2>1. call.finishes = 0 /\ call' = Refused
    BY <1>9, <1>k DEF SendRefused, Reported
  <2> QED  BY <2>1, <1>c, <1>e, <1>h
<1>10. CASE FirstResult
  <2>1. call.pc = "first" /\ call.finishes = 0 /\ TakeResult
    BY <1>10, <1>k DEF FirstResult, Reported
  <2>2. CASE NextResult = "none"
    <3>1. call' = [call EXCEPT !.pc = "panic"]  BY <1>10, <2>2 DEF FirstResult
    <3> QED  BY <3>1, <1>a, <1>g DEF Call
  <2>3. CASE NextResult \in {"error", "empty"}
    <3>1. call' = Refused  BY <1>10, <2>3 DEF FirstResult
    <3> QED  BY <2>1, <3>1, <1>c, <1>e, <1>h
  <2>4. CASE NextResult \notin {"none", "error", "empty"}
    <3>1. call' = Opened  BY <1>10, <2>4 DEF FirstResult
    <3>2. CASE Opened.pc \in {"drain", "cursor_new"}
      <4>1. call.kind \in {"execute", "load"} /\ Opened.finishes = 0 /\ Opened.failed = call.failed
        BY <3>2, <2>1, <1>d
      <4>2. LastAhead
        BY <4>1, <2>1, <1>k DEF FailureIsAhead, Ongoing
      <4>3. async' = "busy" /\ coming' = <<>> /\ ~call.failed
        BY <4>2, <2>1, <2>4, TakeLast
      <4>4. LastAhead'
        BY <4>1, <4>3, <3>1 DEF LastAhead
      <4> QED  BY <3>1, <3>2, <4>1, <4>4, <1>i
    <3>3. CASE Opened.pc = "rows"
      <4>1. call.kind = "row_by_row" /\ Opened.kind = call.kind /\ Opened.finishes = 0 /\ Opened.failed = call.failed
        BY <3>3, <2>1, <1>d
      <4>2. RowsAhead
        BY <4>1, <2>1, <1>k DEF RowsReported
      <4>3. RowsAhead'
        BY <4>1, <4>2, <2>1, <3>1, TakeRow DEF RowsAhead
      <4> QED
        BY <3>1, <3>3, <4>1, <4>3
           DEF ReportInv, KindFits, FailureIsAhead, Ongoing, RowsReported, Reported, Free
    <3>4. CASE Opened.pc = "copy_to"
      <4>1. Opened.kind = "copy_to" /\ Opened.finishes = 1
        BY <3>4, <1>d
      <4> QED
        BY <3>1, <3>4, <4>1
           DEF ReportInv, KindFits, FailureIsAhead, Ongoing, RowsReported, Reported, Free
    <3>5. CASE Opened.pc = "copy_from"
      BY <3>1, <3>5, <2>1, <1>d, <1>f
    <3> QED  BY <3>2, <3>3, <3>4, <3>5, <1>d
  <2> QED  BY <2>2, <2>3, <2>4
<1>11. CASE Drain
  <2>1. call.pc = "drain" /\ call.finishes = 0 /\ TakeResult
    BY <1>11, <1>k DEF Drain, Reported
  <2>2. CASE call.outcome = "ok"
    <3>1. LastAhead
      BY <2>1, <2>2, <1>k DEF FailureIsAhead, Ongoing
    <3>2. CASE NextResult = "none"
      <4>1. call' = Returns("ok", 1) /\ ~call.failed /\ async' = "idle"
        BY <1>11, <2>1, <2>2, <3>1, <3>2, TakeLast DEF Drain, ReadsOn
      <4> QED  BY <2>1, <4>1, <1>b, <1>j
    <3>3. CASE NextResult = "error"
      <4>1. call' = Returns("err", 1)
        BY <1>11, <3>3 DEF Drain, ReadsOn
      <4> QED  BY <2>1, <4>1, <1>b, <1>e
    <3>4. CASE NextResult \notin {"none", "error"}
      <4>1. call' = call
        BY <1>11, <3>4 DEF Drain, ReadsOn
      <4>2. LastAhead'
        BY <2>1, <3>1, <3>4, <4>1, TakeLast DEF LastAhead
      <4> QED  BY <2>1, <4>1, <4>2, <1>i
    <3> QED  BY <3>2, <3>3, <3>4
  <2>3. CASE call.outcome # "ok"
    <3>1. CASE ReadsOn
      <4>1. call' = call  BY <1>11, <3>1 DEF Drain
      <4> QED  BY <2>1, <2>3, <4>1, <1>h
    <3>2. CASE ~ReadsOn
      <4>1. PICK o : o # "ok" /\ call' = Returns(o, 1)
        BY <1>11, <2>3, <3>2 DEF Drain
      <4> QED  BY <2>1, <4>1, <1>b, <1>e
    <3> QED  BY <3>1, <3>2
  <2> QED  BY <2>2, <2>3
<1>12. CASE CursorNew
  <2>1. call.pc = "cursor_new" /\ call.finishes = 0 /\ TakeResult /\ LastAhead
    BY <1>12, <1>k DEF CursorNew, Reported, FailureIsAhead, Ongoing
  <2>2. CASE NextResult = "none"
    <3>1. call' = Returns("ok", 1) /\ ~call.failed /\ async' = "idle"
      BY <1>12, <2>1, <2>2, TakeLast DEF CursorNew
    <3> QED  BY <2>1, <3>1, <1>b, <1>j
  <2>3. CASE NextResult = "error"
    <3>1. call' = Returns("err", 1)  BY <1>12, <2>3 DEF CursorNew
    <3> QED  BY <2>1, <3>1, <1>b, <1>e
  <2>4. CASE NextResult \notin {"none", "error"}
    <3>1. call' = [call EXCEPT !.pc = "panic"]  BY <1>12, <2>4 DEF CursorNew
    <3> QED  BY <3>1, <1>a, <1>g DEF Call
  <2> QED  BY <2>2, <2>3, <2>4
<1>13. CASE Dropping
  <2>1. /\ call.pc = "dropping" /\ call.kind = "row_by_row" /\ TakeResult /\ RowsAhead
        /\ call.finishes = 0 \/ (call.finishes = 1 /\ call.failed /\ async = "idle")
    BY <1>13, <1>k DEF Dropping, KindFits, RowsReported, Reported
  <2>2. CASE DropsOn
    <3>1. call' = call  BY <1>13, <2>2 DEF Dropping
    <3>2. RowsAhead' /\ (async = "idle" => async' = "idle")
      BY <2>1, <3>1, TakeRow DEF RowsAhead
    <3> QED
      BY <2>1, <3>1, <3>2
         DEF ReportInv, KindFits, FailureIsAhead, Ongoing, RowsReported, Reported, Free
  <2>3. CASE ~DropsOn
    <3>1. call' = Returns(call.outcome, 1)  BY <1>13, <2>3 DEF Dropping
    <3>2. /\ call'.pc = "idle" /\ call'.kind = "row_by_row" /\ call'.failed = call.failed
          /\ call'.finishes = call.finishes + 1
      BY <2>1, <3>1, <1>b
    <3> QED
      BY <2>1, <3>2 DEF ReportInv, KindFits, FailureIsAhead, Ongoing, RowsReported, Reported,
           ReportedOnce, Free
  <2> QED  BY <2>2, <2>3
<1>14. CASE Finish
  <2>1. call.pc = "finish" /\ call.finishes = 0
    BY <1>14, <1>k DEF Finish, Reported
  <2>2. CASE lost
    <3>1. call' = Returns("err", 1)  BY <1>14, <2>2 DEF Finish
    <3> QED  BY <2>1, <3>1, <1>b, <1>e
  <2>3. CASE ~lost
    <3>1. PICK reply \in {<<"done">>, <<"error">>} :
             /\ async' = "busy" /\ coming' = reply
             /\ call' = [call EXCEPT !.pc = "result", !.failed = Fails(reply)]
      BY <1>14, <2>3 DEF Finish, CopyEnds
    <3> DEFINE f == Fails(reply)
    <3>2. f \in BOOLEAN /\ (f => reply = <<"error">>)
      BY FailsIs DEF Fails
    <3>3. call'.pc = "result" /\ call'.failed = f /\ call'.finishes = 0
      <4>1. call' = [call EXCEPT !.pc = "result", !.failed = f]  BY <3>1
      <4> HIDE DEF f
      <4> QED  BY <4>1, <2>1, <1>a DEF Call
    <3>4. LastAhead'
      BY <3>1, <3>2, <3>3 DEF LastAhead
    <3> QED  BY <3>3, <3>4, <1>i
  <2> QED  BY <2>2, <2>3
<1>15. CASE CopyResult
  <2>1. call.pc = "result" /\ call.finishes = 0 /\ TakeResult /\ LastAhead
    BY <1>15, <1>k DEF CopyResult, Reported, FailureIsAhead, Ongoing
  <2>2. CASE CopyFailed
    <3>1. call' = Returns("err", 1)  BY <1>15, <2>2 DEF CopyResult
    <3> QED  BY <2>1, <3>1, <1>b, <1>e
  <2>3. CASE ~CopyFailed
    <3>1. call'.pc = "drain" /\ call'.failed = call.failed /\ call'.finishes = 0
      BY <1>15, <2>1, <2>3, <1>a DEF CopyResult, Call
    <3>2. LastAhead'
      BY <2>1, <2>3, <3>1, TakeLast DEF LastAhead, CopyFailed
    <3> QED  BY <3>1, <3>2, <1>i
  <2> QED  BY <2>2, <2>3
<1>16. CASE Next1
  <2>1. /\ call.pc = "rows" /\ call.kind = "row_by_row" /\ RowsAhead
        /\ call.finishes = 0 \/ (call.finishes = 1 /\ call.failed /\ async = "idle")
    BY <1>16, <1>k DEF Next1, KindFits, RowsReported, Reported
  <2>2. /\ call'.pc = "rows" /\ call'.kind = "row_by_row" /\ call'.failed = call.failed
        /\ call'.finishes = IF ~call.fresh /\ NextResult = "error" THEN call.finishes + 1 ELSE call.finishes
    BY <1>16, <2>1, <1>a DEF Next1, Call
  <2>3. RowsAhead'
    <3>1. CASE call.fresh
      <4>1. UNCHANGED <<async, coming>>  BY <1>16, <3>1 DEF Next1, server
      <4> QED  BY <2>1, <2>2, <4>1 DEF RowsAhead
    <3>2. CASE ~call.fresh
      <4>1. TakeResult  BY <1>16, <3>2 DEF Next1
      <4> QED  BY <2>1, <2>2, <4>1, TakeRow DEF RowsAhead
    <3> QED  BY <3>1, <3>2
  <2>4. call'.finishes = 0 \/ (call'.finishes = 1 /\ call'.failed /\ async' = "idle")
    <3>1. CASE call.fresh
      <4>1. UNCHANGED async  BY <1>16, <3>1 DEF Next1, server
      <4> QED  BY <2>1, <2>2, <3>1, <4>1
    <3>2. CASE ~call.fresh
      <4>1. TakeResult  BY <1>16, <3>2 DEF Next1
      <4>2. /\ NextResult = "error" => call.failed /\ async' = "idle"
            /\ async = "idle" => NextResult = "none" /\ async' = "idle"
        BY <2>1, <4>1, TakeRow
      <4> QED  BY <2>1, <2>2, <3>2, <4>2
    <3> QED  BY <3>1, <3>2
  <2> QED
    BY <2>2, <2>3, <2>4
       DEF ReportInv, KindFits, FailureIsAhead, Ongoing, RowsReported, Reported, Free
<1>17. CASE FillBuf
  <2>1. call' = call /\ call.pc = "copy_to" /\ call.kind = "copy_to" /\ call.finishes = 1
    BY <1>17, <1>k DEF FillBuf, KindFits, Reported
  <2> QED
    BY <2>1 DEF ReportInv, KindFits, FailureIsAhead, Ongoing, RowsReported, Reported, Free
<1>18. CASE Lose
  <2> DEFINE f == (async = "busy" \/ call.failed)
  <2>1. /\ call'.pc = call.pc /\ call'.kind = call.kind /\ call'.outcome = call.outcome
        /\ call'.finishes = call.finishes /\ call'.failed = f
    <3>1. call' = [call EXCEPT !.failed = f] /\ f \in BOOLEAN  BY <1>18 DEF Lose
    <3> HIDE DEF f
    <3> QED  BY <3>1, <1>a DEF Call
  <2>2. async' = async /\ coming' = IF async = "busy" THEN <<"error">> ELSE coming
    BY <1>18 DEF Lose
  <2>3. KindFits' /\ Reported'
    BY <2>1, <2>2, <1>k DEF KindFits, Reported, ReportedOnce, Free
  <2>4. LastAhead => LastAhead'
    BY <2>1, <2>2 DEF LastAhead
  <2>5. FailureIsAhead'
    BY <2>1, <2>2, <2>4, <1>k DEF FailureIsAhead, Ongoing, Free
  <2>6. RowsAhead => RowsAhead'
    <3> SUFFICES ASSUME RowsAhead PROVE RowsAhead'  OBVIOUS
    <3>1. CASE async = "busy"
      <4>1. DOMAIN coming' = {1} /\ coming'[1] = "error"  BY <2>2, <3>1
      <4> QED  BY <2>1, <2>2, <3>1, <4>1 DEF RowsAhead
    <3>2. CASE async # "busy"  BY <2>1, <2>2, <3>2 DEF RowsAhead
    <3> QED  BY <3>1, <3>2
  <2>7. RowsReported'
    BY <2>1, <2>6, <1>k DEF RowsReported
  <2> QED  BY <2>3, <2>5, <2>7 DEF ReportInv
<1>19. CASE DropCursor
  <2>1. /\ call'.pc = "dropping" /\ call'.kind = call.kind /\ call'.failed = call.failed
        /\ call'.finishes = call.finishes /\ call.pc = "rows"
    BY <1>19, <1>a DEF DropCursor, Call
  <2>2. UNCHANGED <<async, coming>>  BY <1>19 DEF DropCursor, server
  <2> QED
    BY <2>1, <2>2, <1>k
       DEF ReportInv, KindFits, FailureIsAhead, Ongoing, RowsReported, RowsAhead, Reported, Free
<1>20. CASE DropBuffer
  <2>1. call.pc = "copy_to" /\ call.kind = "copy_to" /\ call.finishes = 1 /\ call' = Returns("ok", 0)
    BY <1>20, <1>k DEF DropBuffer, KindFits, Reported
  <2>2. call'.pc = "idle" /\ call'.kind = "copy_to" /\ call'.finishes = 1
    BY <2>1, <1>b
  <2> QED
    BY <2>2 DEF ReportInv, KindFits, FailureIsAhead, Ongoing, RowsReported, Reported, ReportedOnce, Free
<1>21. ASSUME NEW ok \in BOOLEAN, Written(ok)  PROVE ReportInv'
  <2>1. call'.pc = "finish" /\ call'.finishes = call.finishes /\ call.pc = "copy_from"
    BY <1>21, <1>a DEF Written, Call
  <2> QED  BY <2>1, <1>k, <1>f DEF Reported
<1>22. CASE UNCHANGED vars  BY <1>22, <1>1 DEF vars
<1> QED
  BY <1>2, <1>3, <1>4, <1>5, <1>6, <1>7, <1>8, <1>9, <1>10, <1>11, <1>12, <1>13,
     <1>14, <1>15, <1>16, <1>17, <1>18, <1>19, <1>20, <1>21, <1>22, <1>t DEF Next, Progress, Caller

LEMMA InitReport == Init => ReportInv
<1> SUFFICES ASSUME Init PROVE ReportInv  OBVIOUS
<1>1. call.pc = "idle" /\ ~call.failed /\ call.finishes = 1 /\ async = "idle"
  BY DEF Init
<1> QED
  BY <1>1 DEF ReportInv, KindFits, FailureIsAhead, Ongoing, RowsReported, Reported, ReportedOnce, Free

LEMMA ReportInvHolds == Spec => []ReportInv
BY InitReport, InitType, StepType, ReportStep, PTL DEF Spec

(* An execute, a load, a COPY FROM or a batch that returns Ok was not failed by
   the server, whenever the connection breaks and however the results come in. *)
THEOREM OkIsDoneHolds == Spec => []OkIsDone
<1>1. ReportInv => OkIsDone  BY DEF ReportInv, FailureIsAhead, OkIsDone
<1> QED  BY <1>1, ReportInvHolds, PTL

(* Each StartQuery has its one FinishQuery, but for binds that fail and for a
   row by row cursor that met an error, which has two at most.               *)
THEOREM ReportedOnceHolds == Spec => []ReportedOnce
<1>1. ReportInv => ReportedOnce  BY DEF ReportInv, Reported, ReportedOnce
<1> QED  BY <1>1, ReportInvHolds, PTL

===============================================================================
