----------------------------- MODULE PgStatements -----------------------------
(***************************************************************************)
(* How PgConnection runs statements over libpq's asynchronous interface    *)
(* (pg/connection: mod.rs, stmt/mod.rs, cursor.rs, copy.rs, result.rs) and *)
(* finds their prepared forms in the statement cache                       *)
(* (connection/statement_cache).  A call prepares its statement, sends it, *)
(* reads a first result, and has to read on until libpq has no more: until *)
(* then libpq refuses to send another.  A call borrows the connection, so  *)
(* that calls follow one another; the server may fail any statement, and   *)
(* the connection may break at any time.                                   *)
(***************************************************************************)
EXTENDS Naturals, Sequences

CONSTANTS
    Keys,        \* statements, as the cache tells them apart
    Cacheable,   \* those with is_safe_to_cache_prepared; COPY never is
    Kinds,       \* the kinds of calls that are made
    MaxRows,     \* bound: rows of a result, chunks of COPY data
    MaxCalls     \* bound: the calls that are made

ASSUME StatementsAssumption ==
    /\ Cacheable \subseteq Keys /\ MaxRows \in Nat /\ MaxCalls \in Nat
    /\ Kinds \subseteq {"execute", "load", "row_by_row", "copy_to", "copy_from", "batch"}

VARIABLES
    size,      \* CacheSize of the statement cache: "Unbounded", "Disabled"
    cache,     \* the cached statements: the number in the name of each
    counter,   \* cache_counter
    prepared,  \* the server's prepared statements: number -> statement
    async,     \* libpq: "idle", "busy", "copy_in", "copy_out"
    coming,    \* the results that are still to be read
    chunks,    \* the COPY data that is still to be read
    lost,      \* the connection to the server is broken
    call,      \* the call that runs, or ran last
    unread,    \* a COPY TO or an empty query has left results behind
    calls      \* counts towards MaxCalls

server == <<prepared, async, coming, chunks, lost>>
statements == <<size, cache, counter>>
vars == <<size, cache, counter, prepared, async, coming, chunks, lost, call, unread, calls>>

(* pc        "prepare", "send", the "first" result, "cursor_new", "drain",
             "dropping"; in the hands of the caller: "rows" (a row by row
             cursor), "copy_to" (a buffer), "copy_from" (a sink); "finish" and
             "result" of COPY FROM; "panic"
   name      the number of a named statement, 0 for an unnamed one
   fresh     no row of the cursor has been taken
   failed    the server has failed the statement
   outcome   "unbound": the bind values could not be collected, or the text
             of a batch has a NUL byte
   finishes  the FinishQuery events since the StartQuery                   *)
Call == [kind : Kinds \cup {"batch"}, key : Keys, name : Nat,
         pc : {"idle", "prepare", "send", "first", "cursor_new", "drain", "rows", "dropping",
               "copy_to", "copy_from", "finish", "result", "panic"},
         fresh : BOOLEAN, failed : BOOLEAN, outcome : {"none", "ok", "err", "unbound"},
         finishes : Nat]

Results == {"row", "done", "error", "empty", "copy_in", "copy_out"}

TypeOK ==
    /\ size \in {"Unbounded", "Disabled"} /\ counter \in Nat
    /\ DOMAIN cache \subseteq Keys /\ \A k \in DOMAIN cache : cache[k] \in 1..counter
    /\ DOMAIN prepared \subseteq Nat /\ \A n \in DOMAIN prepared : prepared[n] \in Keys
    /\ async \in {"idle", "busy", "copy_in", "copy_out"}
    /\ coming \in Seq(Results) /\ chunks \in Nat /\ lost \in BOOLEAN
    /\ call \in Call /\ call.name <= counter /\ unread \in BOOLEAN /\ calls \in Nat

With(f, x, y) == [z \in DOMAIN f \cup {x} |-> IF z = x THEN y ELSE f[z]]

-------------------------------------------------------------------------------
(* libpq and the server.                                                   *)

(* What PQgetResult returns: nothing when idle, and the COPY state again and
   again while one is open.                                                *)
NextResult ==
    CASE async = "idle" -> "none"
      [] async = "busy" -> IF coming = <<>> THEN "none" ELSE Head(coming)
      [] OTHER          -> IF lost THEN "error" ELSE async

(* mistake: a result that is an error does not clear the connection         *)
Cleared_Not == FALSE
(* A result that is an error clears the connection: what follows is read.  *)
Cleared == NextResult = "error"

TakeResult ==
    /\ async' = IF Cleared \/ NextResult = "none" THEN "idle"
                ELSE IF NextResult \in {"copy_in", "copy_out"} THEN NextResult ELSE "busy"
    /\ coming' = IF Cleared \/ coming = <<>> THEN <<>>
                 ELSE IF async = "busy" THEN Tail(coming) ELSE coming
    /\ UNCHANGED <<prepared, chunks, lost>>

Rows == {[i \in 1..n |-> "row"] : n \in 0..MaxRows}
Replies(kind) ==
    CASE kind = "row_by_row" -> {r \o <<e>> : r \in Rows, e \in {"done", "error"}} \cup {<<"empty">>}
      [] kind = "copy_to"    -> {<<"copy_out", "done">>, <<"copy_out", "error">>, <<"error">>}
      [] kind = "copy_from"  -> {<<"copy_in">>, <<"error">>}
      [] OTHER               -> {<<"done">>, <<"error">>, <<"empty">>}
Fails(reply) == \E i \in DOMAIN reply : reply[i] = "error"

CanSend == async = "idle" /\ ~lost

(* The connection breaks: what was to be read is an error.                 *)
Lose ==
    /\ ~lost /\ lost' = TRUE
    /\ coming' = IF async = "busy" THEN <<"error">> ELSE coming
    /\ call' = [call EXCEPT !.failed = async = "busy" \/ call.failed]
    /\ UNCHANGED <<statements, prepared, async, chunks, unread, calls>>

-------------------------------------------------------------------------------
(* The statement cache.                                                    *)

Init ==
    /\ size = "Unbounded" /\ cache = <<>> /\ counter = 0 /\ prepared = <<>>
    /\ async = "idle" /\ coming = <<>> /\ chunks = 0 /\ lost = FALSE
    /\ call \in {[kind |-> "batch", key |-> k, name |-> 0, pc |-> "idle", fresh |-> TRUE,
                  failed |-> FALSE, outcome |-> "ok", finishes |-> 1] : k \in Keys}
    /\ unread = FALSE /\ calls = 0

(* mistake: the new cache counts from the start                             *)
CounterAfter_Reset == 0
(* The cache is replaced, its counter is not.                              *)
CounterAfter == counter

SetCacheSize(s) ==
    /\ call.pc = "idle" /\ s # size
    /\ size' = s /\ cache' = <<>> /\ counter' = CounterAfter
    /\ UNCHANGED <<server, call, unread, calls>>

Uncached(key) == key \notin Cacheable \/ call.kind \in {"copy_to", "copy_from"} \/ size = "Disabled"

(* The call is over: with an outcome, and n more FinishQuery events.        *)
Returns(outcome, n) ==
    [call EXCEPT !.pc = "idle", !.outcome = outcome, !.finishes = call.finishes + n]

(* Every call but batch_execute: StartQuery, and the bind values.           *)
StartQuery(kind, key) ==
    /\ call.pc = "idle" /\ calls < MaxCalls /\ calls' = calls + 1
    /\ call' = [kind |-> kind, key |-> key, name |-> 0, pc |-> "prepare", fresh |-> TRUE,
                failed |-> FALSE, outcome |-> "none", finishes |-> 0]
    /\ UNCHANGED <<statements, server, unread>>

CollectBindsFails ==
    /\ call.pc = "prepare"
    /\ call' = Returns("unbound", IF call.kind = "execute" THEN 1 ELSE 0)
    /\ UNCHANGED <<statements, server, unread, calls>>

(* The text has a NUL byte, or the type of a parameter is not found: nothing
   is sent, but a statement that was to be named has used up a number.     *)
TextRefused ==
    /\ call.pc = "prepare" /\ call.key \notin DOMAIN cache
    /\ counter' = IF Uncached(call.key) THEN counter ELSE counter + 1
    /\ call' = Returns("err", 1)
    /\ UNCHANGED <<size, cache, server, unread, calls>>

(* An unnamed statement is prepared when it is executed.                   *)
FindStatement ==
    /\ call.pc = "prepare"
    /\ Uncached(call.key) \/ call.key \in DOMAIN cache
    /\ call' = [call EXCEPT !.pc = "send",
                            !.name = IF Uncached(call.key) THEN 0 ELSE cache[call.key]]
    /\ UNCHANGED <<statements, server, unread, calls>>

Registered(ok) == ok

(* mistake: the counter is read before it is incremented                    *)
NextName_Before == counter
NextName == counter + 1

(* PQprepare first throws away whatever the connection has left unread.    *)
Prepare(ok) ==
    /\ call.pc = "prepare" /\ ~Uncached(call.key) /\ call.key \notin DOMAIN cache
    /\ ok => ~lost /\ NextName \notin DOMAIN prepared
    /\ counter' = counter + 1
    /\ prepared' = IF ok THEN With(prepared, NextName, call.key) ELSE prepared
    /\ cache' = IF Registered(ok) THEN With(cache, call.key, NextName) ELSE cache
    /\ call' = IF ok THEN [call EXCEPT !.pc = "send", !.name = NextName] ELSE Returns("err", 1)
    /\ async' = "idle" /\ coming' = <<>> /\ unread' = FALSE
    /\ UNCHANGED <<size, chunks, lost, calls>>

-------------------------------------------------------------------------------
(* Sending a statement, and its first result.  An error of
   PQsetSingleRowMode, right after the sending, is left out.               *)

Send ==
    /\ call.pc = "send" /\ CanSend
    /\ \E reply \in Replies(call.kind), n \in 0..MaxRows :
          /\ coming' = IF call.name # 0 /\ call.name \notin DOMAIN prepared THEN <<"error">> ELSE reply
          /\ chunks' = IF call.kind = "copy_to" THEN n ELSE 0
          /\ call' = [call EXCEPT !.pc = "first", !.failed = Fails(coming')]
    /\ async' = "busy"
    /\ UNCHANGED <<statements, prepared, lost, unread, calls>>

(* mistake: the answer of PQsendQuery is not looked at                      *)
Refused_Ignored == [call EXCEPT !.pc = "first"]
(* "another command is already in progress", or there is no connection;
   execute_returning_count reads on all the same.                          *)
Refused ==
    IF call.kind = "execute" THEN [call EXCEPT !.pc = "drain", !.outcome = "err"]
    ELSE Returns("err", 1)

SendRefused ==
    /\ call.pc = "send" /\ ~CanSend
    /\ call' = Refused
    /\ UNCHANGED <<statements, server, unread, calls>>

(* Where each kind of call goes with its first result.                     *)
Opened ==
    CASE call.kind = "execute"    -> [call EXCEPT !.pc = "drain", !.outcome = "ok"]
      [] call.kind = "load"       -> [call EXCEPT !.pc = "cursor_new"]
      [] call.kind = "row_by_row" -> [call EXCEPT !.pc = "rows", !.outcome = "ok",
                                                  !.fresh = NextResult = "row"]
      [] call.kind = "copy_to"    -> [call EXCEPT !.pc = "copy_to", !.outcome = "ok", !.finishes = 1]
      [] OTHER                    -> [call EXCEPT !.pc = "copy_from"]

(* "Received an empty query" is an error that reads nothing further.       *)
FirstResult ==
    /\ call.pc = "first" /\ TakeResult
    /\ call' = CASE NextResult = "none"               -> [call EXCEPT !.pc = "panic"]
                 [] NextResult \in {"error", "empty"} -> Refused
                 [] OTHER                             -> Opened
    /\ unread' = \/ unread
                 \/ NextResult = "empty" /\ call.kind # "execute"
                 \/ NextResult # "error" /\ call.kind = "copy_to"
    /\ UNCHANGED <<statements, calls>>

(* mistake: execute_returning_count is content with the first result        *)
ReadsOn_Once == FALSE
ReadsOn == NextResult \notin {"none", "error"}

(* while get_next_result()?.is_some() {}                                   *)
Drain ==
    /\ call.pc = "drain" /\ TakeResult
    /\ call' = IF ReadsOn THEN call
               ELSE Returns(IF NextResult = "error" THEN "err" ELSE call.outcome, 1)
    /\ unread' = (unread /\ ReadsOn)
    /\ UNCHANGED <<statements, calls>>

(* Cursor::new: nothing may follow the result of a load.                   *)
CursorNew ==
    /\ call.pc = "cursor_new" /\ TakeResult
    /\ call' = CASE NextResult = "none"  -> Returns("ok", 1)
                 [] NextResult = "error" -> Returns("err", 1)
                 [] OTHER                -> [call EXCEPT !.pc = "panic"]
    /\ UNCHANGED <<statements, unread, calls>>

-------------------------------------------------------------------------------
(* Row by row.                                                             *)

(* The first row came with the first result, the others are fetched.  An
   error is reported here, and the cursor lives on.                        *)
Next1 ==
    /\ call.pc = "rows"
    /\ IF call.fresh
       THEN call' = [call EXCEPT !.fresh = FALSE] /\ UNCHANGED server
       ELSE /\ TakeResult
            /\ call' = IF NextResult = "error"
                       THEN [call EXCEPT !.finishes = call.finishes + 1] ELSE call
    /\ UNCHANGED <<statements, unread, calls>>

DropCursor ==
    /\ call.pc = "rows"
    /\ call' = [call EXCEPT !.pc = "dropping"]
    /\ UNCHANGED <<statements, server, unread, calls>>

(* mistake: Drop leaves the rest unread                                     *)
DropsOn_Not == FALSE
DropsOn == NextResult \notin {"none", "error"}

Dropping ==
    /\ call.pc = "dropping" /\ TakeResult
    /\ call' = IF DropsOn THEN call ELSE Returns(call.outcome, 1)
    /\ UNCHANGED <<statements, unread, calls>>

-------------------------------------------------------------------------------
(* COPY.                                                                   *)

(* PQgetCopyData: a chunk; the end, when the results that follow can be
   read; an error, when there is none to read.                             *)
FillBuf ==
    /\ call.pc = "copy_to"
    /\ IF async = "copy_out" /\ ~lost
       THEN IF chunks > 0 THEN chunks' = chunks - 1 /\ UNCHANGED async
            ELSE async' = "busy" /\ UNCHANGED chunks
       ELSE UNCHANGED <<chunks, async>>
    /\ UNCHANGED <<statements, prepared, coming, lost, call, unread, calls>>

(* Drop frees the chunk, and reads no result.                              *)
DropBuffer ==
    /\ call.pc = "copy_to"
    /\ call' = Returns("ok", 0)
    /\ UNCHANGED <<statements, server, unread, calls>>

(* The callback has written its data, or given up with an error.           *)
Written(ok) ==
    /\ call.pc = "copy_from"
    /\ call' = [call EXCEPT !.pc = "finish", !.outcome = IF ok THEN "ok" ELSE "err"]
    /\ UNCHANGED <<statements, server, unread, calls>>

(* mistake: PQputCopyEnd is left out when the callback failed               *)
CopyEnds_IfOk == call.outcome = "ok"
CopyEnds == TRUE

(* PQputCopyEnd, with the error of the callback, which fails the COPY.      *)
Finish ==
    /\ call.pc = "finish"
    /\ IF lost
       THEN call' = Returns("err", 1) /\ UNCHANGED <<async, coming>>
       ELSE IF CopyEnds
       THEN /\ async' = "busy"
            /\ \E reply \in {<<"done">>, <<"error">>} :
                 /\ call.outcome = "err" => reply = <<"error">>
                 /\ coming' = reply
                 /\ call' = [call EXCEPT !.pc = "result", !.failed = Fails(reply)]
       ELSE call' = [call EXCEPT !.pc = "result"] /\ UNCHANGED <<async, coming>>
    /\ UNCHANGED <<statements, prepared, chunks, lost, unread, calls>>

(* mistake: the result of the COPY is not looked at                         *)
CopyFailed_Ignored == FALSE
CopyFailed == NextResult \in {"none", "error"}

CopyResult ==
    /\ call.pc = "result" /\ TakeResult
    /\ call' = IF CopyFailed THEN Returns("err", 1) ELSE [call EXCEPT !.pc = "drain"]
    /\ UNCHANGED <<statements, unread, calls>>

(* PQexec: it throws away what is unread, and reads all there is.          *)
BatchExecute(outcome) ==
    /\ call.pc = "idle" /\ "batch" \in Kinds
    /\ calls < MaxCalls /\ calls' = calls + 1
    /\ lost => outcome # "ok"
    /\ \E k \in Keys :
         call' = [kind |-> "batch", key |-> k, name |-> 0, pc |-> "idle", fresh |-> TRUE,
                  failed |-> outcome = "err", outcome |-> outcome,
                  finishes |-> IF outcome = "unbound" THEN 0 ELSE 1]
    /\ IF outcome = "unbound" THEN UNCHANGED <<async, coming, unread>>
       ELSE async' = "idle" /\ coming' = <<>> /\ unread' = FALSE
    /\ UNCHANGED <<statements, prepared, chunks, lost>>

-------------------------------------------------------------------------------
Progress == FindStatement \/ (\E ok \in BOOLEAN : Prepare(ok)) \/ Send \/ SendRefused
              \/ FirstResult \/ Drain \/ CursorNew \/ Dropping \/ Finish \/ CopyResult
Caller == DropCursor \/ DropBuffer \/ \E ok \in BOOLEAN : Written(ok)

Next ==
    \/ \E s \in {"Unbounded", "Disabled"} : SetCacheSize(s)
    \/ \E kind \in Kinds \ {"batch"}, key \in Keys : StartQuery(kind, key)
    \/ \E outcome \in {"ok", "err", "unbound"} : BatchExecute(outcome)
    \/ CollectBindsFails \/ TextRefused \/ Progress \/ Caller \/ Next1 \/ FillBuf \/ Lose

(* A call runs on once it is made, libpq answers or breaks, and a caller does
   not keep a cursor or a buffer for ever.                                 *)
Spec == Init /\ [][Next]_vars /\ WF_vars(Progress) /\ WF_vars(Caller)

-------------------------------------------------------------------------------
Free == call.pc = "idle"

(* What the cache names, the server has prepared, under that name and for
   that statement: after failed preparations and replaced caches too.      *)
CachedIsPrepared ==
    \A k \in DOMAIN cache : cache[k] \in DOMAIN prepared /\ prepared[cache[k]] = k

(* The next name is one that the server has never prepared.                *)
NamesAreFresh == \A n \in DOMAIN prepared : n <= counter

(* Both: a counter that started again would have the server refuse every
   statement whose name it has already used.                               *)
NamesAgree == CachedIsPrepared /\ NamesAreFresh

(* Whatever a call ends with, however early a cursor is dropped, the next
   statement can be sent, but for what a COPY TO or an empty query leaves
   behind, and only until a call reads or throws away what is there.       *)
ReadyForNext == Free /\ ~unread => async = "idle" \/ lost

(* "`PQgetResult` needs to be called till a null pointer is returned"
   (pg/connection/mod.rs:217), by every call.                          *)
ReadToTheEnd == Free => async = "idle" \/ lost

(* A call that returns Ok was not failed by the server.                    *)
OkIsDone ==
    Free /\ call.outcome = "ok" /\ call.kind \in {"execute", "load", "copy_from", "batch"} =>
        ~call.failed

(* FinishQuery comes once for each StartQuery: not at all when the binds of
   a load or of a COPY cannot be collected, or when the text of a batch has
   a NUL byte; at most twice when a row by row cursor has met an error.    *)
ReportedOnce ==
    Free => \/ call.finishes = 1
            \/ call.finishes = 0 /\ call.outcome = "unbound" /\ call.kind # "execute"
            \/ call.finishes = 2 /\ call.kind = "row_by_row" /\ call.failed

(* Every call returns, without a panic of expect("Is never none") or of the
   assertion of Cursor::new, and every cursor and buffer can be dropped, but
   for an execute that reads on and on in the COPY a COPY TO has left open.  *)
EveryCallReturns == []<>(Free \/ (call.pc = "drain" /\ async = "copy_out"))

===============================================================================
