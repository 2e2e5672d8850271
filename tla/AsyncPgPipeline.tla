---------------------------- MODULE AsyncPgPipeline ----------------------------
(***************************************************************************)
(* Queries over one shared &AsyncPgConnection (pg/async_connection/mod.rs):*)
(* futures that are polled in any order and dropped at any await.  Each    *)
(* takes the lock of the metadata cache when it has types to look up, then *)
(* that of the statement cache, and keeps it while the server answers; its *)
(* requests go to the server in one queue, which a task drives until the   *)
(* connection ends; the rows of a load stay at the head of the queue until *)
(* they are read.  What fails is noted in the state of the transaction.    *)
(***************************************************************************)
EXTENDS Naturals, Sequences

CONSTANTS
    Queries,    \* the queries that may be made
    Keys,       \* statements, as the cache tells them apart
    Cacheable   \* those with is_safe_to_cache_prepared

ASSUME PipelineAssumption == Keys # {} /\ Cacheable \subseteq Keys /\ "nobody" \notin Queries

VARIABLES
    query,      \* of each query: where its future is, and what it asks
    wire,       \* the requests the server has not finished, in order
    driver,     \* the task that drives the connection: "alive", "dead"
    watched,    \* the connection has started that task itself
    lock,       \* the query that holds each of the two locks, "nobody" for none
    oids,       \* the metadata cache has the types
    cache,      \* the statements in the statement cache
    heard,      \* how many preparations of each statement were answered
    failure,    \* the transaction failed to serialize: "none", "answer", "rows"
    requiresRollback  \* the flag of the transaction manager

vars == <<query, wire, driver, watched, lock, oids, cache, heard, failure, requiresRollback>>

Locks == {"metadata_cache", "stmt_cache"}
Stages == {"none", "metadata_cache", "looking_up", "stmt_cache", "preparing", "running",
           "over", "dropped"}

TypeOK ==
    /\ query \in [Queries -> [pc : Stages, kind : {"execute", "load"}, key : Keys,
                              reply : {"none", "ok", "err", "serialization"}]]
    /\ wire \in Seq([of : Queries, what : {"types", "prepare", "run", "rows"}])
    /\ driver \in {"alive", "dead"} /\ watched \in BOOLEAN /\ oids \in BOOLEAN
    /\ lock \in [Locks -> Queries \cup {"nobody"}]
    /\ \A q \in Queries : /\ lock["metadata_cache"] = q => query[q].pc = "looking_up"
                          /\ lock["stmt_cache"] = q => query[q].pc = "preparing"
    /\ cache \subseteq Cacheable /\ heard \in [Keys -> Nat]
    /\ failure \in {"none", "answer", "rows"} /\ requiresRollback \in BOOLEAN

Init ==
    /\ query = [q \in Queries |-> [pc |-> "none", kind |-> "execute",
                                   key |-> CHOOSE k \in Keys : TRUE, reply |-> "none"]]
    /\ wire = <<>> /\ driver = "alive" /\ watched \in BOOLEAN
    /\ lock = [l \in Locks |-> "nobody"]
    /\ oids = FALSE /\ cache = {} /\ heard = [k \in Keys |-> 0]
    /\ failure = "none" /\ requiresRollback = FALSE

-------------------------------------------------------------------------------
Waits(q) == query[q].pc \notin {"none", "over", "dropped"}

(* The requests of a connection that has ended go nowhere.                 *)
Sent(q, what) == IF driver = "alive" THEN Append(wire, [of |-> q, what |-> what]) ELSE wire

At(q, pc) == [query EXCEPT ![q].pc = pc, ![q].reply = "none"]
Released(q) == [l \in Locks |-> IF lock[l] = q THEN "nobody" ELSE lock[l]]

(* The rows that are sent to a future or a stream that is gone are skipped. *)
Skipped(q) == IF wire # <<>> /\ Head(wire) = [of |-> q, what |-> "rows"] THEN Tail(wire) ELSE wire

(* The first thing a query awaits is one of the locks; or its SQL or its
   binds cannot be built.                                                  *)
Start(q, kind, key, first) ==
    /\ query[q].pc = "none"
    /\ query' = [query EXCEPT ![q] = [pc |-> first, kind |-> kind, key |-> key, reply |-> "none"]]
    /\ UNCHANGED <<wire, driver, watched, lock, oids, cache, heard, failure, requiresRollback>>

(* With the lock on the metadata cache: a lookup, or the types are there.  *)
LookUp(q) ==
    /\ query[q].pc = "metadata_cache" /\ lock["metadata_cache"] = "nobody"
    /\ IF oids
       THEN query' = At(q, "stmt_cache") /\ UNCHANGED <<wire, lock>>
       ELSE /\ query' = At(q, "looking_up") /\ wire' = Sent(q, "types")
            /\ lock' = [lock EXCEPT !["metadata_cache"] = q]
    /\ UNCHANGED <<driver, watched, oids, cache, heard, failure, requiresRollback>>

FoundTypes(q) ==
    /\ query[q].pc = "looking_up" /\ query[q].reply # "none"
    /\ oids' = (oids \/ query[q].reply = "ok")
    /\ query' = At(q, IF query[q].reply = "ok" THEN "stmt_cache" ELSE "over")
    /\ lock' = Released(q)
    /\ UNCHANGED <<wire, driver, watched, cache, heard, failure, requiresRollback>>

(* mistake: the cache is not locked while the server prepares              *)
KeepsLock_Not(q) == FALSE
KeepsLock(q) == TRUE

(* With the lock on the statement cache: the statement is there and runs, or
   it is prepared, and the lock kept; or its types cannot be asked for.    *)
FindStatement(q) ==
    /\ query[q].pc = "stmt_cache" /\ lock["stmt_cache"] = "nobody"
    /\ \/ /\ query[q].key \in cache
          /\ query' = At(q, "running") /\ wire' = Sent(q, "run") /\ UNCHANGED lock
       \/ /\ query[q].key \notin cache
          /\ query' = At(q, "preparing") /\ wire' = Sent(q, "prepare")
          /\ lock' = IF KeepsLock(q) THEN [lock EXCEPT !["stmt_cache"] = q] ELSE lock
       \/ /\ query[q].key \notin cache
          /\ query' = At(q, "over") /\ UNCHANGED <<wire, lock>>
    /\ UNCHANGED <<driver, watched, oids, cache, heard, failure, requiresRollback>>

(* mistake: a statement is cached though it must not be                     *)
Registered_All(q) == {query[q].key}
(* What the cache keeps of a statement that was prepared.                  *)
Registered(q) == {query[q].key} \cap Cacheable

Prepared(q) ==
    /\ query[q].pc = "preparing" /\ query[q].reply # "none"
    /\ lock' = Released(q)
    /\ IF query[q].reply = "ok"
       THEN /\ cache' = cache \cup Registered(q)
            /\ heard' = [heard EXCEPT ![query[q].key] = @ + 1]
            /\ query' = At(q, "running") /\ wire' = Sent(q, "run")
       ELSE query' = At(q, "over") /\ UNCHANGED <<cache, heard, wire>>
    /\ UNCHANGED <<driver, watched, oids, failure, requiresRollback>>

(* mistake: only execute_returning_count looks at the error                *)
Noted_Execute(q) == query[q].reply = "serialization" /\ query[q].kind = "execute"
(* update_transaction_manager_status, of queries that are no COMMIT: the
   transaction manager alone sends those, and a pipeline holds none.       *)
Noted(q) == query[q].reply = "serialization"

Returns(q) ==
    /\ query[q].pc = "running" /\ query[q].reply # "none"
    /\ query' = [query EXCEPT ![q].pc = "over"]
    /\ requiresRollback' = (requiresRollback \/ Noted(q))
    /\ UNCHANGED <<wire, driver, watched, lock, oids, cache, heard, failure>>

(* mistake: only a query that awaits its result hears of the end            *)
Hears_Running(q) == query[q].pc = "running"
(* The end of the connection: a query that watches the task hears of it
   wherever it is, the others when they ask the client for something.      *)
Hears(q) == watched \/ \A l \in Locks : query[q].pc = l => lock[l] = "nobody"

Ends(q) ==
    /\ driver = "dead" /\ Waits(q) /\ query[q].reply = "none" /\ Hears(q)
    /\ query' = At(q, "over") /\ lock' = Released(q)
    /\ UNCHANGED <<wire, driver, watched, oids, cache, heard, failure, requiresRollback>>

Drop(q) ==
    /\ Waits(q)
    /\ query' = At(q, "dropped") /\ lock' = Released(q) /\ wire' = Skipped(q)
    /\ UNCHANGED <<driver, watched, oids, cache, heard, failure, requiresRollback>>

(* The stream of a load, which borrows nothing, is read to its end or dropped.
   An error among its rows does not pass the hook.                         *)
ReadRows(q, fails) ==
    /\ query[q].pc = "over" /\ wire # <<>> /\ Head(wire) = [of |-> q, what |-> "rows"]
    /\ wire' = Tail(wire)
    /\ failure' = IF fails /\ failure = "none" THEN "rows" ELSE failure
    /\ UNCHANGED <<query, driver, watched, lock, oids, cache, heard, requiresRollback>>

-------------------------------------------------------------------------------
(* The server answers the first request, to whoever still waits for it; the
   rows of a load may be too many for the client to take them at once.     *)
Answer(reply, many) ==
    /\ driver = "alive" /\ wire # <<>> /\ Head(wire).what # "rows"
    /\ LET q == Head(wire).of
           rows == /\ Head(wire).what = "run" /\ reply = "ok" /\ many
                   /\ query[q].kind = "load" /\ Waits(q)
       IN /\ reply = "serialization" => Head(wire).what = "run"
          /\ query' = IF Waits(q) THEN [query EXCEPT ![q].reply = reply] ELSE query
          /\ wire' = IF rows THEN [wire EXCEPT ![1].what = "rows"] ELSE Tail(wire)
          /\ failure' = IF reply = "serialization" /\ failure = "none" THEN "answer" ELSE failure
    /\ UNCHANGED <<driver, watched, lock, oids, cache, heard, requiresRollback>>

(* The connection breaks.                                                  *)
Die ==
    /\ driver = "alive" /\ driver' = "dead" /\ wire' = <<>>
    /\ UNCHANGED <<query, watched, lock, oids, cache, heard, failure, requiresRollback>>

-------------------------------------------------------------------------------
Poll(q) == LookUp(q) \/ FoundTypes(q) \/ FindStatement(q) \/ Prepared(q) \/ Returns(q) \/ Ends(q)
Server == \E reply \in {"ok", "err", "serialization"}, many \in BOOLEAN : Answer(reply, many)
Read(q) == \E fails \in BOOLEAN : ReadRows(q, fails)

Next ==
    \/ \E q \in Queries, kind \in {"execute", "load"}, key \in Keys,
          first \in {"metadata_cache", "stmt_cache", "over"} : Start(q, kind, key, first)
    \/ \E q \in Queries : Poll(q) \/ Drop(q) \/ Read(q)
    \/ Server \/ Die

(* Every future is polled until it ends or is dropped, every stream is read
   or dropped, and the server answers or the connection breaks.            *)
Fairness == WF_vars(Server) /\ \A q \in Queries : WF_vars(Poll(q)) /\ WF_vars(Read(q))

Spec == Init /\ [][Next]_vars /\ Fairness

-------------------------------------------------------------------------------
(* A statement is cached exactly when its preparation was answered, however
   many queries ask for it at once, fail or are dropped; and it is prepared
   for the cache once.                                                     *)
CacheIsExact == \A k \in Cacheable : heard[k] = IF k \in cache THEN 1 ELSE 0

(* A failure to serialize that was the answer to a query is noted once no
   query runs, whatever the order in which their futures were polled; unless
   the future that would have heard of it was dropped.                     *)
FailureIsNoted ==
    /\ failure = "answer" /\ driver = "alive"
    /\ \A q \in Queries : query[q].pc \in {"none", "over"}
    => requiresRollback

(* Every query ends: no lock is held for ever, and the end of the connection
   reaches those that wait for a lock.                                     *)
EveryQueryEnds == \A q \in Queries : Waits(q) ~> ~Waits(q)

===============================================================================
