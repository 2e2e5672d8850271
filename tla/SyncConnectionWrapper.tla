------------------------- MODULE SyncConnectionWrapper -------------------------
(***************************************************************************)
(* A synchronous connection behind an asynchronous interface               *)
(* (sync_connection_wrapper/mod.rs).  Every call hands a task to a pool of *)
(* blocking threads and returns a future that does not borrow the wrapper: *)
(* several may be pending, and tasks take the connection from a mutex in   *)
(* any order.  What needs the connection at once asks for the only         *)
(* reference to it and panics when a task holds another; so a future that  *)
(* is dropped waits for its task, on a thread that may block.  A pool hands*)
(* the wrapper from user to user.                                          *)
(***************************************************************************)
EXTENDS Naturals

CONSTANT MaxCalls    \* bound: the calls that are made

ASSUME WrapperAssumption == MaxCalls \in Nat

VARIABLES
    task,      \* of each call: "none", "queued", "running", "done"
    future,    \* of each call: "none", "binding", "pending", "dropping", "over"
    op,        \* of each call: "query", "batch", "begin", "close"
    collected, \* of each call: its bind values were collected
    holder,    \* the task that holds the connection, 0 for none
    poisoned,  \* a thread has panicked with the lock
    depth,     \* the open transactions of the connection, and of its status
    fresh,     \* the pool has handed the connection out, no call is made yet
    gone,      \* giving the connection back has panicked
    mayBlock   \* futures are dropped on threads that may block: not those of
               \* a runtime that has one thread only

calls == <<task, future, op, collected>>
wrapperVars == <<calls, holder, poisoned, depth, fresh, gone, mayBlock>>

Calls == 1..MaxCalls

WrapperTypeOK ==
    /\ task \in [Calls -> {"none", "queued", "running", "done"}]
    /\ future \in [Calls -> {"none", "binding", "pending", "dropping", "over"}]
    /\ op \in [Calls -> {"query", "batch", "begin", "close"}]
    /\ collected \in [Calls -> BOOLEAN]
    /\ holder \in Calls \cup {0} /\ (holder # 0 => task[holder] = "running")
    /\ poisoned \in BOOLEAN /\ depth \in Nat
    /\ fresh \in BOOLEAN /\ gone \in BOOLEAN /\ mayBlock \in BOOLEAN

WrapperInit ==
    /\ task = [f \in Calls |-> "none"] /\ future = [f \in Calls |-> "none"]
    /\ op = [f \in Calls |-> "query"] /\ collected = [f \in Calls |-> FALSE]
    /\ holder = 0 /\ poisoned = FALSE /\ depth = 0 /\ fresh = TRUE /\ gone = FALSE
    /\ mayBlock \in BOOLEAN

-------------------------------------------------------------------------------
(* The user has &mut self, unless a call of it blocks the thread.          *)
UserRuns == ~gone /\ \A f \in Calls : future[f] \notin {"binding", "dropping"}

Unfinished == {f \in Calls : task[f] \in {"queued", "running"}}

(* mistake: a poisoned mutex is an error, and stays one                     *)
CanLock_Sound == holder = 0 /\ ~poisoned
(* A poisoned mutex is locked all the same, and the poison cleared.        *)
CanLock == holder = 0

(* A query collects its binds under the lock before the task is handed over;
   the other calls are handed over at once.                                *)
Call(f, o) ==
    /\ UserRuns /\ future[f] = "none" /\ \A g \in 1..(f - 1) : future[g] # "none"
    /\ op' = [op EXCEPT ![f] = o]
    /\ IF o = "query"
       THEN future' = [future EXCEPT ![f] = "binding"] /\ UNCHANGED <<task, collected>>
       ELSE /\ future' = [future EXCEPT ![f] = "pending"]
            /\ task' = [task EXCEPT ![f] = "queued"]
            /\ collected' = [collected EXCEPT ![f] = TRUE]
    /\ fresh' = FALSE
    /\ UNCHANGED <<holder, poisoned, depth, gone, mayBlock>>

(* An error of the binds is left to the task to report.                    *)
CollectBinds(f, outcome) ==
    /\ future[f] = "binding" /\ CanLock
    /\ IF outcome = "panic"
       THEN /\ future' = [future EXCEPT ![f] = "over"]
            /\ UNCHANGED <<task, collected>>
       ELSE /\ future' = [future EXCEPT ![f] = "pending"]
            /\ task' = [task EXCEPT ![f] = "queued"]
            /\ collected' = [collected EXCEPT ![f] = outcome = "ok"]
    /\ poisoned' = (outcome = "panic")
    /\ UNCHANGED <<op, holder, depth, fresh, gone, mayBlock>>

(* The pool of threads runs a task once it has the lock.                   *)
Run(f) ==
    /\ task[f] = "queued" /\ CanLock
    /\ task' = [task EXCEPT ![f] = "running"]
    /\ holder' = f /\ poisoned' = FALSE
    /\ UNCHANGED <<future, op, collected, depth, fresh, gone, mayBlock>>

(* mistake: a level is closed without looking whether one is open           *)
Depth_Unguarded(f) == IF op[f] = "begin" THEN depth + 1 ELSE IF op[f] = "close" THEN depth - 1 ELSE depth
(* The manager of the connection within, when the statement succeeds.      *)
Depth(f) ==
    IF op[f] = "begin" THEN depth + 1 ELSE IF op[f] = "close" /\ depth > 0 THEN depth - 1 ELSE depth

(* The task ends, and with it its reference to the connection.             *)
End(f, outcome) ==
    /\ task[f] = "running" /\ (outcome = "ok" => collected[f])
    /\ task' = [task EXCEPT ![f] = "done"]
    /\ holder' = 0 /\ poisoned' = (outcome = "panic")
    /\ depth' = IF outcome = "ok" THEN Depth(f) ELSE depth
    /\ UNCHANGED <<future, op, collected, fresh, gone, mayBlock>>

(* The user awaits a future.                                               *)
Await(f) ==
    /\ UserRuns /\ future[f] = "pending" /\ task[f] = "done"
    /\ future' = [future EXCEPT ![f] = "over"]
    /\ UNCHANGED <<task, op, collected, holder, poisoned, depth, fresh, gone, mayBlock>>

(* mistake: the wrapper of the future lets the task go                      *)
DropWaits_Not(f) == FALSE
(* block_in_place panics on a thread that must not block.                  *)
DropWaits(f) == task[f] # "done" /\ mayBlock

DropFuture(f) ==
    /\ UserRuns /\ future[f] = "pending"
    /\ future' = [future EXCEPT ![f] = IF DropWaits(f) THEN "dropping" ELSE "over"]
    /\ UNCHANGED <<task, op, collected, holder, poisoned, depth, fresh, gone, mayBlock>>

DropEnds(f) ==
    /\ future[f] = "dropping" /\ task[f] = "done"
    /\ future' = [future EXCEPT ![f] = "over"]
    /\ UNCHANGED <<task, op, collected, holder, poisoned, depth, fresh, gone, mayBlock>>

(* mistake: open transactions are no reason to close a connection           *)
IsBroken_Never == FALSE
(* is_broken of the manager: here the depth stands for a status in error too,
   and no transaction is a test transaction.                               *)
IsBroken == depth > 0

(* The user returns the connection to the pool, which asks whether it is
   broken: that needs the connection at once, and finds poison fatal.  A
   broken one is closed, and another handed out.                           *)
GiveBack ==
    /\ UserRuns /\ ~fresh
    /\ IF Unfinished # {} \/ poisoned
       THEN gone' = TRUE /\ UNCHANGED <<depth, fresh>>
       ELSE /\ depth' = IF IsBroken THEN 0 ELSE depth
            /\ fresh' = TRUE /\ UNCHANGED gone
    /\ UNCHANGED <<calls, holder, poisoned, mayBlock>>

-------------------------------------------------------------------------------
Threads == \E f \in Calls : Run(f) \/ \E outcome \in {"ok", "err", "panic"} : End(f, outcome)
Blocked == \E f \in Calls : DropEnds(f) \/ \E outcome \in {"ok", "err", "panic"} : CollectBinds(f, outcome)

WrapperNext ==
    \/ \E f \in Calls, o \in {"query", "batch", "begin", "close"} : Call(f, o)
    \/ \E f \in Calls : Await(f) \/ DropFuture(f)
    \/ GiveBack \/ Threads \/ Blocked

(* The threads of the pool run what they are given, and a thread that waits
   for the lock or for a task goes on when it can.                         *)
WrapperSpec == WrapperInit /\ [][WrapperNext]_wrapperVars /\ WF_wrapperVars(Threads) /\ WF_wrapperVars(Blocked)

-------------------------------------------------------------------------------
(* "there should be no other pending future when this is called that means
   there is only one instance of this Arc" (mod.rs:457-459): once every
   future was awaited or dropped, the user has the only reference, so that
   transaction_state, instrumentation and the size of the cache can be had
   without a panic.                                                        *)
ExclusiveWhenIdle ==
    mayBlock /\ UserRuns /\ (\A f \in Calls : future[f] # "pending") => Unfinished = {}

(* No user is given a connection with the transaction of another, or one on
   which a call of another still runs; on any runtime.                     *)
HandedOutClean == fresh => depth = 0 /\ Unfinished = {}

(* Every call that was made is carried out, and no thread waits for ever:
   after panics too.                                                       *)
EveryCallEnds ==
    /\ \A f \in Calls : task[f] = "queued" ~> task[f] = "done"
    /\ []<>(\A f \in Calls : future[f] \notin {"binding", "dropping"})

===============================================================================
