------------------------------- MODULE PgStore -------------------------------
(***************************************************************************)
(* src/src/framework/pg-store.ts: caches over Postgres whose writes go out    *)
(* in order behind the caller's back, and the connection pool they share.    *)
(* set() returns before its write does; flush() and closePgPool() are where    *)
(* a failed write is heard of.  Every store here uses the shared pool.        *)
(***************************************************************************)
EXTENDS Naturals, Sequences

CONSTANTS
  Stores, Keys, Values,
  None,
  MaxWrites,   \* bound: the changes made to one store
  MaxFaults,   \* bound: queries, or initialisations of the pool, that fail
  MaxPools     \* bound: the pools ever made

VARIABLES
  pools,     \* every pool made so far: "opening", "open", "failed" or "ended"
  current,   \* poolPromise, as an index of pools; 0 when undefined
  closing,   \* closePgPool: "no", "flushing" or "ending"
  captured,  \* the stores and the pool it found, and whether it met an error
  epoch,     \* poolEpoch
  phase,     \* of each store: "none", "connecting", "loading", "open", "closed"
  started,   \* its startupEpoch
  pool,      \* the pool its queries go to
  cache, table,
  queue,     \* the writes behind its tail
  done,      \* how many have been tried
  failed,    \* which of them failed
  errors,    \* its errors array holds something
  flushing,  \* the boundary of a flush under way: a number of writes, or None
  faults

conn == <<pools, current>>
shut == <<closing, captured, epoch>>
rows == <<cache, table, queue, done, failed, errors>>
vars == <<conn, shut, phase, started, pool, rows, flushing, faults>>

Empty == [k \in Keys |-> None]
NoShutdown == [stores |-> {}, pool |-> 0, error |-> FALSE]
Each(x) == [s \in Stores |-> x]

Init ==
  /\ pools = <<>> /\ current = 0
  /\ closing = "no" /\ captured = NoShutdown /\ epoch = 0
  /\ phase = Each("none") /\ started = Each(0) /\ pool = Each(0)
  /\ cache = Each(Empty) /\ table = Each(Empty)
  /\ queue = Each(<<>>) /\ done = Each(0) /\ failed = Each({}) /\ errors = Each(FALSE)
  /\ flushing = Each(None) /\ faults = 0

To(s, from, to) == phase[s] = from /\ phase' = [phase EXCEPT ![s] = to]
Fault == faults < MaxFaults /\ faults' = faults + 1

(* createPgStore and getPool, up to the first await.                         *)
Create(s) ==
  /\ closing = "no" /\ To(s, "none", "connecting")
  /\ started' = [started EXCEPT ![s] = epoch]
  /\ IF current = 0
     THEN /\ Len(pools) < MaxPools
          /\ pools' = Append(pools, "opening") /\ current' = Len(pools')
     ELSE UNCHANGED conn
  /\ pool' = [pool EXCEPT ![s] = current']
  /\ UNCHANGED <<shut, rows, flushing, faults>>

(* The pg driver is imported, or is not there.                               *)
PoolOpens ==
  /\ \E g \in 1..Len(pools) : pools[g] = "opening" /\ pools' = [pools EXCEPT ![g] = "open"]
  /\ UNCHANGED <<current, shut, phase, started, pool, rows, flushing, faults>>
PoolFails ==
  /\ Fault
  /\ \E g \in 1..Len(pools) :
       /\ pools[g] = "opening" /\ pools' = [pools EXCEPT ![g] = "failed"]
       /\ current' = IF current = g THEN 0 ELSE current
  /\ UNCHANGED <<shut, phase, started, pool, rows, flushing>>

(* CREATE TABLE and SELECT: refused by an ended pool.                        *)
Load(s) ==
  /\ To(s, "connecting", "loading") /\ pools[pool[s]] = "open"
  /\ cache' = [cache EXCEPT ![s] = table[s]]
  /\ UNCHANGED <<conn, shut, started, pool, table, queue, done, failed, errors, flushing, faults>>
LoadFails(s) ==
  /\ To(s, "connecting", "none")
  /\ \/ pools[pool[s]] \in {"ended", "failed"} /\ UNCHANGED faults
     \/ pools[pool[s]] = "open" /\ Fault
  /\ UNCHANGED <<conn, shut, started, pool, rows, flushing>>

(* Seeded fault: only a shutdown still under way stops a new store.           *)
RegisterUnlessClosing(s) ==
  /\ To(s, "loading", IF closing # "no" THEN "none" ELSE "open")
  /\ queue' = [queue EXCEPT ![s] = <<>>] /\ done' = [done EXCEPT ![s] = 0]
  /\ failed' = [failed EXCEPT ![s] = {}] /\ errors' = [errors EXCEPT ![s] = FALSE]
  /\ UNCHANGED <<conn, shut, started, pool, cache, table, flushing, faults>>

(* The rows have arrived: the store is registered, unless a shutdown began,   *)
(* or came and went, meanwhile.                                              *)
Register(s) ==
  /\ To(s, "loading", IF closing # "no" \/ started[s] # epoch THEN "none" ELSE "open")
  /\ queue' = [queue EXCEPT ![s] = <<>>] /\ done' = [done EXCEPT ![s] = 0]
  /\ failed' = [failed EXCEPT ![s] = {}] /\ errors' = [errors EXCEPT ![s] = FALSE]
  /\ UNCHANGED <<conn, shut, started, pool, cache, table, flushing, faults>>

(* The SQL of one write, applied to a table (or, at once, to the cache).      *)
Apply(write, rowsOf) ==
  CASE write.kind = "set" -> [rowsOf EXCEPT ![write.key] = write.value]
    [] write.kind = "delete" -> [rowsOf EXCEPT ![write.key] = None]
    [] write.kind = "clear" -> Empty

(* set, clear, and delete of a row the cache has: assertOpen, then enqueue.   *)
Change(s) ==
  /\ phase[s] = "open" /\ Len(queue[s]) < MaxWrites
  /\ \E write \in [kind : {"set"}, key : Keys, value : Values]
                    \union [kind : {"delete"}, key : {k \in Keys : cache[s][k] # None}]
                    \union {[kind |-> "clear"]} :
       /\ cache' = [cache EXCEPT ![s] = Apply(write, @)]
       /\ queue' = [queue EXCEPT ![s] = Append(@, write)]
  /\ UNCHANGED <<conn, shut, phase, started, pool, table, done, failed, errors, flushing, faults>>

(* The next write of the tail reaches the database.                          *)
Persist(s) ==
  /\ done[s] < Len(queue[s]) /\ pools[pool[s]] = "open"
  /\ done' = [done EXCEPT ![s] = @ + 1]
  /\ table' = [table EXCEPT ![s] = Apply(queue[s][done'[s]], @)]
  /\ UNCHANGED <<conn, shut, phase, started, pool, cache, queue, failed, errors, flushing, faults>>
PersistFails(s) ==
  /\ done[s] < Len(queue[s])
  /\ \/ pools[pool[s]] = "ended" /\ UNCHANGED faults
     \/ pools[pool[s]] = "open" /\ Fault
  /\ done' = [done EXCEPT ![s] = @ + 1]
  /\ failed' = [failed EXCEPT ![s] = @ \union {done'[s]}]
  /\ errors' = [errors EXCEPT ![s] = TRUE]
  /\ UNCHANGED <<conn, shut, phase, started, pool, cache, table, queue, flushing>>

Flush(s) ==
  /\ phase[s] \in {"open", "closed"} /\ flushing[s] = None
  /\ flushing' = [flushing EXCEPT ![s] = Len(queue[s])]
  /\ UNCHANGED <<conn, shut, phase, started, pool, rows, faults>>

(* Seeded fault: an error is told once.                                      *)
FlushForgetting(s) ==
  /\ flushing[s] # None /\ done[s] >= flushing[s]
  /\ flushing' = [flushing EXCEPT ![s] = None]
  /\ errors' = [errors EXCEPT ![s] = FALSE]
  /\ UNCHANGED <<conn, shut, phase, started, pool, cache, table, queue, done, failed, faults>>

(* flush() resolves, or rejects when errors is not empty.                    *)
FlushEnds(s) ==
  /\ flushing[s] # None /\ done[s] >= flushing[s]
  /\ flushing' = [flushing EXCEPT ![s] = None]
  /\ UNCHANGED <<conn, shut, phase, started, pool, rows, faults>>

(* closePgPool: no store takes changes any more; each is flushed, the pool    *)
(* ended and forgotten.                                                      *)
Close ==
  /\ closing = "no" /\ closing' = "flushing"
  /\ epoch' = epoch + 1 /\ epoch < MaxPools
  /\ captured' = [stores |-> {s \in Stores : phase[s] = "open"}, pool |-> current, error |-> FALSE]
  /\ phase' = [s \in Stores |-> IF phase[s] = "open" THEN "closed" ELSE phase[s]]
  /\ UNCHANGED <<conn, started, pool, rows, flushing, faults>>
AllFlushed ==
  /\ closing = "flushing" /\ closing' = "ending"
  /\ \A s \in captured.stores : done[s] = Len(queue[s])
  /\ captured' = [captured EXCEPT !.error = \E s \in captured.stores : errors[s]]
  /\ UNCHANGED <<conn, epoch, phase, started, pool, rows, flushing, faults>>
Closed ==
  /\ closing = "ending" /\ closing' = "no"
  /\ captured.pool # 0 => pools[captured.pool] # "opening"
  /\ pools' = [g \in 1..Len(pools) |->
                 IF g = captured.pool /\ pools[g] = "open" THEN "ended" ELSE pools[g]]
  /\ current' = IF current = captured.pool THEN 0 ELSE current
  /\ captured' = NoShutdown
  /\ UNCHANGED <<epoch, phase, started, pool, rows, flushing, faults>>

(* A store of the same name is created anew after the shutdown.              *)
Reopen(s) ==
  /\ closing = "no" /\ flushing[s] = None /\ To(s, "closed", "none")
  /\ UNCHANGED <<conn, shut, started, pool, rows, flushing, faults>>

Next ==
  \/ PoolOpens \/ PoolFails \/ Close \/ AllFlushed \/ Closed
  \/ \E s \in Stores :
       \/ Create(s) \/ Load(s) \/ LoadFails(s) \/ Register(s) \/ Change(s)
       \/ Persist(s) \/ PersistFails(s) \/ Flush(s) \/ FlushEnds(s) \/ Reopen(s)

Spec == Init /\ [][Next]_vars

-----------------------------------------------------------------------------
(* A flush that resolves vouches for every write made before it, however many *)
(* flushes have told of a failure already; and a shutdown that reports no      *)
(* error leaves in the database what each cache showed (pg-store.ts 56-58,    *)
(* 79-81).                                                                   *)
FlushVouches ==
  [][/\ \A s \in Stores : FlushEnds(s) /\ ~errors[s] => failed[s] \cap 1..flushing[s] = {}
     /\ Closed /\ ~captured.error => \A s \in captured.stores : table[s] = cache[s]]_vars

(* No open store is left on a pool that has been ended, and none that was      *)
(* still being created while the pool closed can become one.                 *)
PoolOutlivesStores ==
  \A s \in Stores : phase[s] = "open" => pools[pool[s]] = "open"
=============================================================================
