------------------------------ MODULE MCStores ------------------------------
(***************************************************************************)
(* Model-checking instance of three stores that several processes, or        *)
(* several users of one pool, share: grants, JSON files and Postgres rows.   *)
(* They have no state in common, so a behaviour exercises one of them, and   *)
(* `part` says which.                                                        *)
(***************************************************************************)
EXTENDS GrantStore, TLC

CONSTANTS
  Ghost,                                         \* a process that died
  Cells, Contents,                               \* of a Postgres table
  MaxUpsets, MaxWrites, MaxFaults, MaxPools      \* bounds

ASSUME StoresAssumption == Ghost \notin Procs

VARIABLES
  part,
  disk, temps, holder, pc, cache, baseline, data, op, mutated, upsets,
  pools, current, closing, captured, epoch, phase, started, pool, rows, table,
  queue, done, failed, errors, flushing, faults

Files == INSTANCE FileStore WITH
  Clients <- Procs, Keys <- Attempts, Values <- Executions, Stale <- Ghost
Postgres == INSTANCE PgStore WITH
  Stores <- Procs, Keys <- Cells, Values <- Contents, cache <- rows

files == <<disk, temps, holder, pc, cache, baseline, data, op, mutated, upsets>>
postgres == <<pools, current, closing, captured, epoch, phase, started, pool, rows,
              table, queue, done, failed, errors, flushing, faults>>

MCInit == part \in {"grants", "files", "postgres"} /\ Init /\ Files!Init /\ Postgres!Init

MCNext ==
  /\ UNCHANGED part
  /\ \/ part = "grants" /\ Next /\ UNCHANGED <<files, postgres>>
     \/ part = "files" /\ Files!Next /\ UNCHANGED <<vars, postgres>>
     \/ part = "postgres" /\ Postgres!Next /\ UNCHANGED <<vars, files>>

MCSpec == MCInit /\ [][MCNext]_<<part, vars, files, postgres>>

Symmetry == Permutations(Procs) \union Permutations(Attempts) \union Permutations(Executions)

-----------------------------------------------------------------------------
(* FileStore: what an update commits (store.ts 63-71).                       *)
NoLostUpdate == Files!NoLostUpdate

(* PgStore: what flush() and closePgPool() vouch for, and that the pool of an  *)
(* open store is open (pg-store.ts 31-80 and 111-146).                       *)
Vouched == [][Postgres!PoolOutlivesStores']_postgres /\ Postgres!FlushVouches
=============================================================================
