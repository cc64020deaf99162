------------------------------ MODULE FileStore ------------------------------
(***************************************************************************)
(* createStore() of src/src/framework/store.ts: a JSON file that several     *)
(* processes use like a Map.  Each keeps a cache whose objects its callers   *)
(* may change by reference, and a baseline (the values last read or          *)
(* committed) that tells such a change from a stale value.  An update runs   *)
(* under a file lock: load, merge the local changes, apply, write a          *)
(* temporary snapshot, rename it over the file.  The lock is taken at its    *)
(* word here (ExclusiveOwner; its algorithm is JournalLock's).               *)
(***************************************************************************)
EXTENDS Naturals

CONSTANTS
  Clients,      \* processes with the store open
  Keys, Values,
  None,         \* no such key; no one
  Stale,        \* stands for a process that died
  MaxUpsets     \* bound: crashes, and file operations that fail

VARIABLES
  disk,      \* the file
  temps,     \* whose temporary snapshots lie beside it
  holder,    \* whose claim the lock file is
  pc,        \* how far the process is: "dead", "idle" or a step of update()
  cache, baseline,
  data,      \* update()'s copy of the file
  op,        \* the operation under way
  mutated,   \* keys whose object was changed by reference since the last sync
  upsets

local == <<cache, baseline, data, op, mutated>>
vars == <<disk, temps, holder, pc, local, upsets>>

Empty == [k \in Keys |-> None]
NoOp == [kind |-> "none"]
Ops == [kind : {"set"}, key : Keys, value : Values] \union [kind : {"delete"}, key : Keys]
         \union {[kind |-> "clear"], [kind |-> "unchanged"]}

Init ==
  /\ disk = Empty /\ temps = {} /\ holder = None
  /\ pc = [c \in Clients |-> "idle"]
  /\ cache = [c \in Clients |-> Empty] /\ baseline = cache /\ data = cache
  /\ op = [c \in Clients |-> NoOp]
  /\ mutated = [c \in Clients |-> {}]
  /\ upsets = 0

At(c, from, to) == pc[c] = from /\ pc' = [pc EXCEPT ![c] = to]

\* isLocallyMutated, mergeLocallyMutatedValues
Differs(c) == {k \in Keys : cache[c][k] # baseline[c][k]}
Merged(c) == [k \in Keys |-> IF k \in Differs(c) THEN cache[c][k] ELSE disk[k]]

Touches(o) ==
  CASE o.kind \in {"set", "delete"} -> {o.key} [] o.kind = "clear" -> Keys [] OTHER -> {}
Applied(o, store) ==
  CASE o.kind = "set" -> [store EXCEPT ![o.key] = o.value]
    [] o.kind = "delete" -> [store EXCEPT ![o.key] = None]
    [] o.kind = "clear" -> Empty
    [] OTHER -> store
Writes(o, store) ==
  o.kind \in {"set", "clear"} \/ (o.kind = "delete" /\ store[o.key] # None)

(* Seeded fault: the baseline is kept, so a value refreshed from the file     *)
(* looks like a local change.                                                *)
GetKeepingBaseline(c) ==
  /\ pc[c] = "idle"
  /\ cache' = [cache EXCEPT ![c] = Merged(c)]
  /\ UNCHANGED <<disk, temps, holder, pc, baseline, data, op, mutated, upsets>>

(* read(): get, has, entries, size.                                          *)
Get(c) ==
  /\ pc[c] = "idle"
  /\ cache' = [cache EXCEPT ![c] = Merged(c)]
  /\ baseline' = [baseline EXCEPT ![c] = disk]
  /\ UNCHANGED <<disk, temps, holder, pc, data, op, mutated, upsets>>

(* The caller changes an object that get() returned.                         *)
ChangeByReference(c) ==
  /\ pc[c] = "idle"
  /\ \E k \in Keys, v \in Values :
       /\ cache[c][k] \notin {None, v}
       /\ cache' = [cache EXCEPT ![c][k] = v]
       /\ mutated' = [mutated EXCEPT ![c] = @ \union {k}]
  /\ UNCHANGED <<disk, temps, holder, pc, baseline, data, op, upsets>>

(* set, delete, clear, mutate: the lock, waited for or reclaimed.  A wait     *)
(* that times out changes nothing.                                           *)
Lock(c) ==
  /\ holder \in {None, Stale} /\ holder' = c
  /\ At(c, "idle", "load")
  /\ \E o \in Ops : op' = [op EXCEPT ![c] = o]
  /\ UNCHANGED <<disk, temps, cache, baseline, data, mutated, upsets>>

(* Under the lock: reclaimStaleTempFiles, loadData, the merge, the mutation.  *)
Load(c) ==
  /\ At(c, "load", IF Writes(op[c], Merged(c)) \/ Differs(c) # {} THEN "persist" ELSE "sync")
  /\ temps' = temps \ {Stale}
  /\ data' = [data EXCEPT ![c] = Applied(op[c], Merged(c))]
  /\ UNCHANGED <<disk, holder, cache, baseline, op, mutated, upsets>>

(* persistData: the snapshot is written, then renamed over the file.         *)
WriteTemp(c) ==
  /\ At(c, "persist", "rename")
  /\ temps' = temps \union {c}
  /\ UNCHANGED <<disk, holder, local, upsets>>
Rename(c) ==
  /\ c \in temps /\ At(c, "rename", "sync")
  /\ temps' = temps \ {c} /\ disk' = data[c]
  /\ UNCHANGED <<holder, local, upsets>>

(* synchronizeStoreCache, the new baseline, and the lock's release.          *)
Finish(c) ==
  /\ At(c, "sync", "idle")
  /\ cache' = [cache EXCEPT ![c] = data[c]] /\ baseline' = [baseline EXCEPT ![c] = data[c]]
  /\ mutated' = [mutated EXCEPT ![c] = {}]
  /\ holder' = None
  /\ op' = [op EXCEPT ![c] = NoOp] /\ data' = [data EXCEPT ![c] = Empty]
  /\ UNCHANGED <<disk, temps, upsets>>

(* The mutation or a file operation throws - after the rename too, when the   *)
(* directory cannot be synced: the temporary file and the lock go, the cache  *)
(* and its baseline stay as they were.                                       *)
Fail(c) ==
  /\ upsets < MaxUpsets /\ upsets' = upsets + 1
  /\ \E from \in {"load", "persist", "rename", "sync"} : At(c, from, "idle")
  /\ temps' = temps \ {c} /\ holder' = None
  /\ op' = [op EXCEPT ![c] = NoOp] /\ data' = [data EXCEPT ![c] = Empty]
  /\ UNCHANGED <<disk, cache, baseline, mutated>>

Crash(c) ==
  /\ upsets < MaxUpsets /\ upsets' = upsets + 1
  /\ pc[c] # "dead" /\ pc' = [pc EXCEPT ![c] = "dead"]
  /\ temps' = IF c \in temps THEN (temps \ {c}) \union {Stale} ELSE temps
  /\ holder' = IF holder = c THEN Stale ELSE holder
  /\ cache' = [cache EXCEPT ![c] = Empty] /\ baseline' = [baseline EXCEPT ![c] = Empty]
  /\ data' = [data EXCEPT ![c] = Empty] /\ op' = [op EXCEPT ![c] = NoOp]
  /\ mutated' = [mutated EXCEPT ![c] = {}]
  /\ UNCHANGED disk

(* A new process opens the store.                                            *)
Open(c) ==
  /\ At(c, "dead", "idle")
  /\ temps' = temps \ {Stale}
  /\ cache' = [cache EXCEPT ![c] = disk] /\ baseline' = [baseline EXCEPT ![c] = disk]
  /\ UNCHANGED <<disk, holder, data, op, mutated, upsets>>

Next ==
  \E c \in Clients :
    \/ Get(c) \/ ChangeByReference(c) \/ Lock(c) \/ Load(c) \/ WriteTemp(c) \/ Rename(c)
    \/ Finish(c) \/ Fail(c) \/ Crash(c) \/ Open(c)

Spec == Init /\ [][Next]_vars

-----------------------------------------------------------------------------
(* No update is lost: a step changes only keys that the operation it commits  *)
(* names or whose object its caller changed by reference, and an operation    *)
(* that succeeds leaves what it computed on disk, whatever the other          *)
(* processes, a crash or a failed write did meanwhile (store.ts 63-71).       *)
NoLostUpdate ==
  [][/\ disk' # disk =>
          \E c \in Clients : Rename(c) /\ \A k \in Keys :
            disk'[k] = disk[k] \/ k \in Touches(op[c]) \union mutated[c]
     /\ \A c \in Clients : Finish(c) => disk = data[c]]_vars
=============================================================================
