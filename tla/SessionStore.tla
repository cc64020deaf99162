----------------------------- MODULE SessionStore -----------------------------
(***************************************************************************)
(* The durable store of chat sessions and the kernels on top of it           *)
(* (JsonlSessionEventStore and SessionKernel.append of                       *)
(* src/src/framework/session.ts).  Several processes may open one session:    *)
(* a kernel numbers its events from its own copy, the store takes the append  *)
(* lock, looks at the file again - or at its cache, when the file's identity  *)
(* has not changed -, cuts a torn tail, writes and syncs.  The first v2 event *)
(* of a v1 file is preceded by a copy of its bytes.  The lock is taken at its *)
(* word (ExclusiveOwner).                                                    *)
(***************************************************************************)
EXTENDS Naturals, Sequences, SequencesExt

CONSTANTS
  Kernels,     \* processes with the session open
  None,
  Ghost,       \* a dead process
  MaxAppends,  \* bound: the events that kernels try to append
  MaxUpsets    \* bound: crashes, and file operations that fail

VARIABLES
  lines,     \* committed events of the file
  torn,      \* bytes after the last newline: None, or whose event they begin
  stamp,     \* the file's identity: changes with its content
  backup,    \* the .pre-v2 copy: None or the bytes preserved
  owner,     \* of the append lock
  pc,        \* of each kernel: "closed", "open", or a step of append
  events,    \* its copy of the journal
  known,     \* its store's cache entry
  appends, upsets

file == <<lines, torn, stamp>>
vars == <<file, backup, owner, pc, events, known, appends, upsets>>

Bytes == [lines |-> lines, torn |-> torn]
Legacy == [seq |-> 1, by |-> None, version |-> 1]
Unread == [lines |-> <<>>, torn |-> FALSE, stamp |-> None]

Init ==
  /\ lines \in {<<>>, <<Legacy>>} /\ torn \in IF lines = <<>> THEN {None} ELSE {None, Ghost}
  /\ stamp = 0 /\ backup = None
  /\ owner = None
  /\ pc = [k \in Kernels |-> "closed"]
  /\ events = [k \in Kernels |-> <<>>] /\ known = [k \in Kernels |-> Unread]
  /\ appends = 0 /\ upsets = 0

To(k, from, to) == pc[k] = from /\ pc' = [pc EXCEPT ![k] = to]
Upset == upsets < MaxUpsets /\ upsets' = upsets + 1

\* readLog; currentLog takes the cache entry while the identity is the same.
OnDisk == [lines |-> lines, torn |-> torn # None, stamp |-> stamp]
CurrentLog(k) == IF known[k].stamp = stamp THEN known[k] ELSE OnDisk

(* new SessionKernel: read and replay.                                       *)
Open(k) ==
  /\ To(k, "closed", "open")
  /\ known' = [known EXCEPT ![k] = CurrentLog(k)]
  /\ events' = [events EXCEPT ![k] = known'[k].lines]
  /\ UNCHANGED <<file, backup, owner, appends, upsets>>

(* append: the lock refuses while a live process holds it.                   *)
Event(k) == [seq |-> Len(events[k]) + 1, by |-> k, version |-> 2]
Lock(k) ==
  /\ appends < MaxAppends /\ appends' = appends + 1
  /\ owner \in {None, Ghost} /\ owner' = k
  /\ To(k, "open", "check")
  /\ UNCHANGED <<file, backup, events, known, upsets>>

(* Seeded fault: a cache entry is used whatever the file's identity.          *)
CheckCached(k) ==
  LET current == IF known[k].stamp # None THEN known[k] ELSE OnDisk IN
  /\ To(k, "check", IF Event(k).seq # Len(current.lines) + 1 THEN "failed"
                    ELSE IF current.torn THEN "cut" ELSE "write")
  /\ UNCHANGED <<file, backup, owner, events, known, appends, upsets>>

(* validateEventEnvelope against the current log.                            *)
Check(k) ==
  LET current == CurrentLog(k) IN
  /\ known' = [known EXCEPT ![k] = current]
  /\ To(k, "check",
        IF Event(k).seq # Len(current.lines) + 1 THEN "failed"
        ELSE IF current.lines # <<>> /\ \A e \in Range(current.lines) : e.version = 1
             THEN "preserve" ELSE IF current.torn THEN "cut" ELSE "write")
  /\ UNCHANGED <<file, backup, owner, events, appends, upsets>>

(* preserveV1Bytes: a complete copy is linked into place, or is there already *)
(* and must be the same.                                                     *)
Preserve(k) ==
  /\ backup \in {None, Bytes} /\ backup' = Bytes
  /\ To(k, "preserve", IF known[k].torn THEN "cut" ELSE "write")
  /\ UNCHANGED <<file, owner, events, known, appends, upsets>>
PreserveRefused(k) ==
  /\ backup \notin {None, Bytes} /\ To(k, "preserve", "failed")
  /\ UNCHANGED <<file, backup, owner, events, known, appends, upsets>>

(* ftruncateSync to the committed length.                                    *)
Cut(k) ==
  /\ To(k, "cut", "write")
  /\ lines' = SubSeq(lines, 1, Len(known[k].lines)) /\ torn' = None /\ stamp' = stamp + 1
  /\ UNCHANGED <<backup, owner, events, known, appends, upsets>>

WriteSome(k) ==
  /\ To(k, "write", "writing")
  /\ torn' = k /\ stamp' = stamp + 1
  /\ UNCHANGED <<lines, backup, owner, events, known, appends, upsets>>
WriteRest(k) ==
  /\ To(k, "writing", "written")
  /\ lines' = Append(lines, Event(k)) /\ torn' = None /\ stamp' = stamp + 1
  /\ UNCHANGED <<backup, owner, events, known, appends, upsets>>

(* fsync, the new cache entry, the lock's release; the kernel takes the event *)
(* into its copy.                                                            *)
Finish(k) ==
  /\ To(k, "written", "open") /\ owner' = None
  /\ events' = [events EXCEPT ![k] = Append(@, Event(k))]
  /\ known' = [known EXCEPT ![k] = [lines |-> Append(@.lines, Event(k)), torn |-> FALSE, stamp |-> stamp]]
  /\ UNCHANGED <<file, backup, appends, upsets>>

(* A write or the fsync fails: what was written stays.                       *)
Fail(k) ==
  /\ Upset
  /\ \E from \in {"preserve", "cut", "write", "writing", "written"} : To(k, from, "failed")
  /\ UNCHANGED <<file, backup, owner, events, known, appends>>
Unlock(k) ==
  /\ To(k, "failed", "open") /\ owner' = None
  /\ UNCHANGED <<file, backup, events, known, appends, upsets>>

Crash(k) ==
  /\ Upset
  /\ pc[k] # "closed" /\ pc' = [pc EXCEPT ![k] = "closed"]
  /\ owner' = IF owner = k THEN Ghost ELSE owner
  /\ events' = [events EXCEPT ![k] = <<>>] /\ known' = [known EXCEPT ![k] = Unread]
  /\ UNCHANGED <<file, backup, appends>>

Next ==
  \E k \in Kernels :
    \/ Open(k) \/ Lock(k) \/ Check(k) \/ Preserve(k) \/ PreserveRefused(k) \/ Cut(k)
    \/ WriteSome(k) \/ WriteRest(k) \/ Finish(k) \/ Fail(k) \/ Unlock(k) \/ Crash(k)

Spec == Init /\ [][Next]_vars

-----------------------------------------------------------------------------
(* The session never forks: events are numbered without gap or repetition,    *)
(* and every open kernel's copy - so every event an append was acknowledged   *)
(* for - is a prefix of the file, whoever else writes, crashes or fails; and   *)
(* the preserved copy is the part of the file that was written as v1.         *)
NeverForks ==
  /\ \A i \in 1..Len(lines) : lines[i].seq = i
  /\ \A k \in Kernels : IsPrefix(events[k], lines)
  /\ backup # None =>
       /\ IsPrefix(backup.lines, lines)
       /\ \A i \in 1..Len(lines) : lines[i].version = 1 <=> i <= Len(backup.lines)
=============================================================================
