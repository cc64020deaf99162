---------------------------- MODULE SecureJournal ----------------------------
(***************************************************************************)
(* SecureJsonlJournal of src/framework/journal-file.ts, the stream under   *)
(* execution and work journals: record() reads the stream without a lock   *)
(* to number its event, append() takes the append lock, reads again,       *)
(* compares, cuts a torn tail, writes, and syncs.  A newline commits.      *)
(*                                                                         *)
(* The lock is the ExclusiveOwner that JournalLock implements.  A process  *)
(* that dies comes back as a new one; its lock is left to a Ghost.         *)
(***************************************************************************)
EXTENDS Naturals, Sequences, FiniteSets

CONSTANTS Procs,       \* processes that use the stream
          MaxRecords,  \* bounds the record() calls of one process
          Ghost,       \* a dead process
          None,        \* nobody, no fragment
          Garbage      \* a line no event is parsed from

Events == [by : Procs, nr : 1..MaxRecords, seq : 1..(Cardinality(Procs) * MaxRecords)]

ASSUME JournalAssumption ==
  /\ IsFiniteSet(Procs) /\ MaxRecords \in Nat
  /\ None \notin Procs /\ Ghost \notin Procs
  /\ None \notin Events /\ Garbage \notin Events

VARIABLES
  lines,     \* committed lines of the file
  fragment,  \* bytes after the last newline: the event they begin, or Garbage
  synced,    \* committed lines that fsync has made durable
  owner,     \* of the append lock
  pc,        \* per process, where its record() or read() stands
  made,      \* per process, the record() calls it has made
  view,      \* per process, the file as its unlocked read saw it
  acked      \* events whose append() has returned

file == <<lines, fragment, synced>>
vars == <<file, owner, pc, made, view, acked>>

Event(p)  == [by |-> p, nr |-> made[p], seq |-> Len(view[p]) + 1]
At(p, label)   == pc[p] = label
Goto(p, label) == pc' = [pc EXCEPT ![p] = label]
PCs == {"idle", "reading", "numbered", "locked", "cut", "write", "writing", "sync", "done", "failed"}

Init ==
  /\ lines = <<>> /\ fragment = None /\ synced = 0
  /\ owner = None
  /\ pc = [p \in Procs |-> "idle"] /\ made = [p \in Procs |-> 0]
  /\ view = [p \in Procs |-> <<>>]
  /\ acked = {}

-----------------------------------------------------------------------------
(* record(): number the event from an unlocked read.                       *)

\* readPrivateFile: size and times before.
StartRead(p) ==
  /\ At(p, "idle") /\ made[p] < MaxRecords
  /\ made' = [made EXCEPT ![p] = @ + 1]
  /\ view' = [view EXCEPT ![p] = lines]
  /\ Goto(p, "reading")
  /\ UNCHANGED <<file, owner, acked>>

\* The bytes were read and the times are the same: the view is a snapshot.
EndRead(p) ==
  /\ At(p, "reading") /\ view[p] = lines
  /\ Goto(p, "numbered")
  /\ UNCHANGED <<file, owner, made, view, acked>>

\* The file changed under the read: JournalConcurrencyError.
ReadFails(p) ==
  /\ At(p, "reading") /\ view[p] # lines
  /\ Goto(p, "idle")
  /\ UNCHANGED <<file, owner, made, view, acked>>

-----------------------------------------------------------------------------
(* append().                                                               *)

\* acquireExclusiveLock: a dead owner is cleared, a live one refuses.
Lock(p) ==
  /\ At(p, "numbered")
  /\ IF owner \in {None, Ghost} THEN owner' = p /\ Goto(p, "locked")
                                ELSE UNCHANGED owner /\ Goto(p, "idle")
  /\ UNCHANGED <<file, made, view, acked>>

\* readLog and the comparison with expectedSeq, under the lock.
Check(p) ==
  /\ At(p, "locked")
  /\ Goto(p, IF Len(lines) # Len(view[p]) THEN "failed"
             ELSE IF fragment = None THEN "write" ELSE "cut")
  /\ UNCHANGED <<file, owner, made, view, acked>>

\* Seeded fault: the cut takes the last newline along with the tail.
CutNewline(p) ==
  /\ At(p, "cut") /\ Goto(p, "write")
  /\ fragment' = IF lines = <<>> THEN None ELSE lines[Len(lines)]
  /\ lines' = IF lines = <<>> THEN lines ELSE SubSeq(lines, 1, Len(lines) - 1)
  /\ UNCHANGED <<synced, owner, made, view, acked>>

\* Seeded fault: a torn tail is left where it is.
CutNothing(p) ==
  /\ At(p, "cut") /\ Goto(p, "write")
  /\ UNCHANGED <<file, owner, made, view, acked>>

\* ftruncateSync(fd, committed).
Cut(p) ==
  /\ At(p, "cut") /\ fragment' = None /\ Goto(p, "write")
  /\ UNCHANGED <<lines, synced, owner, made, view, acked>>

\* writeAll puts some bytes in the file.
WriteSome(p) ==
  /\ At(p, "write")
  /\ fragment' = IF fragment = None THEN Event(p) ELSE Garbage
  /\ Goto(p, "writing")
  /\ UNCHANGED <<lines, synced, owner, made, view, acked>>

\* writeAll puts the rest, the newline last.
WriteRest(p) ==
  /\ At(p, "writing")
  /\ lines' = Append(lines, fragment) /\ fragment' = None
  /\ Goto(p, "sync")
  /\ UNCHANGED <<synced, owner, made, view, acked>>

\* A write makes no progress, or the fsync fails: append throws.
WriteFails(p) ==
  /\ pc[p] \in {"write", "writing", "sync"}
  /\ Goto(p, "failed")
  /\ UNCHANGED <<file, owner, made, view, acked>>

\* Seeded fault: append returns without fsync.
SyncNothing(p) ==
  /\ At(p, "sync") /\ Goto(p, "done")
  /\ UNCHANGED <<file, owner, made, view, acked>>

\* fsyncSync(fd).
Sync(p) ==
  /\ At(p, "sync") /\ synced' = Len(lines) /\ Goto(p, "done")
  /\ UNCHANGED <<lines, fragment, owner, made, view, acked>>

\* The finally block gives the lock back; append returns or throws.
Unlock(p) ==
  /\ pc[p] \in {"done", "failed"}
  /\ owner' = None
  /\ acked' = IF pc[p] = "done" THEN acked \cup {Event(p)} ELSE acked
  /\ Goto(p, "idle")
  /\ UNCHANGED <<file, made, view>>

-----------------------------------------------------------------------------
(* Failures.                                                               *)

\* The process dies; what it wrote stays, its lock too.
Crash(p) ==
  /\ pc[p] # "idle" /\ Goto(p, "idle")
  /\ owner' = IF owner = p THEN Ghost ELSE owner
  /\ UNCHANGED <<file, made, view, acked>>

\* The machine dies: of what was not synced only a beginning is left.
PowerLoss ==
  /\ \E k \in synced..Len(lines) :
       /\ lines' = SubSeq(lines, 1, k)
       /\ fragment' \in {None, IF k < Len(lines) THEN lines[k + 1] ELSE fragment}
  /\ pc' = [p \in Procs |-> "idle"]
  /\ owner' \in {None, IF owner = None THEN None ELSE Ghost}
  /\ UNCHANGED <<synced, made, view, acked>>

Next ==
  \/ \E p \in Procs :
       \/ StartRead(p) \/ EndRead(p) \/ ReadFails(p)
       \/ Lock(p) \/ Check(p) \/ Cut(p) \/ WriteSome(p) \/ WriteRest(p) \/ WriteFails(p)
       \/ Sync(p) \/ Unlock(p) \/ Crash(p)
  \/ PowerLoss

Spec == Init /\ [][Next]_vars

-----------------------------------------------------------------------------
(* Properties.                                                             *)

TypeOK ==
  /\ lines \in Seq(Events \cup {Garbage})
  /\ fragment \in Events \cup {None, Garbage}
  /\ synced \in 0..Len(lines)
  /\ owner \in Procs \cup {None, Ghost}
  /\ pc \in [Procs -> PCs] /\ made \in [Procs -> 0..MaxRecords]
  /\ view \in [Procs -> Seq(Events \cup {Garbage})]
  /\ acked \subseteq Events

\* Every committed line parses and carries its own position: the stream stays
\* readable whatever tore, raced or was lost.  (readLog refuses it for ever
\* at the first line that does not.)
Readable == \A i \in 1..Len(lines) : lines[i] # Garbage /\ lines[i].seq = i

\* An event whose append returned is in the stream for good.
AckedKept == \A e \in acked : e.seq <= Len(lines) /\ lines[e.seq] = e

\* A private journal is well formed, and what was acknowledged stays
\* (journal-file.ts 63-106).
Durable == TypeOK /\ Readable /\ AckedKept

\* The stream is an append-only log with a durable prefix.
Log == INSTANCE AppendLog WITH Events <- Events, log <- lines, durable <- synced
ImplementsAppendLog == Log!Spec
=============================================================================
