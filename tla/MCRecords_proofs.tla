--------------------------- MODULE MCRecords_proofs ---------------------------
(***************************************************************************)
(* What is left on record is what a next process may go by: the session log,  *)
(* the thread, the receipts of a crew, the continuation kept for a provider,    *)
(* the evidence and the catalog kept of one, the verdicts on a run - for any    *)
(* processes, agents, calls and bounds.                                      *)
(*                                                                         *)
(* No property of a part is inductive; each has an invariant of its own.       *)
(*   JournalInv   the lock makes the comparison, the cut and the write of a line *)
(*                one step, and fsync comes before the return, so that what is   *)
(*                acknowledged is in the part that no power failure cuts.        *)
(*   SessionInv   whoever is behind the lock owns it, a cache entry whose       *)
(*                identity is the file's is what the file holds, and what a      *)
(*                writer is about to write follows what is there.              *)
(*   MemoryInv    a writer has seen what it last knew of the thread.           *)
(*   AgentsInv    what a run entered is on record or under way, the delegate's  *)
(*                run is a call a member has entered, and a doubt is on record   *)
(*                or still to reach the run.                                   *)
(*   AdapterInv   the continuation kept for a key is the conversation up to      *)
(*                the adapter's last answer, also of what a failed turn would    *)
(*                restore.                                                     *)
(*   ContextInv   an agent has shown ids in the order of their capture, and,     *)
(*                while no collection begins during another, what is cached is   *)
(*                newer than the invalidation that was taken back.              *)
(*   McpInv       a catalog that is not stale is as new as what was heard, and   *)
(*                so is a listing during which nothing was heard.               *)
(*   VerifiedInv  an ended run keeps its ending, only completed runs are claimed,*)
(*                and a bundle holds the decision of its own attempts.           *)
(***************************************************************************)
EXTENDS MCRecords, FiniteSetTheorems, SequenceTheorems, TLAPS

(* SecureJournal.                                                            *)

\* The event of the attempt is not committed yet.
Uncommitted == {"reading", "numbered", "locked", "cut", "write", "writing"}
JournalHolding   == {"locked", "cut", "write", "writing", "sync", "done", "failed"}

(* Only the owner of the lock is past it; who made an attempt counted it.      *)
JournalOwned ==
  \A p \in Procs : /\ pc[p] \in JournalHolding => owner = p
                   /\ pc[p] # "idle" => made[p] \in 1..MaxRecords

(* A committed line is the event of one record() call, and of no other line.   *)
WrittenOnce ==
  /\ \A i \in 1..Len(lines) : lines[i] \in Events /\ lines[i].nr <= made[lines[i].by]
  /\ \A i, j \in 1..Len(lines) :
       lines[i].by = lines[j].by /\ lines[i].nr = lines[j].nr => i = j
  /\ \A i \in 1..Len(lines), p \in Procs :
       pc[p] \in Uncommitted => lines[i].by # p \/ lines[i].nr # made[p]

(* Who writes found the stream as it read it, and writes behind it.            *)
JournalWrites ==
  \A p \in Procs :
    /\ pc[p] \in {"cut", "write", "writing"} => Len(view[p]) = Len(lines)
    /\ pc[p] = "write" => fragment = None
    /\ pc[p] = "writing" => fragment = Event(p)
    /\ pc[p] \in {"sync", "done"} =>
         Len(view[p]) < Len(lines) /\ lines[Len(view[p]) + 1] = Event(p)
    /\ pc[p] = "done" => Len(view[p]) < synced

(* What is acknowledged is durable.                                          *)
JournalKept == \A e \in acked : e.seq <= synced /\ lines[e.seq] = e

JournalInv == TypeOK /\ Readable /\ JournalOwned /\ WrittenOnce /\ JournalWrites /\ JournalKept

-----------------------------------------------------------------------------
(* What an event is made of.                                                 *)
LEMMA EventFields ==
  \A e \in Events : e.by \in Procs /\ e.nr \in 1..MaxRecords /\ e.nr \in Nat /\ e.seq \in Nat \ {0}
<1>1. MaxRecords \in Nat /\ Cardinality(Procs) * MaxRecords \in Nat
  BY JournalAssumption, FS_CardinalityType
<1> QED
  BY <1>1 DEF Events

(* While a record() call is under way there is room for its event: each line   *)
(* is that of another call.                                                  *)
LEMMA RoomLeft ==
  ASSUME JournalInv, NEW p \in Procs, pc[p] \in Uncommitted
  PROVE  Len(lines) + 1 <= Cardinality(Procs) * MaxRecords
<1> DEFINE n == Len(lines) + 1
           calls == Procs \X (1..MaxRecords)
           f == [i \in 1..n |-> IF i = n THEN <<p, made[p]>> ELSE <<lines[i].by, lines[i].nr>>]
<1>1. Len(lines) \in Nat /\ n \in Nat /\ \A i \in 1..n : i = n \/ i \in 1..Len(lines)
  BY LenProperties DEF JournalInv, TypeOK
<1>2. IsFiniteSet(calls) /\ Cardinality(calls) = Cardinality(Procs) * MaxRecords
  <2>1. MaxRecords \in Nat /\ 1 \in Int /\ IsFiniteSet(Procs)
    BY JournalAssumption
  <2>2. IsFiniteSet(1..MaxRecords) /\ Cardinality(1..MaxRecords) = MaxRecords
    BY <2>1, FS_Interval
  <2>3. QED
    BY Zenon, <2>1, <2>2, FS_Product
<1>3. IsFiniteSet(1..n) /\ Cardinality(1..n) = n
  <2> HIDE DEF n
  <2> QED
    BY <1>1, FS_Interval
<1>4. f \in [1..n -> calls]
  <2>1. \A i \in 1..Len(lines) : lines[i].by \in Procs /\ lines[i].nr \in 1..MaxRecords
    BY DEF JournalInv, WrittenOnce, Events
  <2>2. made[p] \in 1..MaxRecords
    BY DEF JournalInv, JournalOwned, Uncommitted
  <2> HIDE DEF n
  <2> QED
    BY <1>1, <2>1, <2>2
<1>5. ASSUME NEW x \in 1..n, NEW y \in 1..n, x # y, f[x] = f[y]
      PROVE  FALSE
  <2>1. CASE x # n /\ y # n
    BY <1>1, <1>5, <2>1 DEF JournalInv, WrittenOnce
  <2>2. CASE x = n \/ y = n
    BY <1>1, <1>5, <2>2 DEF JournalInv, WrittenOnce
  <2> QED
    BY <2>1, <2>2
<1>6. SUFFICES ASSUME Cardinality(calls) < Cardinality(1..n) PROVE FALSE
  <2>1. Cardinality(calls) \in Nat
    BY <1>2, FS_CardinalityType
  <2> HIDE DEF calls, n
  <2>2. n <= Cardinality(calls)
    BY <1>1, <1>3, <1>6, <2>1
  <2> QED
    BY <2>2, <1>2 DEF n
<1>7. PICK x \in 1..n, y \in 1..n : x # y /\ f[x] = f[y]
  <2> HIDE DEF f, calls, n
  <2> QED
    BY Zenon, <1>2, <1>3, <1>4, <1>6, FS_PigeonHole
<1> QED
  BY <1>5, <1>7

(* The event of such a call is one.                                          *)
LEMMA EventTyped ==
  ASSUME JournalInv, NEW p \in Procs, pc[p] \in Uncommitted \cup {"sync", "done"},
         pc[p] \in {"write", "writing", "sync", "done"}
  PROVE  Event(p) \in Events /\ Event(p).by = p /\ Event(p).nr = made[p]
         /\ Event(p).seq = Len(view[p]) + 1
<1>1. made[p] \in 1..MaxRecords
  BY DEF JournalInv, JournalOwned
<1>2. Len(view[p]) \in Nat /\ Len(lines) \in Nat
  BY LenProperties DEF JournalInv, TypeOK
<1>3. CASE pc[p] \in {"write", "writing"}
  <2>1. Len(view[p]) + 1 <= Cardinality(Procs) * MaxRecords
    BY <1>3, RoomLeft DEF JournalInv, JournalWrites, Uncommitted
  <2>2. Cardinality(Procs) * MaxRecords \in Nat
    BY JournalAssumption, FS_CardinalityType
  <2>3. Len(view[p]) + 1 \in 1..(Cardinality(Procs) * MaxRecords)
    BY <1>2, <2>1, <2>2
  <2> QED
    BY <1>1, <2>3 DEF Event, Events
<1>4. CASE pc[p] \in {"sync", "done"}
  BY <1>2, <1>4 DEF JournalInv, JournalWrites, WrittenOnce, Event
<1> QED
  BY <1>3, <1>4

-----------------------------------------------------------------------------
(* The file is left as it is, or synced, or its torn tail changes.            *)

\* The number of an attempt is raised before its event exists: no line of the
\* stream bears it yet.
LEMMA StartReadStep ==
  ASSUME JournalInv, NEW p \in Procs, StartRead(p)
  PROVE  JournalInv'
<1> USE DEF JournalInv, StartRead, At, Goto, file
<1>0. Len(lines) \in Nat /\ \A q \in Procs : Len(view[q]) \in Nat
  BY LenProperties DEF TypeOK
<1>1. TypeOK' /\ Readable'
  BY <1>0, EventTyped, JournalAssumption DEF TypeOK, Readable, PCs, Uncommitted
<1>2. JournalOwned'
  BY JournalAssumption DEF JournalOwned, JournalHolding, TypeOK
<1>3. WrittenOnce'
  <2>1. \A i \in 1..Len(lines) : lines[i].by \in Procs /\ lines[i].nr \in Nat
    BY EventFields DEF WrittenOnce
  <2>2. /\ \A q \in Procs : q # p => made'[q] = made[q] /\ pc'[q] = pc[q]
        /\ made[p] \in Nat /\ made'[p] = made[p] + 1
    BY DEF TypeOK
  <2>3. lines' = lines /\ pc[p] = "idle"
    OBVIOUS
  <2>4. \A i \in 1..Len(lines) : /\ lines[i] \in Events /\ lines[i].nr <= made[lines[i].by]
                                 /\ made[p] \in Nat /\ made'[p] = made[p] + 1
    BY <2>2 DEF WrittenOnce
  <2>5. \A i, j \in 1..Len(lines) :
          lines[i].by = lines[j].by /\ lines[i].nr = lines[j].nr => i = j
    BY DEF WrittenOnce
  <2>6. \A i \in 1..Len(lines), q \in Procs :
          pc[q] \in Uncommitted => lines[i].by # q \/ lines[i].nr # made[q]
    BY DEF WrittenOnce
  <2> HIDE DEF JournalInv, StartRead, At, Goto, file
  <2>7. \A i \in 1..Len(lines) : lines[i].nr <= made'[lines[i].by]
    <3> TAKE i \in 1..Len(lines)
    <3>1. CASE lines[i].by = p
      BY <2>1, <2>4, <3>1
    <3>2. CASE lines[i].by # p
      BY <2>1, <2>2, <2>4, <3>2
    <3> QED
      BY <3>1, <3>2
  <2>8. ASSUME NEW i \in 1..Len(lines), NEW q \in Procs, pc'[q] \in Uncommitted, lines[i].by = q
        PROVE  lines[i].nr # made'[q]
    <3>1. CASE q = p
      BY <2>1, <2>4, <2>8, <3>1
    <3>2. CASE q # p
      BY <2>2, <2>6, <2>8, <3>2
    <3> QED
      BY <3>1, <3>2
  <2> QED
    BY Zenon, <2>3, <2>4, <2>5, <2>7, <2>8 DEF WrittenOnce
<1>4. JournalWrites'
  BY Zenon, <1>0 DEF JournalWrites, TypeOK, JournalOwned, JournalHolding, Event
<1>5. JournalKept'
  BY <1>0, EventTyped DEF JournalKept, TypeOK, JournalWrites
<1> QED
  BY <1>1, <1>2, <1>3, <1>4, <1>5

\* A view that is taken as a snapshot changes nothing else.
LEMMA EndReadStep ==
  ASSUME JournalInv, NEW p \in Procs, EndRead(p)
  PROVE  JournalInv'
<1> USE DEF JournalInv, EndRead, At, Goto, file
<1>0. Len(lines) \in Nat /\ \A q \in Procs : Len(view[q]) \in Nat
  BY LenProperties DEF TypeOK
<1>1. TypeOK' /\ Readable'
  BY <1>0, EventTyped, JournalAssumption DEF TypeOK, Readable, PCs, Uncommitted
<1>2. JournalOwned'
  BY JournalAssumption DEF JournalOwned, JournalHolding, TypeOK
<1>3. WrittenOnce'
  BY DEF WrittenOnce, Uncommitted, TypeOK, Events
<1>4. JournalWrites'
  BY Zenon, <1>0 DEF JournalWrites, TypeOK, JournalOwned, JournalHolding, Event
<1>5. JournalKept'
  BY <1>0, EventTyped DEF JournalKept, TypeOK, JournalWrites
<1> QED
  BY <1>1, <1>2, <1>3, <1>4, <1>5

\* An attempt that gives up leaves its number unused.
LEMMA ReadFailsStep ==
  ASSUME JournalInv, NEW p \in Procs, ReadFails(p)
  PROVE  JournalInv'
<1> USE DEF JournalInv, ReadFails, At, Goto, file
<1>0. Len(lines) \in Nat /\ \A q \in Procs : Len(view[q]) \in Nat
  BY LenProperties DEF TypeOK
<1>1. TypeOK' /\ Readable'
  BY Zenon, <1>0, EventTyped, JournalAssumption DEF TypeOK, Readable, PCs, Uncommitted
<1>2. JournalOwned'
  BY JournalAssumption DEF JournalOwned, JournalHolding, TypeOK
<1>3. WrittenOnce'
  BY DEF WrittenOnce, Uncommitted, TypeOK, Events
<1>4. JournalWrites'
  BY <1>0 DEF JournalWrites, TypeOK, JournalOwned, JournalHolding, Event
<1>5. JournalKept'
  BY <1>0, EventTyped DEF JournalKept, TypeOK, JournalWrites
<1> QED
  BY <1>1, <1>2, <1>3, <1>4, <1>5

\* The lock is taken from nobody, or from a dead process: no two processes
\* are behind it.
LEMMA JournalLockStep ==
  ASSUME JournalInv, NEW p \in Procs, Lock(p)
  PROVE  JournalInv'
<1> USE DEF JournalInv, Lock, At, Goto, file
<1>0. Len(lines) \in Nat /\ \A q \in Procs : Len(view[q]) \in Nat
  BY LenProperties DEF TypeOK
<1>1. TypeOK' /\ Readable'
  <2>1. owner' \in Procs \cup {None, Ghost} /\ pc' \in [Procs -> PCs]
    BY Zenon DEF TypeOK, PCs
  <2>2. Readable'
    BY DEF Readable
  <2> QED
    BY <2>1, <2>2 DEF TypeOK
<1>2. JournalOwned'
  BY JournalAssumption DEF JournalOwned, JournalHolding, TypeOK
<1>3. WrittenOnce'
  BY DEF WrittenOnce, Uncommitted, TypeOK, Events
<1>4. JournalWrites'
  BY <1>0 DEF JournalWrites, TypeOK, JournalOwned, JournalHolding, Event
<1>5. JournalKept'
  BY <1>0, EventTyped DEF JournalKept, TypeOK, JournalWrites
<1> QED
  BY <1>1, <1>2, <1>3, <1>4, <1>5

\* Who passes the comparison has read as many lines as there are, and owns
\* the lock.
LEMMA JournalCheckStep ==
  ASSUME JournalInv, NEW p \in Procs, Check(p)
  PROVE  JournalInv'
<1> USE DEF JournalInv, Check, At, Goto, file
<1>0. Len(lines) \in Nat /\ \A q \in Procs : Len(view[q]) \in Nat
  BY LenProperties DEF TypeOK
<1>1. TypeOK' /\ Readable'
  BY <1>0, EventTyped, JournalAssumption DEF TypeOK, Readable, PCs, Uncommitted
<1>2. JournalOwned'
  BY JournalAssumption DEF JournalOwned, JournalHolding, TypeOK
<1>3. WrittenOnce'
  BY DEF WrittenOnce, Uncommitted, TypeOK, Events
<1>4. JournalWrites'
  BY <1>0 DEF JournalWrites, TypeOK, JournalOwned, JournalHolding, Event
<1>5. JournalKept'
  BY <1>0, EventTyped DEF JournalKept, TypeOK, JournalWrites
<1> QED
  BY <1>1, <1>2, <1>3, <1>4, <1>5

\* The cut takes what no newline has committed, and no line.
LEMMA JournalCutStep ==
  ASSUME JournalInv, NEW p \in Procs, Cut(p)
  PROVE  JournalInv'
<1> USE DEF JournalInv, Cut, At, Goto, file
<1>0. Len(lines) \in Nat /\ \A q \in Procs : Len(view[q]) \in Nat
  BY LenProperties DEF TypeOK
<1>1. TypeOK' /\ Readable'
  BY <1>0, EventTyped, JournalAssumption DEF TypeOK, Readable, PCs, Uncommitted
<1>2. JournalOwned'
  BY JournalAssumption DEF JournalOwned, JournalHolding, TypeOK
<1>3. WrittenOnce'
  BY DEF WrittenOnce, Uncommitted, TypeOK, Events
<1>4. JournalWrites'
  BY Zenon, <1>0 DEF JournalWrites, TypeOK, JournalOwned, JournalHolding, Event
<1>5. JournalKept'
  BY <1>0, EventTyped DEF JournalKept, TypeOK, JournalWrites
<1> QED
  BY <1>1, <1>2, <1>3, <1>4, <1>5

\* What is written first is the event itself, as the tail was cut before.
LEMMA WriteSomeStep ==
  ASSUME JournalInv, NEW p \in Procs, WriteSome(p)
  PROVE  JournalInv'
<1> USE DEF JournalInv, WriteSome, At, Goto, file
<1>0. Len(lines) \in Nat /\ \A q \in Procs : Len(view[q]) \in Nat
  BY LenProperties DEF TypeOK
<1>1. TypeOK' /\ Readable'
  BY <1>0, EventTyped, JournalAssumption DEF TypeOK, Readable, PCs, Uncommitted
<1>2. JournalOwned'
  BY JournalAssumption DEF JournalOwned, JournalHolding, TypeOK
<1>3. WrittenOnce'
  BY DEF WrittenOnce, Uncommitted, TypeOK, Events
<1>4. JournalWrites'
  BY <1>0 DEF JournalWrites, TypeOK, JournalOwned, JournalHolding, Event
<1>5. JournalKept'
  BY <1>0, EventTyped DEF JournalKept, TypeOK, JournalWrites
<1> QED
  BY <1>1, <1>2, <1>3, <1>4, <1>5

\* A write that fails leaves a torn tail, and the lines as they are.
LEMMA WriteFailsStep ==
  ASSUME JournalInv, NEW p \in Procs, WriteFails(p)
  PROVE  JournalInv'
<1> USE DEF JournalInv, WriteFails, At, Goto, file
<1>0. Len(lines) \in Nat /\ \A q \in Procs : Len(view[q]) \in Nat
  BY LenProperties DEF TypeOK
<1>1. TypeOK' /\ Readable'
  BY Zenon, <1>0, EventTyped, JournalAssumption DEF TypeOK, Readable, PCs, Uncommitted
<1>2. JournalOwned'
  BY JournalAssumption DEF JournalOwned, JournalHolding, TypeOK
<1>3. WrittenOnce'
  BY DEF WrittenOnce, Uncommitted, TypeOK, Events
<1>4. JournalWrites'
  BY <1>0 DEF JournalWrites, TypeOK, JournalOwned, JournalHolding, Event
<1>5. JournalKept'
  BY <1>0, EventTyped DEF JournalKept, TypeOK, JournalWrites
<1> QED
  BY <1>1, <1>2, <1>3, <1>4, <1>5

\* What fsync returns for is durable, the line of the event included.
LEMMA SyncStep ==
  ASSUME JournalInv, NEW p \in Procs, Sync(p)
  PROVE  JournalInv'
<1> USE DEF JournalInv, Sync, At, Goto, file
<1>0. Len(lines) \in Nat /\ \A q \in Procs : Len(view[q]) \in Nat
  BY LenProperties DEF TypeOK
<1>1. TypeOK' /\ Readable'
  BY <1>0, EventTyped, JournalAssumption DEF TypeOK, Readable, PCs, Uncommitted
<1>2. JournalOwned'
  BY JournalAssumption DEF JournalOwned, JournalHolding, TypeOK
<1>3. WrittenOnce'
  BY DEF WrittenOnce, Uncommitted, TypeOK, Events
<1>4. JournalWrites'
  BY <1>0 DEF JournalWrites, TypeOK, JournalOwned, JournalHolding, Event
<1>5. JournalKept'
  <2>1. \A e \in acked : e.seq \in Nat /\ e.seq <= synced /\ lines[e.seq] = e
    BY EventFields DEF JournalKept, TypeOK
  <2> QED
    BY <1>0, <2>1 DEF JournalKept, TypeOK
<1> QED
  BY <1>1, <1>2, <1>3, <1>4, <1>5

\* What append acknowledges, fsync has made durable.
LEMMA UnlockStep ==
  ASSUME JournalInv, NEW p \in Procs, Unlock(p)
  PROVE  JournalInv'
<1> USE DEF JournalInv, Unlock, At, Goto, file
<1>0. Len(lines) \in Nat /\ \A q \in Procs : Len(view[q]) \in Nat
  BY LenProperties DEF TypeOK
<1>1. TypeOK' /\ Readable'
  BY <1>0, EventTyped, JournalAssumption DEF TypeOK, Readable, PCs, Uncommitted
<1>2. JournalOwned'
  BY JournalAssumption DEF JournalOwned, JournalHolding, TypeOK
<1>3. WrittenOnce'
  BY DEF WrittenOnce, Uncommitted, TypeOK, Events
<1>4. JournalWrites'
  BY <1>0 DEF JournalWrites, TypeOK, JournalOwned, JournalHolding, Event
<1>5. JournalKept'
  BY <1>0, EventTyped DEF JournalKept, TypeOK, JournalWrites
<1> QED
  BY <1>1, <1>2, <1>3, <1>4, <1>5

\* The lock of a process that dies is a ghost's; nobody else gets behind it.
LEMMA JournalCrashStep ==
  ASSUME JournalInv, NEW p \in Procs, Crash(p)
  PROVE  JournalInv'
<1> USE DEF JournalInv, Crash, At, Goto, file
<1>0. Len(lines) \in Nat /\ \A q \in Procs : Len(view[q]) \in Nat
  BY LenProperties DEF TypeOK
<1>1. TypeOK' /\ Readable'
  BY Zenon, <1>0, EventTyped, JournalAssumption DEF TypeOK, Readable, PCs, Uncommitted
<1>2. JournalOwned'
  BY JournalAssumption DEF JournalOwned, JournalHolding, TypeOK
<1>3. WrittenOnce'
  BY DEF WrittenOnce, Uncommitted, TypeOK, Events
<1>4. JournalWrites'
  BY <1>0 DEF JournalWrites, TypeOK, JournalOwned, JournalHolding, Event
<1>5. JournalKept'
  BY <1>0, EventTyped DEF JournalKept, TypeOK, JournalWrites
<1> QED
  BY <1>1, <1>2, <1>3, <1>4, <1>5

(* The newline of the event is written: the event is the last line.            *)
LEMMA WriteRestStep ==
  ASSUME JournalInv, NEW p \in Procs, WriteRest(p)
  PROVE  JournalInv'
<1> DEFINE n == Len(lines)
<1>1. /\ pc[p] = "writing" /\ lines' = Append(lines, Event(p)) /\ fragment' = None
      /\ pc' = [pc EXCEPT ![p] = "sync"]
      /\ UNCHANGED <<synced, owner, made, view, acked>>
  BY DEF WriteRest, At, Goto, JournalInv, JournalWrites
<1>2. Event(p) \in Events /\ Event(p).by = p /\ Event(p).nr = made[p] /\ Event(p).seq = Len(view[p]) + 1
  BY <1>1, EventTyped DEF Uncommitted
<1>3. Len(view[p]) = n /\ n \in Nat
  BY <1>1, LenProperties DEF JournalInv, JournalWrites, TypeOK
<1>4. /\ lines' \in Seq(Events \cup {Garbage}) /\ Len(lines') = n + 1
      /\ \A i \in 1..n : lines'[i] = lines[i]
      /\ lines'[n + 1] = Event(p)
  BY <1>1, <1>2, AppendProperties DEF JournalInv, TypeOK
<1>5. \A i \in 1..Len(lines') : i \in 1..n \/ i = n + 1
  BY <1>3, <1>4
<1> HIDE DEF n
<1>6. TypeOK'
  <2>1. synced \in 0..n
    BY DEF JournalInv, TypeOK, n
  <2> QED
    BY <1>1, <1>3, <1>4, <2>1 DEF JournalInv, TypeOK, PCs
<1>7. Readable'
  BY <1>2, <1>3, <1>4, <1>5, JournalAssumption DEF JournalInv, Readable, n
<1>8. JournalOwned'
  BY <1>1 DEF JournalInv, JournalOwned, JournalHolding, TypeOK
<1>9. WrittenOnce'
  <2>1. \A i \in 1..n : /\ lines[i] \in Events /\ lines[i].nr <= made[lines[i].by]
                        /\ lines[i].by # p \/ lines[i].nr # made[p]
                        /\ \A q \in Procs : pc[q] \in Uncommitted =>
                             lines[i].by # q \/ lines[i].nr # made[q]
    BY <1>1 DEF JournalInv, WrittenOnce, Uncommitted, n
  <2>2. \A i, j \in 1..n : lines[i].by = lines[j].by /\ lines[i].nr = lines[j].nr => i = j
    BY DEF JournalInv, WrittenOnce, n
  <2>3. \A q \in Procs : pc'[q] \in Uncommitted => q # p /\ pc[q] \in Uncommitted
    BY <1>1 DEF Uncommitted, JournalInv, TypeOK
  <2>4. made[p] \in Nat
    BY DEF JournalInv, TypeOK
  <2>5. \A i \in 1..Len(lines') : lines'[i] \in Events /\ lines'[i].nr <= made[lines'[i].by]
    BY <1>2, <1>4, <1>5, <2>1, <2>4
  <2>6. \A i, j \in 1..Len(lines') :
          lines'[i].by = lines'[j].by /\ lines'[i].nr = lines'[j].nr => i = j
    BY <1>2, <1>4, <1>5, <2>1, <2>2
  <2>7. \A i \in 1..Len(lines'), q \in Procs :
          pc'[q] \in Uncommitted => lines'[i].by # q \/ lines'[i].nr # made[q]
    BY <1>2, <1>4, <1>5, <2>1, <2>3
  <2> QED
    BY <1>1, <2>5, <2>6, <2>7 DEF WrittenOnce
<1>10. JournalWrites'
  <2>1. \A q \in Procs : q # p => pc'[q] = pc[q] /\ pc[q] \notin JournalHolding
    BY <1>1 DEF JournalInv, JournalOwned, JournalHolding, TypeOK
  <2>2. pc'[p] = "sync" /\ Event(p)' = Event(p)
    BY <1>1 DEF Event, JournalInv, TypeOK
  <2> QED
    BY <1>1, <1>3, <1>4, <2>1, <2>2 DEF JournalWrites, JournalHolding
<1>11. JournalKept'
  <2>1. \A e \in acked : e.seq \in Nat \ {0} /\ e.seq <= synced /\ lines[e.seq] = e
    BY EventFields DEF JournalInv, JournalKept, TypeOK
  <2>2. synced \in Nat /\ synced <= n
    BY <1>3 DEF JournalInv, TypeOK, n
  <2> QED
    BY <1>1, <1>3, <1>4, <2>1, <2>2 DEF JournalKept
<1> QED
  BY <1>6, <1>7, <1>8, <1>9, <1>10, <1>11 DEF JournalInv

(* A power failure cuts lines that no append has returned for.               *)
LEMMA PowerLossStep ==
  ASSUME JournalInv, PowerLoss
  PROVE  JournalInv'
<1>1. PICK k \in synced..Len(lines) :
        /\ lines' = SubSeq(lines, 1, k)
        /\ fragment' \in {None, IF k < Len(lines) THEN lines[k + 1] ELSE fragment}
  BY DEF PowerLoss
<1>2. /\ pc' = [p \in Procs |-> "idle"]
      /\ owner' \in {None, IF owner = None THEN None ELSE Ghost}
      /\ UNCHANGED <<synced, made, view, acked>>
  BY DEF PowerLoss
<1>3. Len(lines) \in Nat /\ synced \in Nat /\ k \in Nat /\ synced <= k /\ k <= Len(lines)
  BY LenProperties DEF JournalInv, TypeOK
<1>4. /\ lines' \in Seq(Events \cup {Garbage}) /\ Len(lines') = k
      /\ \A i \in 1..k : lines'[i] = lines[i] /\ i \in 1..Len(lines)
  <2>1. \A i \in 1..k : lines[i] \in Events \cup {Garbage}
    BY <1>3, ElementOfSeq DEF JournalInv, TypeOK
  <2>2. 1 \in Int /\ k \in Int
    BY <1>3
  <2>3. /\ SubSeq(lines, 1, k) \in Seq(Events \cup {Garbage})
        /\ Len(SubSeq(lines, 1, k)) = IF 1 <= k THEN k - 1 + 1 ELSE 0
        /\ \A i \in 1..(k - 1 + 1) : SubSeq(lines, 1, k)[i] = lines[1 + i - 1]
    BY <2>1, <2>2, SubSeqProperties
  <2> QED
    BY <1>1, <1>3, <2>3
<1>5. TypeOK' /\ Readable'
  <2>1. fragment' \in Events \cup {None, Garbage}
    BY <1>1, <1>3 DEF JournalInv, TypeOK, WrittenOnce
  <2>2. synced' \in 0..Len(lines') /\ pc' \in [Procs -> PCs] /\ owner' \in Procs \cup {None, Ghost}
    BY <1>2, <1>3, <1>4 DEF PCs
  <2>3. lines' \in Seq(Events \cup {Garbage})
    BY <1>4
  <2>4. UNCHANGED <<made, view, acked>>
    BY <1>2
  <2>5. TypeOK'
    BY Zenon, <2>1, <2>2, <2>3, <2>4 DEF JournalInv, TypeOK
  <2>6. Readable'
    BY <1>4 DEF JournalInv, Readable
  <2> QED
    BY <2>5, <2>6
<1>6. JournalOwned' /\ JournalWrites'
  BY <1>2 DEF JournalOwned, JournalWrites, JournalHolding
<1>7. WrittenOnce'
  BY <1>2, <1>4 DEF JournalInv, WrittenOnce, Uncommitted
<1>8. JournalKept'
  <2>1. \A e \in acked : e.seq \in Nat \ {0} /\ e.seq <= synced /\ lines[e.seq] = e
    BY EventFields DEF JournalInv, JournalKept, TypeOK
  <2> QED
    BY <1>2, <1>3, <1>4, <2>1 DEF JournalKept
<1> QED
  BY <1>5, <1>6, <1>7, <1>8 DEF JournalInv

-----------------------------------------------------------------------------
(* The invariant holds from the start, and no step ends it.                  *)
LEMMA InitJournalInv == Init => JournalInv
<1> SUFFICES ASSUME Init PROVE JournalInv
  OBVIOUS
<1>1. <<>> \in Seq(Events \cup {Garbage}) /\ Len(<<>>) = 0
  BY EmptySeq
<1>2. TypeOK /\ Readable
  BY <1>1, JournalAssumption DEF Init, TypeOK, Readable, PCs
<1>3. JournalOwned /\ WrittenOnce /\ JournalWrites /\ JournalKept
  BY <1>1 DEF Init, JournalOwned, WrittenOnce, JournalWrites, JournalKept, JournalHolding, Uncommitted
<1> QED
  BY <1>2, <1>3 DEF JournalInv

\* Every step keeps the invariant.
LEMMA NextJournalInv == JournalInv /\ [Next]_vars => JournalInv'
<1> SUFFICES ASSUME JournalInv, [Next]_vars PROVE JournalInv'
  OBVIOUS
<1>1. CASE Next
  BY <1>1, StartReadStep, EndReadStep, ReadFailsStep, JournalLockStep, JournalCheckStep, JournalCutStep, WriteSomeStep,
     WriteRestStep, WriteFailsStep, SyncStep, UnlockStep, JournalCrashStep, PowerLossStep DEF Next
<1>2. CASE UNCHANGED vars
  BY <1>2 DEF vars, file, JournalInv, TypeOK, Readable, JournalOwned, WrittenOnce, JournalWrites, JournalKept, Event
<1> QED
  BY <1>1, <1>2

(* The strengthened invariant, in every reachable state.                     *)
THEOREM JournalInvariance == Spec => []JournalInv
  BY InitJournalInv, NextJournalInv, PTL DEF Spec

(* Whoever races, dies or loses power: every committed line parses and         *)
(* carries its own position, and an event whose append returned is in the       *)
(* stream for good (journal-file.ts 63-106).                                 *)
THEOREM StreamIsDurable == Spec => []Durable
<1>1. JournalInv => Durable
  <2> SUFFICES ASSUME JournalInv PROVE AckedKept
    BY DEF JournalInv, Durable
  <2>1. \A e \in acked : e.seq \in Nat /\ e.seq <= synced /\ lines[e.seq] = e
    BY EventFields DEF JournalInv, JournalKept, TypeOK
  <2>2. synced \in Nat /\ Len(lines) \in Nat /\ synced <= Len(lines)
    BY LenProperties DEF JournalInv, TypeOK
  <2> QED
    BY <2>1, <2>2 DEF AckedKept
<1> QED
  BY <1>1, JournalInvariance, PTL

(* What a step does to the log and its durable prefix.                       *)
LEMMA StepMaps == JournalInv /\ [Next]_vars => [Log!Next]_<<lines, synced>>
<1> SUFFICES ASSUME JournalInv, Next PROVE Log!Next \/ UNCHANGED <<lines, synced>>
  BY DEF vars, file
<1>1. ASSUME NEW p \in Procs, WriteRest(p) PROVE Log!Extend
  <2>1. fragment \in Events
    BY <1>1, EventTyped DEF WriteRest, At, JournalInv, JournalWrites, Uncommitted
  <2> QED
    BY <1>1, <2>1 DEF WriteRest, Log!Extend
<1>2. ASSUME NEW p \in Procs, Sync(p) PROVE Log!Sync
  BY <1>2 DEF Sync, Log!Sync
<1>3. ASSUME PowerLoss PROVE Log!Lose
  BY <1>3 DEF PowerLoss, Log!Lose
<1> QED
  BY <1>1, <1>2, <1>3 DEF Next, Log!Next, file, StartRead, EndRead, ReadFails, Lock, Check, Cut,
     WriteSome, WriteFails, Unlock, Crash

(* The stream is an append-only log whose durable prefix survives anything     *)
(* (append and readLog, journal-file.ts 63-106).                             *)
THEOREM StreamIsAppendLog == Spec => ImplementsAppendLog
<1>1. Init => Log!Init
  BY DEF Init, Log!Init
<1> QED
  BY <1>1, StepMaps, JournalInvariance, PTL DEF Spec, ImplementsAppendLog, Log!Spec

-----------------------------------------------------------------------------
(* SessionStore.                                                             *)

SEvents  == [seq : Nat, by : Kernels \union {None}, version : {1, 2}]
SLogs    == [lines : Seq(SEvents), torn : BOOLEAN, stamp : Nat \union {None}]
SHolding == {"check", "preserve", "cut", "write", "writing", "written", "failed"}
SWriting == {"preserve", "cut", "write", "writing"}

SessionTypes ==
  /\ sLines \in Seq(SEvents) /\ stamp \in Nat
  /\ sPc \in [Kernels -> SHolding \union {"closed", "open"}]
  /\ events \in [Kernels -> Seq(SEvents)]
  /\ known \in [Kernels -> SLogs]

(* Only the owner of the lock is behind it.                                  *)
SessionOwned == \A k \in Kernels : sPc[k] \in SHolding => sOwner = k

(* Of the file's lines, the first only may be of version 1.                   *)
Numbered == \A i \in 1..Len(sLines) : sLines[i].seq = i /\ (i > 1 => sLines[i].version = 2)

Copied == \A k \in Kernels : Session!IsPrefix(events[k], sLines)

(* A cache entry whose identity is the file's is what the file holds.         *)
Cached ==
  \A k \in Kernels : known[k].stamp # None =>
    /\ known[k].stamp <= stamp
    /\ known[k].stamp = stamp => known[k].lines = sLines

(* A kernel that writes had the whole file before it began.                   *)
SessionWrites ==
  \A k \in Kernels :
    /\ sPc[k] \in SWriting => known[k].lines = sLines /\ Len(events[k]) = Len(sLines)
    /\ sPc[k] = "written" =>
         sLines = Append(known[k].lines, Session!Event(k)) /\ Len(known[k].lines) = Len(events[k])

(* What was preserved is the line of version 1.                               *)
Preserved ==
  /\ \A k \in Kernels : sPc[k] = "preserve" => Len(sLines) = 1 /\ sLines[1].version = 1
  /\ backup # None =>
       Len(sLines) >= 1 /\ sLines[1].version = 1 /\ backup.lines = <<sLines[1]>>

SessionInv ==
  SessionTypes /\ SessionOwned /\ Numbered /\ Copied /\ Cached /\ SessionWrites /\ Preserved

(* The file only grows, by one event: who had a beginning of it still has.     *)
LEMMA PrefixOfMore ==
  ASSUME NEW S, NEW s \in Seq(S), NEW t \in Seq(S), NEW e \in S, Session!IsPrefix(s, t)
  PROVE  Session!IsPrefix(s, Append(t, e))
<1>1. /\ Len(s) \in Nat /\ Len(t) \in Nat /\ Len(s) <= Len(t)
      /\ Append(t, e) \in Seq(S) /\ Len(Append(t, e)) = Len(t) + 1
      /\ \A i \in 1..Len(t) : Append(t, e)[i] = t[i]
  BY LenProperties, AppendProperties DEF Session!IsPrefix
<1>2. SubSeq(Append(t, e), 1, Len(s)) = SubSeq(t, 1, Len(s))
  BY <1>1
<1>3. SubSeq(s, 1, Len(s)) = SubSeq(t, 1, Len(s))
  BY DEF Session!IsPrefix
<1> QED BY <1>1, <1>2, <1>3 DEF Session!IsPrefix

LEMMA PrefixOfSelf ==
  ASSUME NEW S, NEW s \in Seq(S)
  PROVE  Session!IsPrefix(s, s) /\ Session!IsPrefix(<<>>, s)
BY LenProperties DEF Session!IsPrefix

(* A beginning that has the length of the whole is the whole.                 *)
LEMMA PrefixOfSameLength ==
  ASSUME NEW S, NEW s \in Seq(S), NEW t \in Seq(S), Session!IsPrefix(s, t), Len(s) = Len(t)
  PROVE  s = t
BY SubSeqFull, LenProperties DEF Session!IsPrefix

(* readLog, with or without the cache, gives the file as it is.               *)
LEMMA Read ==
  ASSUME SessionInv, NEW k \in Kernels
  PROVE  /\ Session!CurrentLog(k) \in SLogs
         /\ Session!CurrentLog(k).lines = sLines /\ Session!CurrentLog(k).stamp = stamp
<1>1. Session!OnDisk \in SLogs /\ Session!OnDisk.lines = sLines /\ Session!OnDisk.stamp = stamp
  BY DEF SessionInv, SessionTypes, Session!OnDisk, SLogs
<1>2. stamp # None
  BY KernelsAssumption DEF SessionInv, SessionTypes
<1> QED
  BY <1>1, <1>2 DEF SessionInv, SessionTypes, Cached, Session!CurrentLog

(* What leaves the lines of the file, and the kernels' events, as they are.     *)
LEMMA SessionQuietly ==
  ASSUME SessionInv, UNCHANGED <<sLines, events>>, known' \in [Kernels -> SLogs],
         \/ UNCHANGED backup
         \/ (Len(sLines) = 1 /\ sLines[1].version = 1 /\ backup'.lines = <<sLines[1]>>),
         UNCHANGED stamp \/ (stamp' = stamp + 1 /\ UNCHANGED known),
         sPc' \in [Kernels -> SHolding \union {"closed", "open"}],
         \A k \in Kernels : sPc'[k] \in SHolding => sOwner' = k,
         \A k \in Kernels : known'[k] = known[k] \/ (known'[k].lines = sLines /\ known'[k].stamp = stamp),
         \A k \in Kernels : sPc'[k] \in SWriting \union {"written"} =>
           \/ sPc'[k] = sPc[k] /\ known'[k] = known[k]
           \/ /\ sPc'[k] # "written" /\ known'[k].lines = sLines /\ Len(events[k]) = Len(sLines)
              /\ sPc'[k] = "preserve" => Len(sLines) = 1 /\ sLines[1].version = 1
  PROVE  SessionInv'
<1> USE DEF SessionInv
<1>1. SessionTypes' /\ SessionOwned'
  BY DEF SessionTypes, SessionOwned
<1>2. Numbered' /\ Copied'
  BY DEF Numbered, Copied
<1>3. Cached'
  <2>1. stamp \in Nat /\ \A k \in Kernels : known[k].stamp # None => known[k].stamp \in Nat
    BY DEF SessionTypes, SLogs
  <2>2. CASE UNCHANGED stamp
    BY <2>1, <2>2 DEF Cached
  <2>3. CASE stamp' = stamp + 1 /\ UNCHANGED known
    BY <2>1, <2>3 DEF Cached
  <2> QED BY <2>2, <2>3
<1>4. SessionWrites'
  BY DEF SessionWrites, Session!Event, SWriting
<1>5. Preserved'
  BY DEF Preserved, SWriting
<1> QED BY <1>1, <1>2, <1>3, <1>4, <1>5

(* Opening takes the file as it is (session.ts 324-400).                      *)
LEMMA OpenStep ==
  ASSUME SessionInv, NEW k \in Kernels, Session!Open(k)
  PROVE  SessionInv'
<1> DEFINE log == Session!CurrentLog(k)
<1>1. log \in SLogs /\ log.lines = sLines /\ log.stamp = stamp
  BY Read
<1>2. /\ known' = [known EXCEPT ![k] = log] /\ sPc' = [sPc EXCEPT ![k] = "open"]
      /\ events' = [events EXCEPT ![k] = known'[k].lines]
      /\ UNCHANGED <<sLines, torn, stamp, backup, sOwner>>
  BY DEF Session!Open, Session!To, Session!file
<1> HIDE DEF log
<1> USE DEF SessionInv
<1>3. /\ known' \in [Kernels -> SLogs] /\ known'[k] = log
      /\ \A j \in Kernels : j # k => known'[j] = known[j]
  BY <1>1, <1>2 DEF SessionTypes
<1>4. /\ events' \in [Kernels -> Seq(SEvents)] /\ events'[k] = sLines
      /\ \A j \in Kernels : j # k => events'[j] = events[j]
  BY <1>1, <1>2, <1>3 DEF SessionTypes
<1>5. /\ sPc' \in [Kernels -> SHolding \union {"closed", "open"}] /\ sPc'[k] = "open"
      /\ \A j \in Kernels : j # k => sPc'[j] = sPc[j]
  BY <1>2 DEF SessionTypes
<1>6. SessionTypes' /\ SessionOwned'
  BY <1>2, <1>3, <1>4, <1>5 DEF SessionTypes, SessionOwned, SHolding
<1>7. Numbered'
  BY <1>2 DEF Numbered
<1>8. Copied'
  BY <1>2, <1>4, PrefixOfSelf DEF Copied, SessionTypes
<1>9. Cached'
  BY <1>1, <1>2, <1>3 DEF Cached, SessionTypes
<1>10. SessionWrites'
  BY <1>2, <1>3, <1>4, <1>5 DEF SessionWrites, SWriting, Session!Event
<1>11. Preserved'
  BY <1>2, <1>5 DEF Preserved
<1> QED BY <1>6, <1>7, <1>8, <1>9, <1>10, <1>11

(* The lock is taken from nobody, or from a dead process.                     *)
LEMMA LockStep ==
  ASSUME SessionInv, NEW k \in Kernels, Session!Lock(k)
  PROVE  SessionInv'
<1>1. /\ sPc' = [sPc EXCEPT ![k] = "check"] /\ sOwner' = k /\ sOwner \in {None, Ghost}
      /\ UNCHANGED <<sLines, torn, stamp, backup, events, known>>
  BY DEF Session!Lock, Session!To, Session!file
<1>2. \A j \in Kernels : sPc[j] \notin SHolding
  BY <1>1, KernelsAssumption DEF SessionInv, SessionOwned
<1>3. /\ sPc' \in [Kernels -> SHolding \union {"closed", "open"}] /\ sPc'[k] = "check"
      /\ \A j \in Kernels : j # k => sPc'[j] = sPc[j]
  BY <1>1 DEF SessionInv, SessionTypes, SHolding
<1>4. known' \in [Kernels -> SLogs]
  BY <1>1 DEF SessionInv, SessionTypes
<1> QED
  BY <1>1, <1>2, <1>3, <1>4, SessionQuietly DEF SHolding, SWriting

(* Who passes the comparison has the whole file, and a file of version 1 has   *)
(* one line.                                                                 *)
LEMMA CheckStep ==
  ASSUME SessionInv, NEW k \in Kernels, Session!Check(k)
  PROVE  SessionInv'
<1> DEFINE log == Session!CurrentLog(k)
<1>1. log \in SLogs /\ log.lines = sLines /\ log.stamp = stamp
  BY Read
<1>2. /\ sPc[k] = "check" /\ known' = [known EXCEPT ![k] = log]
      /\ UNCHANGED <<sLines, torn, stamp, backup, events, sOwner>>
      /\ \/ sPc' = [sPc EXCEPT ![k] = "failed"]
         \/ /\ Session!Event(k).seq = Len(log.lines) + 1
            /\ \/ sPc' = [sPc EXCEPT ![k] = "cut"] \/ sPc' = [sPc EXCEPT ![k] = "write"]
               \/ /\ sPc' = [sPc EXCEPT ![k] = "preserve"]
                  /\ log.lines # <<>> /\ \A e \in Session!Range(log.lines) : e.version = 1
  BY Zenon DEF Session!Check, Session!To, Session!file
<1> HIDE DEF log
<1>3. /\ Len(sLines) \in Nat /\ Len(events[k]) \in Nat /\ \A i \in 1..Len(sLines) : sLines[i] \in SEvents
      /\ sLines # <<>> => Len(sLines) >= 1
  BY LenProperties DEF SessionInv, SessionTypes
<1>4. Session!Event(k).seq = Len(log.lines) + 1 => Len(events[k]) = Len(sLines)
  BY <1>1, <1>3 DEF Session!Event
<1>5. ASSUME sLines # <<>>, \A e \in Session!Range(sLines) : e.version = 1
      PROVE  Len(sLines) = 1 /\ sLines[1].version = 1
  <2>1. \A i \in 1..Len(sLines) : sLines[i].version = 1
    <3>1. DOMAIN sLines = 1..Len(sLines)
      BY LenProperties DEF SessionInv, SessionTypes
    <3> QED BY <1>5, <3>1 DEF Session!Range
  <2>2. Len(sLines) <= 1
    <3> SUFFICES ASSUME Len(sLines) > 1 PROVE FALSE
      BY <1>3
    <3>1. 2 \in 1..Len(sLines)
      BY <1>3
    <3> QED BY <2>1, <3>1 DEF SessionInv, Numbered
  <2>3. Len(sLines) \in Nat /\ Len(sLines) >= 1
    BY <1>3, <1>5
  <2>4. \A n \in Nat : n <= 1 /\ n >= 1 => n = 1
    OBVIOUS
  <2>5. Len(sLines) = 1
    BY Zenon, <2>2, <2>3, <2>4
  <2> QED BY <2>1, <2>5
<1>6. /\ known' \in [Kernels -> SLogs] /\ known'[k] = log
      /\ \A j \in Kernels : j # k => known'[j] = known[j]
  BY <1>1, <1>2 DEF SessionInv, SessionTypes
<1>7. /\ sPc' \in [Kernels -> SHolding \union {"closed", "open"}]
      /\ \A j \in Kernels : j # k => sPc'[j] = sPc[j]
      /\ sPc'[k] \in {"failed", "cut", "write", "preserve"}
      /\ sPc'[k] # "failed" => Len(events[k]) = Len(sLines)
      /\ sPc'[k] = "preserve" => Len(sLines) = 1 /\ sLines[1].version = 1
  BY Zenon, <1>1, <1>2, <1>4, <1>5 DEF SessionInv, SessionTypes, SHolding
<1>8. \A j \in Kernels : sPc'[j] \in SHolding => sOwner' = j
  BY <1>2, <1>7 DEF SessionInv, SessionOwned, SHolding
<1> QED
  BY <1>1, <1>2, <1>6, <1>7, <1>8, SessionQuietly DEF SWriting

(* The copy is of the one line of version 1.                                  *)
LEMMA PreserveStep ==
  ASSUME SessionInv, NEW k \in Kernels, Session!Preserve(k) \/ Session!PreserveRefused(k)
  PROVE  SessionInv'
<1>1. /\ sPc[k] = "preserve" /\ UNCHANGED <<sLines, stamp, events, known, sOwner>>
      /\ UNCHANGED backup \/ backup'.lines = sLines
      /\ \E to \in {"cut", "write", "failed"} : sPc' = [sPc EXCEPT ![k] = to]
  BY DEF Session!Preserve, Session!PreserveRefused, Session!To, Session!file, Session!Bytes
<1>2. /\ Len(sLines) = 1 /\ sLines[1].version = 1
      /\ known[k].lines = sLines /\ Len(events[k]) = Len(sLines)
  BY <1>1 DEF SessionInv, Preserved, SessionWrites, SWriting
<1>3. sLines = <<sLines[1]>>
  BY <1>2 DEF SessionInv, SessionTypes
<1>4. /\ sPc' \in [Kernels -> SHolding \union {"closed", "open"}]
      /\ sPc'[k] \in {"cut", "write", "failed"} /\ \A j \in Kernels : j # k => sPc'[j] = sPc[j]
  BY <1>1 DEF SessionInv, SessionTypes, SHolding
<1>5. known' \in [Kernels -> SLogs]
  BY <1>1 DEF SessionInv, SessionTypes
<1>6. \A j \in Kernels : sPc'[j] \in SHolding => sOwner' = j
  BY <1>1, <1>4 DEF SessionInv, SessionOwned, SHolding
<1>7. UNCHANGED backup \/ (Len(sLines) = 1 /\ sLines[1].version = 1 /\ backup'.lines = <<sLines[1]>>)
  BY <1>1, <1>2, <1>3
<1> QED
  BY <1>1, <1>2, <1>4, <1>5, <1>6, <1>7, SessionQuietly DEF SWriting

(* The cut takes the torn tail only: the cache has the whole file.             *)
LEMMA CutStep ==
  ASSUME SessionInv, NEW k \in Kernels, Session!Cut(k) \/ Session!WriteSome(k)
  PROVE  SessionInv'
<1>1. /\ sPc[k] \in {"cut", "write"} /\ UNCHANGED <<events, known, sOwner, backup>> /\ stamp' = stamp + 1
      /\ sLines' = sLines \/ sLines' = SubSeq(sLines, 1, Len(known[k].lines))
      /\ \E to \in {"write", "writing"} : sPc' = [sPc EXCEPT ![k] = to]
  BY DEF Session!Cut, Session!WriteSome, Session!To, Session!file
<1>2. known[k].lines = sLines /\ Len(events[k]) = Len(sLines)
  BY <1>1 DEF SessionInv, SessionWrites, SWriting
<1>3. sLines' = sLines
  BY Zenon, <1>1, <1>2, SubSeqFull DEF SessionInv, SessionTypes
<1>4. /\ sPc' \in [Kernels -> SHolding \union {"closed", "open"}]
      /\ sPc'[k] \in {"write", "writing"} /\ \A j \in Kernels : j # k => sPc'[j] = sPc[j]
  BY <1>1 DEF SessionInv, SessionTypes, SHolding
<1>5. known' \in [Kernels -> SLogs]
  BY <1>1 DEF SessionInv, SessionTypes
<1>6. \A j \in Kernels : sPc'[j] \in SHolding => sOwner' = j
  BY <1>1, <1>4 DEF SessionInv, SessionOwned, SHolding
<1> QED
  BY <1>1, <1>2, <1>3, <1>4, <1>5, <1>6, SessionQuietly DEF SWriting

(* A write or the fsync fails, or append throws.                              *)
LEMMA FailStep ==
  ASSUME SessionInv, NEW k \in Kernels, Session!Fail(k) \/ Session!Unlock(k)
  PROVE  SessionInv'
<1>1. /\ sPc[k] \in SHolding /\ UNCHANGED <<sLines, stamp, events, known, backup>>
      /\ \/ sOwner' = sOwner /\ sPc' = [sPc EXCEPT ![k] = "failed"]
         \/ sOwner' = None /\ sPc' = [sPc EXCEPT ![k] = "open"]
  BY DEF Session!Fail, Session!Unlock, Session!To, Session!file, SHolding
<1>2. \A j \in Kernels \ {k} : sPc[j] \notin SHolding
  BY <1>1 DEF SessionInv, SessionOwned
<1>3. /\ sPc' \in [Kernels -> SHolding \union {"closed", "open"}]
      /\ sPc'[k] \in {"failed", "open"} /\ \A j \in Kernels : j # k => sPc'[j] = sPc[j]
  BY Zenon, <1>1 DEF SessionInv, SessionTypes, SHolding
<1>4. known' \in [Kernels -> SLogs]
  BY <1>1 DEF SessionInv, SessionTypes
<1>5. \A j \in Kernels : sPc'[j] \in SHolding => sOwner' = j
  BY <1>1, <1>2, <1>3 DEF SessionInv, SessionTypes, SessionOwned, SHolding
<1> QED
  BY <1>1, <1>2, <1>3, <1>4, <1>5, SessionQuietly DEF SWriting, SHolding

(* The event is written behind the whole file.                               *)
LEMMA WriteStep ==
  ASSUME SessionInv, NEW k \in Kernels, Session!WriteRest(k)
  PROVE  SessionInv'
<1> DEFINE e == Session!Event(k)
<1>1. /\ sPc[k] = "writing" /\ sPc' = [sPc EXCEPT ![k] = "written"] /\ stamp' = stamp + 1
      /\ sLines' = Append(sLines, e) /\ UNCHANGED <<events, known, sOwner, backup>>
  BY DEF Session!WriteRest, Session!To
<1>2. known[k].lines = sLines /\ Len(events[k]) = Len(sLines)
  BY <1>1 DEF SessionInv, SessionWrites, SWriting
<1>3. /\ sLines \in Seq(SEvents) /\ Len(sLines) \in Nat
      /\ e \in SEvents /\ e.seq = Len(sLines) + 1 /\ e.version = 2
  <2>1. sLines \in Seq(SEvents) /\ Len(sLines) \in Nat
    BY LenProperties DEF SessionInv, SessionTypes
  <2> QED BY <1>2, <2>1 DEF Session!Event, SEvents
<1> HIDE DEF e
<1>4. /\ sLines' \in Seq(SEvents) /\ Len(sLines') = Len(sLines) + 1 /\ sLines'[Len(sLines) + 1] = e
      /\ \A i \in 1..Len(sLines) : sLines'[i] = sLines[i]
  BY <1>1, <1>3, AppendProperties
<1>5. /\ sPc' \in [Kernels -> SHolding \union {"closed", "open"}] /\ sPc'[k] = "written"
      /\ \A j \in Kernels : j # k => sPc'[j] = sPc[j]
  BY <1>1 DEF SessionInv, SessionTypes, SHolding
<1>6. \A j \in Kernels \ {k} : sPc[j] \notin SHolding
  BY <1>1 DEF SessionInv, SessionOwned, SHolding
<1>7. SessionTypes' /\ SessionOwned'
  BY <1>1, <1>4, <1>5 DEF SessionInv, SessionTypes, SessionOwned, SHolding
<1>8. Numbered'
  <2>1. \A i \in 1..Len(sLines') : i \in 1..Len(sLines) \/ i = Len(sLines) + 1
    BY <1>3, <1>4
  <2> QED BY <1>3, <1>4, <2>1 DEF SessionInv, Numbered
<1>9. Copied'
  BY <1>1, <1>3, PrefixOfMore DEF SessionInv, SessionTypes, Copied
<1>10. Cached'
  BY <1>1 DEF SessionInv, SessionTypes, Cached, SLogs
<1>11. SessionWrites'
  BY Zenon, <1>1, <1>2, <1>5, <1>6 DEF SessionInv, SessionWrites, SWriting, SHolding, e, Session!Event
<1>12. Preserved'
  BY <1>1, <1>3, <1>4, <1>5, <1>6 DEF SessionInv, Preserved, SHolding
<1> QED BY <1>7, <1>8, <1>9, <1>10, <1>11, <1>12 DEF SessionInv

(* What is acknowledged is what is in the file.                              *)
LEMMA FinishStep ==
  ASSUME SessionInv, NEW k \in Kernels, Session!Finish(k)
  PROVE  SessionInv'
<1> DEFINE e == Session!Event(k)
           log == [lines |-> Append(known[k].lines, e), torn |-> FALSE, stamp |-> stamp]
<1>1. /\ sPc[k] = "written" /\ sPc' = [sPc EXCEPT ![k] = "open"] /\ sOwner' = None
      /\ events' = [events EXCEPT ![k] = Append(events[k], e)] /\ known' = [known EXCEPT ![k] = log]
      /\ UNCHANGED <<sLines, stamp, backup>>
  BY DEF Session!Finish, Session!To, Session!file
<1>2. sLines = Append(known[k].lines, e) /\ Len(known[k].lines) = Len(events[k])
  BY <1>1 DEF SessionInv, SessionWrites
<1>3. /\ events[k] \in Seq(SEvents) /\ known[k].lines \in Seq(SEvents) /\ Session!IsPrefix(events[k], sLines)
      /\ sLines \in Seq(SEvents) /\ stamp \in Nat /\ stamp # None
      /\ Len(events[k]) \in Nat
  BY KernelsAssumption, LenProperties DEF SessionInv, SessionTypes, Copied, SLogs
<1>4. e \in SEvents
  BY <1>3 DEF Session!Event, SEvents
<1> HIDE DEF e
<1>5. /\ Len(sLines) = Len(events[k]) + 1 /\ sLines[Len(sLines)] = e
      /\ \A i \in 1..Len(events[k]) : events[k][i] = sLines[i]
  <2>1. Len(sLines) = Len(events[k]) + 1 /\ sLines[Len(sLines)] = e
    <3>1. /\ Len(Append(known[k].lines, e)) = Len(known[k].lines) + 1
          /\ Append(known[k].lines, e)[Len(known[k].lines) + 1] = e
      BY <1>3, <1>4, AppendProperties
    <3> QED BY <1>2, <3>1
  <2>2. SubSeq(events[k], 1, Len(events[k])) = SubSeq(sLines, 1, Len(events[k]))
    BY <1>3 DEF Session!IsPrefix
  <2>3. ASSUME NEW i \in 1..Len(events[k]) PROVE events[k][i] = sLines[i]
    <3>1. SubSeq(events[k], 1, Len(events[k]))[i] = events[k][i] /\ SubSeq(sLines, 1, Len(events[k]))[i] = sLines[i]
      BY <1>3, <2>1
    <3> QED BY <2>2, <3>1
  <2> QED BY <2>1, <2>3
<1>6. Append(events[k], e) = sLines
  BY <1>3, <1>4, <1>5, SeqEqual, AppendProperties
<1>7. log \in SLogs /\ log.lines = sLines /\ log.stamp = stamp
  BY <1>2, <1>3 DEF SLogs
<1> HIDE DEF log
<1>8. /\ known' \in [Kernels -> SLogs] /\ known'[k] = log /\ \A j \in Kernels : j # k => known'[j] = known[j]
      /\ events' \in [Kernels -> Seq(SEvents)] /\ events'[k] = sLines
      /\ \A j \in Kernels : j # k => events'[j] = events[j]
      /\ sPc' \in [Kernels -> SHolding \union {"closed", "open"}] /\ sPc'[k] = "open"
      /\ \A j \in Kernels : j # k => sPc'[j] = sPc[j]
  BY <1>1, <1>3, <1>6, <1>7 DEF SessionInv, SessionTypes
<1>9. \A j \in Kernels \ {k} : sPc[j] \notin SHolding
  BY <1>1 DEF SessionInv, SessionOwned, SHolding
<1>10. SessionTypes' /\ SessionOwned' /\ Numbered'
  BY <1>1, <1>8, <1>9 DEF SessionInv, SessionTypes, SessionOwned, Numbered, SHolding
<1>11. Copied'
  BY Zenon, <1>1, <1>3, <1>8, PrefixOfSelf DEF SessionInv, Copied
<1>12. Cached'
  BY <1>1, <1>3, <1>7, <1>8 DEF SessionInv, Cached
<1>13. SessionWrites' /\ Preserved'
  BY <1>1, <1>8, <1>9 DEF SessionInv, SessionWrites, Preserved, SWriting, SHolding
<1> QED BY <1>10, <1>11, <1>12, <1>13 DEF SessionInv

(* The process dies, and the file and the lock stay.                          *)
LEMMA CrashStep ==
  ASSUME SessionInv, NEW k \in Kernels, Session!Crash(k)
  PROVE  SessionInv'
<1> DEFINE log == Session!Unread
<1>1. /\ sPc' = [sPc EXCEPT ![k] = "closed"] /\ sOwner' \in {sOwner, Ghost} /\ (sOwner # k => sOwner' = sOwner)
      /\ events' = [events EXCEPT ![k] = <<>>] /\ known' = [known EXCEPT ![k] = log]
      /\ UNCHANGED <<sLines, stamp, backup>>
  BY DEF Session!Crash, Session!file
<1>2. log \in SLogs /\ log.stamp = None /\ <<>> \in Seq(SEvents)
  BY DEF Session!Unread, SLogs
<1> HIDE DEF log
<1>3. /\ known' \in [Kernels -> SLogs] /\ known'[k] = log /\ \A j \in Kernels : j # k => known'[j] = known[j]
      /\ events' \in [Kernels -> Seq(SEvents)] /\ events'[k] = <<>>
      /\ \A j \in Kernels : j # k => events'[j] = events[j]
      /\ sPc' \in [Kernels -> SHolding \union {"closed", "open"}] /\ sPc'[k] = "closed"
      /\ \A j \in Kernels : j # k => sPc'[j] = sPc[j]
  BY <1>1, <1>2 DEF SessionInv, SessionTypes
<1>4. SessionTypes' /\ SessionOwned' /\ Numbered'
  BY <1>1, <1>3 DEF SessionInv, SessionTypes, SessionOwned, Numbered, SHolding
<1>5. Copied'
  BY <1>1, <1>3, PrefixOfSelf DEF SessionInv, SessionTypes, Copied
<1>6. Cached'
  BY <1>1, <1>2, <1>3 DEF SessionInv, Cached
<1>7. SessionWrites' /\ Preserved'
  BY <1>1, <1>3 DEF SessionInv, SessionWrites, Preserved, SWriting, Session!Event
<1> QED BY <1>4, <1>5, <1>6, <1>7 DEF SessionInv

LEMMA SessionStarts == Session!Init => SessionInv
<1> SUFFICES ASSUME Session!Init PROVE SessionInv
  OBVIOUS
<1>1. Session!Legacy \in SEvents /\ Session!Legacy.seq = 1 /\ Session!Unread \in SLogs /\ Session!Unread.stamp = None
  BY DEF Session!Legacy, Session!Unread, SEvents, SLogs
<1>2. /\ sLines \in Seq(SEvents) /\ Len(sLines) \in {0, 1} /\ \A i \in 1..Len(sLines) : i = 1 /\ sLines[i].seq = 1
  <2>1. CASE sLines = <<>>
    BY <2>1
  <2>2. CASE sLines = <<Session!Legacy>>
    BY <1>1, <2>2
  <2> QED BY <2>1, <2>2 DEF Session!Init
<1>3. SessionTypes
  BY <1>1, <1>2 DEF Session!Init, SessionTypes
<1>4. Numbered
  BY <1>2 DEF Numbered
<1>5. Copied
  BY <1>2, PrefixOfSelf DEF Session!Init, Copied
<1>6. SessionOwned /\ Cached /\ SessionWrites /\ Preserved
  BY <1>1 DEF Session!Init, SessionOwned, Cached, SessionWrites, Preserved, SHolding, SWriting
<1> QED BY <1>3, <1>4, <1>5, <1>6 DEF SessionInv

LEMMA SessionSteps == SessionInv /\ [Session!Next]_(Session!vars) => SessionInv'
<1> SUFFICES ASSUME SessionInv, [Session!Next]_(Session!vars) PROVE SessionInv'
  OBVIOUS
<1>1. CASE UNCHANGED Session!vars
  BY <1>1 DEF Session!vars, Session!file, SessionInv, SessionTypes, SessionOwned, Numbered, Copied, Cached,
     SessionWrites, Preserved, Session!Event
<1>2. CASE Session!Next
  BY <1>2, OpenStep, LockStep, CheckStep, PreserveStep, CutStep, WriteStep, FinishStep, FailStep, CrashStep
     DEF Session!Next
<1> QED BY <1>1, <1>2

LEMMA SessionKept == SessionInv => Session!NeverForks
<1> SUFFICES ASSUME SessionInv, backup # None
             PROVE  /\ Session!IsPrefix(backup.lines, sLines)
                    /\ \A i \in 1..Len(sLines) : sLines[i].version = 1 <=> i <= Len(backup.lines)
  BY DEF SessionInv, Numbered, Copied, Session!NeverForks
<1>1. /\ sLines \in Seq(SEvents) /\ Len(sLines) \in Nat /\ Len(sLines) >= 1 /\ sLines[1].version = 1
      /\ backup.lines = <<sLines[1]>>
  BY LenProperties DEF SessionInv, SessionTypes, Preserved
<1>2. Len(backup.lines) = 1 /\ backup.lines[1] = sLines[1]
  BY <1>1
<1>3. Session!IsPrefix(backup.lines, sLines)
  BY <1>1, <1>2 DEF Session!IsPrefix
<1>4. \A i \in 1..Len(sLines) : sLines[i].version = 1 <=> i <= 1
  BY <1>1 DEF SessionInv, Numbered
<1> QED BY <1>2, <1>3, <1>4

-----------------------------------------------------------------------------
(* ConversationMemory.  What a writer last saw of the thread, it has seen.      *)
Entries == [by : Kernels, n : Nat]
Threads == Seq(Entries)

MemoryTypes ==
  /\ thread \in Threads \union {None} /\ turns \in Nat
  /\ hist \in [Kernels -> Threads]
  /\ snapshot \in [Kernels -> Threads \union {None}]
  /\ seen \in [Kernels -> SUBSET Entries]
Remembered ==
  \A w \in Kernels : snapshot[w] # None => Memory!OfOthers(w, snapshot[w]) \subseteq seen[w]
MemoryInv == MemoryTypes /\ Remembered

LEMMA NoneIsNoThread == None \notin Threads
BY KernelsAssumption DEF Threads, Entries

LEMMA OthersAre ==
  ASSUME NEW w, NEW s \in Threads
  PROVE  /\ Memory!Range(s) = {s[i] : i \in 1..Len(s)} /\ Memory!OfOthers(w, s) \subseteq Memory!Range(s)
         /\ Memory!OfOthers(w, s) \subseteq Entries
<1>1. DOMAIN s = 1..Len(s) /\ \A i \in 1..Len(s) : s[i] \in Entries
  BY LenProperties DEF Threads
<1> QED BY <1>1 DEF Memory!Range, Memory!OfOthers

LEMMA PrefixIsKept ==
  ASSUME NEW s \in Threads, NEW t \in Threads, Memory!IsPrefix(s, t)
  PROVE  Memory!Range(s) \subseteq Memory!Range(t)
<1>1. Len(s) \in Nat /\ Len(t) \in Nat /\ Len(s) <= Len(t) /\ SubSeq(s, 1, Len(s)) = SubSeq(t, 1, Len(s))
  BY LenProperties DEF Memory!IsPrefix, Threads
<1>2. \A i \in 1..Len(s) : s[i] \in Entries /\ i \in 1..Len(t) /\ t[i] \in Entries
  BY <1>1, LenProperties DEF Threads
<1>3. 1 \in Int /\ Len(s) \in Int /\ \A i \in 1..Len(s) : i \in 1..(Len(s) - 1 + 1) /\ 1 + i - 1 = i
  BY <1>1
<1>4. \A i \in 1..Len(s) : SubSeq(s, 1, Len(s))[i] = s[i]
  BY <1>2, <1>3, SubSeqProperties
<1>5. \A i \in 1..Len(s) : SubSeq(t, 1, Len(s))[i] = t[i]
  BY <1>2, <1>3, SubSeqProperties
<1>6. \A i \in 1..Len(s) : s[i] = t[i]
  BY <1>1, <1>4, <1>5
<1>7. /\ Memory!Range(s) = {s[i] : i \in 1..Len(s)}
      /\ Memory!Range(t) = {t[i] : i \in 1..Len(t)}
  BY Zenon, OthersAre
<1> QED BY <1>2, <1>6, <1>7

LEMMA MemoryStarts == Memory!Init => MemoryInv
<1> SUFFICES ASSUME Memory!Init PROVE MemoryInv
  OBVIOUS
<1>1. <<>> \in Threads
  BY DEF Threads
<1> QED BY <1>1 DEF Memory!Init, MemoryInv, MemoryTypes, Remembered

(* What is remembered has been seen, by the same writer.                       *)
LEMMA RememberStep ==
  ASSUME MemoryInv, NEW w \in Kernels, NEW s \in Threads, Memory!Remember(w, s),
         thread' \in Threads \union {None}, hist' \in [Kernels -> Threads], turns' \in Nat
  PROVE  MemoryInv'
<1>1. /\ snapshot' = [snapshot EXCEPT ![w] = s]
      /\ seen' = [seen EXCEPT ![w] = @ \union Memory!OfOthers(w, s)]
  BY DEF Memory!Remember
<1>2. Memory!OfOthers(w, s) \subseteq Entries
  BY OthersAre
<1>3. MemoryTypes'
  BY <1>1, <1>2 DEF MemoryInv, MemoryTypes
<1>4. Remembered'
  <2> SUFFICES ASSUME NEW v \in Kernels, snapshot'[v] # None
               PROVE  Memory!OfOthers(v, snapshot'[v]) \subseteq seen'[v]
    BY DEF Remembered, Memory!OfOthers
  <2>1. CASE v = w
    BY <1>1, <2>1 DEF MemoryInv, MemoryTypes
  <2>2. CASE v # w
    BY <1>1, <2>2 DEF MemoryInv, MemoryTypes, Remembered
  <2> QED BY <2>1, <2>2
<1> QED BY <1>3, <1>4 DEF MemoryInv

(* No writer's snapshot changes, unless it is given up.                        *)
LEMMA UnseenStep ==
  ASSUME MemoryInv, NEW w \in Kernels,
         snapshot' \in {snapshot, [snapshot EXCEPT ![w] = None]},
         seen' \in {seen, [seen EXCEPT ![w] = {}]}, seen' # seen => snapshot' = [snapshot EXCEPT ![w] = None],
         thread' \in Threads \union {None}, hist' \in [Kernels -> Threads], turns' \in Nat
  PROVE  MemoryInv'
<1>1. MemoryTypes'
  BY DEF MemoryInv, MemoryTypes
<1>2. Remembered'
  <2> SUFFICES ASSUME NEW v \in Kernels, snapshot'[v] # None
               PROVE  Memory!OfOthers(v, snapshot'[v]) \subseteq seen'[v]
    BY DEF Remembered, Memory!OfOthers
  <2>1. snapshot'[v] = snapshot[v] /\ seen'[v] = seen[v]
    BY DEF MemoryInv, MemoryTypes
  <2> QED BY <2>1 DEF MemoryInv, Remembered
<1> QED BY <1>1, <1>2 DEF MemoryInv

LEMMA ThreadOf == ASSUME MemoryInv PROVE Memory!MessagesOf(thread) \in Threads
<1>1. <<>> \in Threads
  BY DEF Threads
<1> QED BY <1>1 DEF MemoryInv, MemoryTypes, Memory!MessagesOf

LEMMA MessageIs ==
  ASSUME MemoryInv, NEW w \in Kernels
  PROVE  /\ Memory!NewMessage(w) \in Entries
         /\ \A s \in Threads : Append(s, Memory!NewMessage(w)) \in Threads
<1>1. Memory!NewMessage(w) \in Entries
  BY DEF MemoryInv, MemoryTypes, Memory!NewMessage, Entries
<1> HIDE DEF MemoryInv
<1> QED BY <1>1 DEF Threads

LEMMA PartIsThread ==
  ASSUME NEW s \in Threads, NEW i \in 1..Len(s)
  PROVE  SubSeq(s, 1, i - 1) \in Threads /\ SubSeq(s, i + 1, Len(s)) \in Threads
<1>1. Len(s) \in Nat /\ i \in Nat /\ 1 <= i /\ i <= Len(s) /\ \A j \in 1..Len(s) : s[j] \in Entries
  BY LenProperties DEF Threads
<1>2. i - 1 \in Int /\ i + 1 \in Int /\ 1 \in Int /\ Len(s) \in Int
  BY <1>1
<1>3. /\ \A j \in 1..(i - 1) : s[j] \in Entries
      /\ \A j \in (i + 1)..Len(s) : s[j] \in Entries
  BY <1>1
<1>4. SubSeq(s, 1, i - 1) \in Seq(Entries)
  BY <1>2, <1>3, SubSeqProperties
<1>5. SubSeq(s, i + 1, Len(s)) \in Seq(Entries)
  BY <1>2, <1>3, SubSeqProperties
<1> QED BY <1>4, <1>5 DEF Threads

LEMMA MemorySteps == MemoryInv /\ [Memory!Next]_(Memory!vars) => MemoryInv'
<1> SUFFICES ASSUME MemoryInv, [Memory!Next]_(Memory!vars) PROVE MemoryInv'
  OBVIOUS
<1>1. /\ thread \in Threads \union {None} /\ turns \in Nat /\ hist \in [Kernels -> Threads]
      /\ Memory!MessagesOf(thread) \in Threads /\ <<>> \in Threads
  BY ThreadOf DEF MemoryInv, MemoryTypes, Threads
<1>2. \A s \in Threads : \A v \in Kernels : [hist EXCEPT ![v] = s] \in [Kernels -> Threads]
  BY <1>1
<1>3. CASE UNCHANGED Memory!vars
  BY <1>3 DEF Memory!vars, MemoryInv, MemoryTypes, Remembered, Memory!OfOthers
<1>4. ASSUME NEW w \in Kernels, Memory!Extend(w) PROVE MemoryInv'
  <2>1. /\ hist' = [hist EXCEPT ![w] = Append(hist[w], Memory!NewMessage(w))] /\ turns' = turns + 1
        /\ UNCHANGED <<thread, snapshot, seen>>
    BY <1>4 DEF Memory!Extend, Memory!Adds, Memory!Journal
  <2>2. Append(hist[w], Memory!NewMessage(w)) \in Threads
    BY <1>1, MessageIs
  <2>3. hist' \in [Kernels -> Threads]
    BY <1>2, <2>1, <2>2
  <2> QED BY <1>1, <2>1, <2>3, UnseenStep
<1>5. ASSUME NEW w \in Kernels, Memory!Shorten(w) PROVE MemoryInv'
  <2>1. PICK i \in 1..Len(hist[w]) :
          \/ hist' = [hist EXCEPT ![w] = SubSeq(hist[w], 1, i - 1)]
          \/ hist' = [hist EXCEPT ![w] = SubSeq(hist[w], i + 1, Len(hist[w]))]
    BY <1>5 DEF Memory!Shorten, Memory!Journal
  <2>2. UNCHANGED <<thread, snapshot, turns, seen>>
    BY <1>5 DEF Memory!Shorten
  <2>3. hist[w] \in Threads
    BY <1>1
  <2>4. hist' \in [Kernels -> Threads]
    <3>1. SubSeq(hist[w], 1, i - 1) \in Threads /\ SubSeq(hist[w], i + 1, Len(hist[w])) \in Threads
      BY <2>3, PartIsThread
    <3>2. CASE hist' = [hist EXCEPT ![w] = SubSeq(hist[w], 1, i - 1)]
      BY <1>2, <3>1, <3>2
    <3>3. CASE hist' = [hist EXCEPT ![w] = SubSeq(hist[w], i + 1, Len(hist[w]))]
      BY <1>2, <3>1, <3>3
    <3> QED BY <2>1, <3>2, <3>3
  <2> QED BY <1>1, <2>2, <2>4, UnseenStep
<1>6. ASSUME NEW w \in Kernels, Memory!Project(w) PROVE MemoryInv'
  <2>1. /\ thread' = Memory!Projection(thread, snapshot[w], hist[w]) /\ Memory!Remember(w, hist[w])
        /\ UNCHANGED <<hist, turns>>
    BY <1>6 DEF Memory!Project
  <2>2. thread' \in Threads \union {None} /\ hist[w] \in Threads
    BY <1>1, <2>1 DEF Memory!Projection
  <2> QED BY <1>1, <2>1, <2>2, RememberStep
<1>7. ASSUME NEW w \in Kernels, Memory!Clear(w) PROVE MemoryInv'
  <2>1. /\ thread' = <<>> /\ Memory!Remember(w, <<>>) /\ hist' = [hist EXCEPT ![w] = <<>>] /\ turns' = turns
    BY <1>7 DEF Memory!Clear, Memory!Journal
  <2>2. hist' \in [Kernels -> Threads]
    BY <1>1, <1>2, <2>1
  <2> QED BY <1>1, <2>1, <2>2, RememberStep
<1>8. ASSUME NEW w \in Kernels, Memory!Add(w) PROVE MemoryInv'
  <2>1. /\ thread' = Append(Memory!MessagesOf(thread), Memory!NewMessage(w))
        /\ Memory!Remember(w, thread') /\ hist' = hist /\ turns' = turns + 1
    BY <1>8 DEF Memory!Add, Memory!Adds
  <2>2. thread' \in Threads /\ turns' \in Nat
    BY <1>1, <2>1, MessageIs
  <2> QED BY <1>1, <2>1, <2>2, RememberStep
<1>9. ASSUME NEW w \in Kernels, Memory!Look(w) PROVE MemoryInv'
  <2>1. thread # None /\ Memory!Remember(w, thread) /\ UNCHANGED <<thread, hist, turns>>
    BY <1>9 DEF Memory!Look
  <2> QED BY <1>1, <2>1, RememberStep
<1>10. ASSUME NEW w \in Kernels, Memory!Import(w) PROVE MemoryInv'
  <2>1. /\ thread' = Memory!MessagesOf(thread) /\ Memory!Remember(w, thread')
        /\ hist' = [hist EXCEPT ![w] = thread'] /\ turns' = turns
    BY <1>10 DEF Memory!Import, Memory!Journal
  <2>2. thread' \in Threads /\ hist' \in [Kernels -> Threads]
    BY <1>1, <1>2, <2>1
  <2> QED BY <1>1, <2>1, <2>2, RememberStep
<1>11. ASSUME NEW w \in Kernels, Memory!Delete(w) PROVE MemoryInv'
  <2>1. /\ thread' = None /\ snapshot' \in {snapshot, [snapshot EXCEPT ![w] = None]}
        /\ UNCHANGED <<hist, turns, seen>>
    BY <1>11 DEF Memory!Delete
  <2> QED BY <1>1, <2>1, UnseenStep
<1>12. ASSUME NEW w \in Kernels, Memory!Restart(w) PROVE MemoryInv'
  <2>1. /\ snapshot' = [snapshot EXCEPT ![w] = None] /\ seen' = [seen EXCEPT ![w] = {}]
        /\ UNCHANGED <<thread, hist, turns>>
    BY <1>12 DEF Memory!Restart
  <2> QED BY Zenon, <1>1, <2>1, UnseenStep
<1> QED
  BY <1>3, <1>4, <1>5, <1>6, <1>7, <1>8, <1>9, <1>10, <1>11, <1>12 DEF Memory!Next

(* What a projection replaces the thread with keeps what the thread held, or the  *)
(* thread held what the writer knows (memory.ts 166-221).                    *)
LEMMA ProjectErasesNothing ==
  ASSUME MemoryInv, NEW w \in Kernels, Memory!Project(w)
  PROVE  Memory!OfOthers(w, Memory!MessagesOf(thread))
           \subseteq Memory!Range(Memory!MessagesOf(thread')) \union seen[w]
<1> DEFINE current == Memory!MessagesOf(thread)
           desired == hist[w]
           old == snapshot[w]
<1>1. /\ Memory!Agrees(thread, old, desired) /\ thread' = Memory!Projection(thread, old, desired)
      /\ current \in Threads /\ desired \in Threads /\ old \in Threads \union {None}
      /\ thread \in Threads \union {None}
      /\ old # None => Memory!OfOthers(w, old) \subseteq seen[w]
      /\ desired # <<>>
  BY ThreadOf DEF Memory!Project, MemoryInv, MemoryTypes, Remembered
<1> HIDE DEF desired, old
<1>2. CASE current = old
  BY <1>1, <1>2, NoneIsNoThread
<1>3. CASE current # old /\ thread' = thread
  BY <1>1, <1>3, OthersAre
<1>4. CASE current # old /\ thread' = desired
  <2>1. Memory!MessagesOf(thread') = desired
    BY <1>1, <1>4, NoneIsNoThread DEF Memory!MessagesOf
  <2>2. Memory!Range(current) \subseteq Memory!Range(desired)
    <3>1. CASE current = desired
      BY <3>1
    <3>2. CASE Memory!IsPrefix(current, desired)
      BY <1>1, <3>2, PrefixIsKept
    <3>3. CASE Memory!IsPrefix(desired, current) /\ current # desired
      <4>1. thread' = thread
        BY <1>1, <1>4, <3>3 DEF Memory!Projection, Memory!IsStrictPrefix
      <4>2. Memory!MessagesOf(thread') = current
        BY <4>1
      <4> QED BY <2>1, <4>2
    <3> QED BY <1>1, <1>4, <3>1, <3>2, <3>3 DEF Memory!Agrees
  <2>3. Memory!OfOthers(w, current) \subseteq Memory!Range(current)
    BY <1>1, OthersAre
  <2> QED BY <2>1, <2>2, <2>3
<1> QED BY <1>1, <1>2, <1>3, <1>4 DEF Memory!Projection

-----------------------------------------------------------------------------
(* AgentRuns.  Of one run: calls are under way only while it runs, and what it   *)
(* entered is in its record or among them, in order.                          *)
Stages == [kind : {"tool", "delegation"}, at : {"queued", "entered", "known", "unknown"}]
Pairs == Nat \X Nat
Told(s) == {s[i] : i \in 1..Len(s)}
Before(c, d) == c[1] < d[1] \/ (c[1] = d[1] /\ c[2] < d[2])

Tells(stage, n, calls, told, enteredCalls) ==
  /\ calls # <<>> => stage = "running"
  /\ \A i \in 1..Len(told) : told[i][1] <= n /\ (calls # <<>> => told[i][1] < n)
  /\ \A i, j \in 1..Len(told) : i < j => Before(told[i], told[j])
  /\ enteredCalls \subseteq Told(told) \union {<<n, i>> : i \in 1..Len(calls)}

AgentTypes ==
  /\ status \in [Agents!Slots -> {"idle", "running", "completed", "limit", "failed"}]
  /\ round \in [Agents!Slots -> Nat] /\ batch \in [Agents!Slots -> Seq(Stages)]
  /\ receipts \in [Agents!Slots -> Seq(Pairs)] /\ entered \in [Agents!Slots -> SUBSET Pairs]
  /\ doubted \subseteq Agents!Slots
RunsTell == \A r \in Agents!Slots : Tells(status[r], round[r], batch[r], receipts[r], entered[r])

(* The delegate's run is a call that a member has entered.                     *)
Delegated ==
  /\ caller = <<>> <=> status[0] = "idle"
  /\ caller # <<>> =>
       /\ caller[1] \in 1..Members /\ caller[2] \in 1..Len(batch[caller[1]])
       /\ batch[caller[1]][caller[2]].at = "entered"
       /\ batch[caller[1]][caller[2]].kind = "delegation"
  /\ \A i \in 1..Len(batch[0]) : batch[0][i].kind = "tool"

(* A doubt is on record, or still to be told to the run.                       *)
Doubts ==
  \A r \in doubted :
    \/ status[r] = "failed"
    \/ \E i \in 1..Len(batch[r]) : batch[r][i].at = "unknown"
    \/ caller # <<>> /\ caller[1] = r /\ 0 \in doubted

OneByOne ==
  mode \in {"sequential", "ralph"} =>
    \A q, r \in 1..Members : q < r /\ status[r] # "idle" => status[q] \in {"completed", "limit"}
Finished ==
  crew = "done" /\ mode # "settled" => \A r \in 1..Members : status[r] \in {"completed", "limit"}

AgentsInv == AgentTypes /\ RunsTell /\ Delegated /\ Doubts /\ OneByOne /\ Finished

LEMMA SlotsAre == 0 \in Agents!Slots /\ \A r : r \in Agents!Slots <=> r = 0 \/ r \in 1..Members
BY KernelsAssumption DEF Agents!Slots

LEMMA AgentsTellAll == AgentsInv => Agents!RecordsTellAll /\ Agents!NoDoubtUnderSuccess
<1> SUFFICES ASSUME AgentsInv PROVE Agents!RecordsTellAll /\ Agents!NoDoubtUnderSuccess
  OBVIOUS
<1>1. ASSUME NEW r \in Agents!Slots, status[r] \in Agents!Ended
      PROVE  batch[r] = <<>> /\ (caller # <<>> => caller[1] # r)
  <2>1. batch[r] = <<>>
    BY <1>1 DEF AgentsInv, RunsTell, Tells, Agents!Ended
  <2>2. ~\E i \in 1..Len(batch[r]) : TRUE
    BY <2>1
  <2> QED BY <2>1, <2>2 DEF AgentsInv, Delegated
<1>2. Agents!RecordsTellAll
  <2> SUFFICES ASSUME NEW r \in Agents!Slots, status[r] \in Agents!Ended
               PROVE  /\ entered[r] \subseteq Told(receipts[r])
                      /\ \A i, j \in 1..Len(receipts[r]) : i < j => Before(receipts[r][i], receipts[r][j])
    BY DEF Agents!RecordsTellAll, Told, Before
  <2>1. Tells(status[r], round[r], batch[r], receipts[r], entered[r])
    BY DEF AgentsInv, RunsTell
  <2>2. {<<round[r], i>> : i \in 1..Len(batch[r])} = {}
    BY <1>1
  <2> QED BY <2>1, <2>2 DEF Tells
<1>3. ASSUME NEW r \in Agents!Slots, status[r] \in {"completed", "limit"} PROVE r \notin doubted
  <2>1. batch[r] = <<>> /\ (caller # <<>> => caller[1] # r)
    BY <1>1, <1>3 DEF Agents!Ended
  <2> QED BY <1>3, <2>1 DEF AgentsInv, Doubts
<1>4. ASSUME crew = "done", mode # "settled" PROVE doubted = {}
  <2>1. \A r \in 1..Members : status[r] \in {"completed", "limit"} /\ r \in Agents!Slots
    BY <1>4, SlotsAre DEF AgentsInv, Finished
  <2>2. caller = <<>>
    <3> SUFFICES ASSUME caller # <<>> PROVE FALSE
      OBVIOUS
    <3>1. caller[1] \in 1..Members
      BY DEF AgentsInv, Delegated
    <3> QED BY <1>1, <2>1, <3>1 DEF Agents!Ended
  <2>3. status[0] = "idle"
    BY <2>2 DEF AgentsInv, Delegated
  <2>4. batch[0] = <<>>
    BY <2>3, SlotsAre DEF AgentsInv, RunsTell, Tells
  <2>5. 0 \notin doubted
    BY <2>2, <2>3, <2>4 DEF AgentsInv, Doubts
  <2> QED BY Zenon, <1>3, <2>1, <2>5, SlotsAre DEF AgentsInv, AgentTypes
<1> QED BY <1>2, <1>3, <1>4 DEF Agents!NoDoubtUnderSuccess

LEMMA AgentsStart == Agents!Init => AgentsInv
<1> SUFFICES ASSUME Agents!Init PROVE AgentsInv
  OBVIOUS
<1>1. /\ batch = [r \in Agents!Slots |-> <<>>] /\ receipts = [r \in Agents!Slots |-> <<>>]
      /\ entered = [r \in Agents!Slots |-> {}] /\ round = [r \in Agents!Slots |-> 0]
      /\ caller = <<>> /\ doubted = {} /\ crew = "running"
      /\ status = [r \in Agents!Slots |-> IF r = 1 \/ (r > 1 /\ mode \in {"parallel", "settled"})
                                            THEN "running" ELSE "idle"]
  BY DEF Agents!Init
<1>2. <<>> \in Seq(Stages) /\ <<>> \in Seq(Pairs) /\ Len(<<>>) = 0 /\ 0 \in Agents!Slots
  BY SlotsAre
<1>3. AgentTypes
  BY <1>1, <1>2 DEF AgentTypes
<1>4. RunsTell
  BY <1>1, <1>2 DEF RunsTell, Tells, Told
<1>5. Delegated
  BY <1>1, <1>2 DEF Delegated
<1>6. OneByOne
  <2> SUFFICES ASSUME mode \in {"sequential", "ralph"}, NEW q \in 1..Members, NEW r \in 1..Members,
                      q < r, status[r] # "idle"
               PROVE  FALSE
    BY DEF OneByOne
  <2>1. r \in Agents!Slots /\ r # 1 /\ mode \notin {"parallel", "settled"}
    BY SlotsAre
  <2> QED BY <1>1, <2>1
<1> QED BY <1>1, <1>3, <1>4, <1>5, <1>6 DEF AgentsInv, Doubts, Finished

(* A run ends, with no call under way.                                       *)
LEMMA RunEndsStep ==
  ASSUME AgentsInv, NEW r \in Agents!Slots, NEW as \in {"completed", "limit", "failed"},
         batch[r] = <<>>, status[r] = "running", status' = [status EXCEPT ![r] = as],
         round' \in {round, [round EXCEPT ![r] = @ + 1]},
         UNCHANGED <<mode, crew, batch, receipts, entered, caller, doubted>>
  PROVE  AgentsInv'
<1>1. /\ status \in [Agents!Slots -> {"idle", "running", "completed", "limit", "failed"}]
      /\ round \in [Agents!Slots -> Nat]
  BY DEF AgentsInv, AgentTypes
<1>2. /\ status' \in [Agents!Slots -> {"idle", "running", "completed", "limit", "failed"}]
      /\ status'[r] = as /\ \A q \in Agents!Slots : q # r => status'[q] = status[q]
      /\ round' \in [Agents!Slots -> Nat] /\ \A q \in Agents!Slots : q # r => round'[q] = round[q]
      /\ round'[r] \in {round[r], round[r] + 1}
  <2>1. /\ status' \in [Agents!Slots -> {"idle", "running", "completed", "limit", "failed"}]
        /\ status'[r] = as /\ \A q \in Agents!Slots : q # r => status'[q] = status[q]
    BY Zenon, <1>1
  <2>2. round[r] \in Nat /\ round[r] + 1 \in Nat
    BY <1>1
  <2>3. round' = round \/ round' = [round EXCEPT ![r] = round[r] + 1]
    OBVIOUS
  <2> QED BY Zenon, <1>1, <2>1, <2>2, <2>3
<1>3. AgentTypes'
  BY Zenon, <1>2 DEF AgentsInv, AgentTypes
<1>4. RunsTell'
  <2> SUFFICES ASSUME NEW q \in Agents!Slots
               PROVE  Tells(status'[q], round'[q], batch[q], receipts[q], entered[q])
    BY Zenon DEF RunsTell
  <2>1. Tells(status[q], round[q], batch[q], receipts[q], entered[q])
    BY DEF AgentsInv, RunsTell
  <2>2. CASE q # r
    BY <1>2, <2>1, <2>2
  <2>3. CASE q = r
    <3>1. {<<round[r], i>> : i \in 1..Len(batch[r])} = {}
      OBVIOUS
    <3>2. entered[r] \subseteq Told(receipts[r])
      BY <2>1, <2>3, <3>1 DEF Tells
    <3>3. \A i \in 1..Len(receipts[r]) : receipts[r][i][1] <= round[r] /\ receipts[r][i][1] \in Nat
      <4>1. receipts[r] \in Seq(Pairs)
        BY DEF AgentsInv, AgentTypes
      <4>2. \A i \in 1..Len(receipts[r]) : receipts[r][i] \in Pairs
        BY <4>1, LenProperties
      <4> QED BY Zenon, <2>1, <2>3, <4>2 DEF Tells, Pairs
    <3>4. \A i \in 1..Len(receipts[r]) : receipts[r][i][1] <= round'[r]
      <4>1. \A x, n \in Nat : x <= n => x <= n + 1
        OBVIOUS
      <4>2. round[r] \in Nat
        BY <1>1
      <4> QED BY <1>2, <3>3, <4>1, <4>2
    <3> QED BY Zenon, <2>1, <2>3, <3>2, <3>4 DEF Tells
  <2> QED BY Zenon, <2>2, <2>3
<1>5. Delegated'
  BY Zenon, <1>2, SlotsAre DEF AgentsInv, Delegated
<1>6. Doubts'
  <2> SUFFICES ASSUME NEW q \in doubted, status[q] = "failed" PROVE status'[q] = "failed"
    BY Zenon DEF AgentsInv, Doubts
  <2> QED BY Zenon, <1>2 DEF AgentsInv, AgentTypes
<1>7. OneByOne'
  <2> SUFFICES ASSUME mode \in {"sequential", "ralph"}, NEW q \in 1..Members, NEW p \in 1..Members, q < p,
                      status'[p] # "idle"
               PROVE  status'[q] \in {"completed", "limit"}
    BY Zenon DEF OneByOne
  <2>1. q \in Agents!Slots /\ p \in Agents!Slots /\ status[p] # "idle"
    BY Zenon, <1>2, SlotsAre
  <2>2. status[q] \in {"completed", "limit"}
    BY <2>1 DEF AgentsInv, OneByOne
  <2> QED BY Zenon, <1>2, <2>1, <2>2
<1>8. Finished'
  BY Zenon, <1>2, SlotsAre DEF AgentsInv, Finished
<1> QED BY <1>3, <1>4, <1>5, <1>6, <1>7, <1>8 DEF AgentsInv

(* The answer asks for calls: they are of a round of their own.                *)
LEMMA CallsStep ==
  ASSUME AgentsInv, NEW r \in Agents!Slots, Agents!Calls(r)
  PROVE  AgentsInv'
<1>0. PICK n \in 1..MaxCalls[r] :
        \E kinds \in [1..n -> {"tool"} \union IF r = 0 THEN {} ELSE {"delegation"}] :
          batch' = [batch EXCEPT ![r] = [i \in 1..n |-> [kind |-> kinds[i], at |-> "queued"]]]
  BY Zenon DEF Agents!Calls, Agents!Delegate
<1>1. PICK kinds \in [1..n -> {"tool"} \union IF r = 0 THEN {} ELSE {"delegation"}] :
        batch' = [batch EXCEPT ![r] = [i \in 1..n |-> [kind |-> kinds[i], at |-> "queued"]]]
  BY Zenon, <1>0
<1>2. /\ status[r] = "running" /\ batch[r] = <<>> /\ round' = [round EXCEPT ![r] = @ + 1]
      /\ UNCHANGED <<mode, crew, status, receipts, entered, caller, doubted>>
  BY DEF Agents!Calls, Agents!Asking
<1> DEFINE calls == [i \in 1..n |-> [kind |-> kinds[i], at |-> "queued"]]
<1>3. /\ batch \in [Agents!Slots -> Seq(Stages)] /\ round \in [Agents!Slots -> Nat]
      /\ receipts \in [Agents!Slots -> Seq(Pairs)]
  BY DEF AgentsInv, AgentTypes
<1>4. n \in Nat
  BY KernelsAssumption DEF Agents!Slots
<1>5. /\ calls \in Seq(Stages) /\ Len(calls) = n
      /\ \A i \in 1..n : r = 0 => calls[i].kind = "tool"
  BY <1>4 DEF Stages
<1> HIDE DEF calls
<1>6. /\ batch' \in [Agents!Slots -> Seq(Stages)] /\ batch'[r] = calls
      /\ \A q \in Agents!Slots : q # r => batch'[q] = batch[q]
      /\ round' \in [Agents!Slots -> Nat] /\ round'[r] = round[r] + 1
      /\ \A q \in Agents!Slots : q # r => round'[q] = round[q]
  BY <1>1, <1>2, <1>3, <1>5 DEF calls
<1>7. AgentTypes'
  BY <1>2, <1>6 DEF AgentsInv, AgentTypes
<1>8. RunsTell'
  <2> SUFFICES ASSUME NEW q \in Agents!Slots
               PROVE  Tells(status[q], round'[q], batch'[q], receipts[q], entered[q])
    BY <1>2 DEF RunsTell
  <2>1. Tells(status[q], round[q], batch[q], receipts[q], entered[q])
    BY DEF AgentsInv, RunsTell
  <2>2. CASE q # r
    BY <1>6, <2>1, <2>2
  <2>3. CASE q = r
    <3>1. {<<round[r], i>> : i \in 1..Len(batch[r])} = {}
      BY <1>2
    <3>2. entered[r] \subseteq Told(receipts[r])
      BY <2>1, <2>3, <3>1 DEF Tells
    <3>3. \A i \in 1..Len(receipts[r]) : receipts[r][i][1] <= round[r] /\ receipts[r][i][1] \in Nat
      <4>1. \A i \in 1..Len(receipts[r]) : receipts[r][i] \in Pairs
        BY <1>3, LenProperties
      <4> QED BY <2>1, <2>3, <4>1 DEF Tells, Pairs
    <3>4. \A i \in 1..Len(receipts[r]) : receipts[r][i][1] <= round'[r] /\ receipts[r][i][1] < round'[r]
      <4>1. \A x, k \in Nat : x <= k => x <= k + 1 /\ x < k + 1
        OBVIOUS
      <4>2. round[r] \in Nat
        BY <1>3
      <4> QED BY Zenon, <1>6, <3>3, <4>1, <4>2
    <3> QED BY <1>2, <2>1, <2>3, <3>2, <3>4 DEF Tells
  <2> QED BY <2>2, <2>3
<1>9. \A i \in 1..Len(batch[r]) : FALSE
  BY <1>2
<1>10. Delegated'
  <2>1. caller # <<>> => caller[1] # r /\ caller[1] \in Agents!Slots
    BY <1>9, SlotsAre DEF AgentsInv, Delegated
  <2>2. \A i \in 1..Len(batch'[0]) : batch'[0][i].kind = "tool"
    BY <1>5, <1>6, SlotsAre DEF AgentsInv, Delegated
  <2> QED BY Zenon, <1>2, <1>6, <2>1, <2>2 DEF AgentsInv, Delegated
<1>11. Doubts'
  <2> SUFFICES ASSUME NEW q \in doubted, \E i \in 1..Len(batch[q]) : batch[q][i].at = "unknown"
               PROVE  \E i \in 1..Len(batch'[q]) : batch'[q][i].at = "unknown"
    BY <1>2 DEF AgentsInv, Doubts
  <2>1. q # r /\ q \in Agents!Slots
    BY <1>9 DEF AgentsInv, AgentTypes
  <2> QED BY <1>6, <2>1
<1>12. OneByOne' /\ Finished'
  BY <1>2 DEF AgentsInv, OneByOne, Finished
<1> QED BY <1>7, <1>8, <1>10, <1>11, <1>12 DEF AgentsInv

(* One call of a batch gets further.                                         *)
LEMMA MovesTo ==
  ASSUME AgentsInv, NEW r \in Agents!Slots, NEW i, NEW from,
         NEW to \in {"queued", "entered", "known", "unknown"}, Agents!Moves(r, i, from, to)
  PROVE  /\ i \in 1..Len(batch[r]) /\ batch[r][i].at = from /\ status[r] = "running" /\ i \in Nat
         /\ batch' \in [Agents!Slots -> Seq(Stages)]
         /\ \A q \in Agents!Slots : q # r => batch'[q] = batch[q]
         /\ Len(batch'[r]) = Len(batch[r]) /\ batch[r] # <<>>
         /\ batch'[r][i].at = to
         /\ \A j \in 1..Len(batch[r]) : /\ batch'[r][j].kind = batch[r][j].kind
                                        /\ j # i => batch'[r][j] = batch[r][j]
<1>1. /\ i \in 1..Len(batch[r]) /\ batch[r][i].at = from /\ batch' = [batch EXCEPT ![r][i].at = to]
  BY DEF Agents!Moves
<1>2. batch \in [Agents!Slots -> Seq(Stages)] /\ Tells(status[r], round[r], batch[r], receipts[r], entered[r])
  BY DEF AgentsInv, AgentTypes, RunsTell
<1> DEFINE s == batch[r]
           x == [s[i] EXCEPT !.at = to]
           t == [s EXCEPT ![i] = x]
<1>3. s \in Seq(Stages) /\ \A j \in 1..Len(s) : s[j] \in Stages
  BY <1>2, LenProperties
<1>4. x \in Stages /\ x.at = to /\ x.kind = s[i].kind
  BY Zenon, <1>1, <1>3 DEF Stages
<1>5. batch' = [batch EXCEPT ![r] = t]
  BY <1>1
<1>6. i \in 1..Len(s)
  BY <1>1
<1> HIDE DEF s, x
<1>7. t \in Seq(Stages) /\ Len(t) = Len(s) /\ \A j \in 1..Len(s) : t[j] = IF j = i THEN x ELSE s[j]
  BY <1>3, <1>4, <1>6, ExceptSeq
<1>8. s # <<>> /\ i \in Nat
  BY <1>3, <1>6, EmptySeq, LenProperties
<1> HIDE DEF t
<1>9. /\ batch' \in [Agents!Slots -> Seq(Stages)] /\ batch'[r] = t
      /\ \A q \in Agents!Slots : q # r => batch'[q] = batch[q]
  BY <1>2, <1>5, <1>7
<1>10. \A j \in 1..Len(s) : batch'[r][j].kind = s[j].kind /\ (j # i => batch'[r][j] = s[j])
  BY <1>4, <1>7, <1>9
<1>11. status[r] = "running"
  BY <1>2, <1>8 DEF Tells, s
<1>12. batch'[r][i].at = to /\ Len(batch'[r]) = Len(s)
  BY <1>4, <1>6, <1>7, <1>9
<1> QED BY <1>1, <1>8, <1>9, <1>10, <1>11, <1>12 DEF s

(* ... and its run still tells.                                              *)
LEMMA StillTells ==
  ASSUME AgentsInv, NEW r \in Agents!Slots, NEW i \in 1..Len(batch[r]), status[r] = "running",
         batch[r] # <<>>,
         Len(batch'[r]) = Len(batch[r]), \A q \in Agents!Slots : q # r => batch'[q] = batch[q],
         \A q \in Agents!Slots : status'[q] = status[q] \/ (batch[q] = <<>> /\ q # r),
         status'[r] = "running",
         entered' \in {entered, [entered EXCEPT ![r] = @ \union {<<round[r], i>>}]},
         UNCHANGED <<round, receipts>>
  PROVE  RunsTell'
<1> SUFFICES ASSUME NEW q \in Agents!Slots
             PROVE  Tells(status'[q], round[q], batch'[q], receipts[q], entered'[q])
  BY DEF RunsTell
<1>1. Tells(status[q], round[q], batch[q], receipts[q], entered[q])
  BY DEF AgentsInv, RunsTell
<1>2. entered \in [Agents!Slots -> SUBSET Pairs]
  BY DEF AgentsInv, AgentTypes
<1>3. CASE q # r
  <2>1. batch'[q] = batch[q] /\ entered'[q] = entered[q] /\ (status'[q] = status[q] \/ batch[q] = <<>>)
    BY <1>2, <1>3
  <2> QED BY <1>1, <2>1 DEF Tells
<1>4. CASE q = r
  <2>1. entered'[r] \subseteq entered[r] \union {<<round[r], i>>}
    BY <1>2
  <2>2. <<round[r], i>> \in {<<round[r], j>> : j \in 1..Len(batch[r])}
    OBVIOUS
  <2> QED BY <1>1, <1>4, <2>1, <2>2 DEF Tells
<1> QED BY <1>3, <1>4

(* A call is refused, or a tool answers (agents.ts 313-402).                  *)
LEMMA CallEndsStep ==
  ASSUME AgentsInv, NEW r \in Agents!Slots, NEW i, NEW from \in {"queued", "entered"},
         NEW to \in {"known", "unknown"}, Agents!Moves(r, i, from, to),
         from = "entered" => batch[r][i].kind = "tool",
         doubted' = IF to = "unknown" THEN doubted \union Agents!Under(r) ELSE doubted,
         UNCHANGED <<mode, crew, status, round, receipts, entered, caller>>
  PROVE  AgentsInv'
<1>1. /\ i \in 1..Len(batch[r]) /\ batch[r][i].at = from /\ status[r] = "running"
      /\ batch' \in [Agents!Slots -> Seq(Stages)]
      /\ \A q \in Agents!Slots : q # r => batch'[q] = batch[q]
      /\ Len(batch'[r]) = Len(batch[r]) /\ batch[r] # <<>> /\ batch'[r][i].at = to
      /\ \A j \in 1..Len(batch[r]) : /\ batch'[r][j].kind = batch[r][j].kind
                                     /\ j # i => batch'[r][j] = batch[r][j]
  BY MovesTo
<1>2. RunsTell'
  <2>1. i \in 1..Len(batch[r])
    BY <1>1
  <2>2. status'[r] = "running" /\ \A q \in Agents!Slots : status'[q] = status[q]
    BY <1>1
  <2>3. entered' = entered /\ UNCHANGED <<round, receipts>>
    OBVIOUS
  <2> QED BY <1>1, <2>1, <2>2, <2>3, StillTells
<1>3. /\ doubted \subseteq Agents!Slots /\ doubted' \subseteq Agents!Slots
      /\ \A q \in doubted' :
           \/ q \in doubted
           \/ to = "unknown" /\ q = r
           \/ to = "unknown" /\ r = 0 /\ caller # <<>> /\ q = caller[1]
      /\ to = "unknown" => r \in doubted'
      /\ doubted \subseteq doubted'
  <2>1. doubted \subseteq Agents!Slots /\ (caller # <<>> => caller[1] \in Agents!Slots)
    BY SlotsAre DEF AgentsInv, AgentTypes, Delegated
  <2>2. /\ r \in Agents!Under(r)
        /\ \A q \in Agents!Under(r) : q = r \/ (r = 0 /\ caller # <<>> /\ q = caller[1])
    BY DEF Agents!Under, Agents!Delegate
  <2>3. CASE to = "unknown"
    <3>1. doubted' = doubted \union Agents!Under(r)
      BY <2>3
    <3> QED BY <2>1, <2>2, <2>3, <3>1
  <2>4. CASE to # "unknown"
    BY <2>1, <2>4
  <2> QED BY <2>3, <2>4
<1>4. AgentTypes'
  BY <1>1, <1>3 DEF AgentsInv, AgentTypes
<1>5. Delegated'
  <2>1. ASSUME caller # <<>>
        PROVE  /\ caller[1] \in 1..Members /\ caller[2] \in 1..Len(batch'[caller[1]])
               /\ batch'[caller[1]][caller[2]].at = "entered"
               /\ batch'[caller[1]][caller[2]].kind = "delegation"
    <3>1. /\ caller[1] \in 1..Members /\ caller[2] \in 1..Len(batch[caller[1]])
          /\ batch[caller[1]][caller[2]].at = "entered" /\ batch[caller[1]][caller[2]].kind = "delegation"
      BY <2>1 DEF AgentsInv, Delegated
    <3>2. caller[1] \in Agents!Slots
      BY <3>1, SlotsAre
    <3>3. caller[1] = r => caller[2] # i
      BY <1>1, <3>1
    <3> QED BY <1>1, <3>1, <3>2, <3>3
  <2>2. \A j \in 1..Len(batch'[0]) : batch'[0][j].kind = "tool"
    BY <1>1, SlotsAre DEF AgentsInv, Delegated
  <2> QED BY <2>1, <2>2 DEF AgentsInv, Delegated
<1>6. Doubts'
  <2> SUFFICES ASSUME NEW q \in doubted'
               PROVE  \/ status[q] = "failed"
                      \/ \E j \in 1..Len(batch'[q]) : batch'[q][j].at = "unknown"
                      \/ caller # <<>> /\ caller[1] = q /\ 0 \in doubted'
    BY DEF Doubts
  <2>1. CASE to = "unknown" /\ q = r
    BY <1>1, <2>1
  <2>2. CASE to = "unknown" /\ r = 0 /\ caller # <<>> /\ q = caller[1]
    BY <1>3, <2>2
  <2>3. CASE q \in doubted /\ \E j \in 1..Len(batch[q]) : batch[q][j].at = "unknown"
    <3>1. PICK j \in 1..Len(batch[q]) : batch[q][j].at = "unknown"
      BY <2>3
    <3>2. q = r => j # i
      BY <1>1, <3>1
    <3>3. j \in 1..Len(batch'[q]) /\ batch'[q][j].at = "unknown"
      BY <1>1, <1>3, <2>3, <3>1, <3>2
    <3> QED BY <3>3
  <2>4. CASE q \in doubted /\ ~\E j \in 1..Len(batch[q]) : batch[q][j].at = "unknown"
    BY <1>3, <2>4 DEF AgentsInv, Doubts
  <2> QED BY <1>3, <2>1, <2>2, <2>3, <2>4
<1>7. OneByOne' /\ Finished'
  BY DEF AgentsInv, OneByOne, Finished
<1> QED BY <1>2, <1>4, <1>5, <1>6, <1>7 DEF AgentsInv

(* A handler is entered; the delegate's is its run.                            *)
LEMMA EnterCallStep ==
  ASSUME AgentsInv, NEW r \in Agents!Slots, NEW i, Agents!Enter(r, i)
  PROVE  AgentsInv'
<1>1. /\ Agents!Moves(r, i, "queued", "entered")
      /\ entered' = [entered EXCEPT ![r] = @ \union {<<round[r], i>>}]
      /\ UNCHANGED <<mode, crew, round, receipts, doubted>>
      /\ \/ /\ batch[r][i].kind = "delegation" /\ status[0] = "idle" /\ caller' = <<r, i>>
            /\ status' = [status EXCEPT ![0] = "running"]
         \/ UNCHANGED <<status, caller>>
  BY DEF Agents!Enter, Agents!Delegate
<1>2. /\ i \in 1..Len(batch[r]) /\ batch[r][i].at = "queued" /\ status[r] = "running" /\ i \in Nat
      /\ batch' \in [Agents!Slots -> Seq(Stages)]
      /\ \A q \in Agents!Slots : q # r => batch'[q] = batch[q]
      /\ Len(batch'[r]) = Len(batch[r]) /\ batch[r] # <<>> /\ batch'[r][i].at = "entered"
      /\ \A j \in 1..Len(batch[r]) : /\ batch'[r][j].kind = batch[r][j].kind
                                     /\ j # i => batch'[r][j] = batch[r][j]
  BY <1>1, MovesTo
<1>3. /\ status \in [Agents!Slots -> {"idle", "running", "completed", "limit", "failed"}]
      /\ entered \in [Agents!Slots -> SUBSET Pairs] /\ round[r] \in Nat /\ 0 \in Agents!Slots
      /\ doubted \subseteq Agents!Slots
  BY SlotsAre DEF AgentsInv, AgentTypes
<1>4. /\ status' \in [Agents!Slots -> {"idle", "running", "completed", "limit", "failed"}]
      /\ \A q \in Agents!Slots : status'[q] = status[q] \/ (q = 0 /\ status[0] = "idle" /\ status'[0] = "running")
  BY <1>1, <1>3
<1>5. entered' \in [Agents!Slots -> SUBSET Pairs]
  <2>1. <<round[r], i>> \in Pairs
    BY <1>2, <1>3 DEF Pairs
  <2> QED BY <1>1, <1>3, <2>1
<1>6. AgentTypes'
  BY <1>1, <1>2, <1>4, <1>5 DEF AgentsInv, AgentTypes
<1>7. status[0] = "idle" => batch[0] = <<>> /\ r # 0
  BY <1>2, <1>3 DEF AgentsInv, RunsTell, Tells
<1>8. RunsTell'
  <2>1. ASSUME NEW q \in Agents!Slots PROVE status'[q] = status[q] \/ (batch[q] = <<>> /\ q # r)
    <3>1. CASE status'[q] = status[q]
      BY <3>1
    <3>2. CASE q = 0 /\ status[0] = "idle"
      BY <1>7, <3>2
    <3> QED BY <1>4, <3>1, <3>2
  <2>2. status'[r] = "running"
    BY <1>2, <1>4
  <2> QED BY Zenon, <1>1, <1>2, <2>1, <2>2, StillTells
<1>9. Delegated'
  <2>1. \A j \in 1..Len(batch'[0]) : batch'[0][j].kind = "tool"
    BY <1>2, SlotsAre DEF AgentsInv, Delegated
  <2>2. CASE UNCHANGED <<status, caller>>
    <3>1. ASSUME caller # <<>>
          PROVE  /\ caller[1] \in 1..Members /\ caller[2] \in 1..Len(batch'[caller[1]])
                 /\ batch'[caller[1]][caller[2]].at = "entered"
                 /\ batch'[caller[1]][caller[2]].kind = "delegation"
      <4>1. /\ caller[1] \in 1..Members /\ caller[2] \in 1..Len(batch[caller[1]])
            /\ batch[caller[1]][caller[2]].at = "entered" /\ batch[caller[1]][caller[2]].kind = "delegation"
        BY <3>1 DEF AgentsInv, Delegated
      <4>2. caller[1] \in Agents!Slots /\ (caller[1] = r => caller[2] # i)
        BY Zenon, <1>2, <4>1, SlotsAre
      <4> QED BY Zenon, <1>2, <4>1, <4>2
    <3> QED BY <2>1, <2>2, <3>1 DEF AgentsInv, Delegated
  <2>3. CASE /\ batch[r][i].kind = "delegation" /\ status[0] = "idle" /\ caller' = <<r, i>>
             /\ status' = [status EXCEPT ![0] = "running"]
    <3>1. caller' # <<>> /\ caller'[1] = r /\ caller'[2] = i /\ r \in 1..Members
      BY <1>7, <2>3, SlotsAre
    <3>2. status'[0] = "running"
      BY <1>3, <2>3
    <3>3. i \in 1..Len(batch'[r]) /\ batch'[r][i].at = "entered" /\ batch'[r][i].kind = "delegation"
      BY <1>2, <2>3
    <3> QED BY <2>1, <3>1, <3>2, <3>3 DEF Delegated
  <2> QED BY <1>1, <2>2, <2>3
<1>10. Doubts'
  <2> SUFFICES ASSUME NEW q \in doubted
               PROVE  \/ status'[q] = "failed"
                      \/ \E j \in 1..Len(batch'[q]) : batch'[q][j].at = "unknown"
                      \/ caller' # <<>> /\ caller'[1] = q /\ 0 \in doubted
    BY <1>1 DEF Doubts
  <2>1. CASE status[q] = "failed"
    BY <1>3, <1>4, <2>1
  <2>2. CASE \E j \in 1..Len(batch[q]) : batch[q][j].at = "unknown"
    <3>1. PICK j \in 1..Len(batch[q]) : batch[q][j].at = "unknown"
      BY <2>2
    <3>2. q = r => j # i
      BY <1>2, <3>1
    <3>3. j \in 1..Len(batch'[q]) /\ batch'[q][j].at = "unknown"
      BY <1>2, <1>3, <3>1, <3>2
    <3> QED BY <3>3
  <2>3. CASE caller # <<>> /\ caller[1] = q /\ 0 \in doubted
    <3>1. status[0] # "idle"
      BY <2>3 DEF AgentsInv, Delegated
    <3> QED BY <1>1, <2>3, <3>1
  <2> QED BY <2>1, <2>2, <2>3 DEF AgentsInv, Doubts
<1>11. OneByOne' /\ Finished'
  <2>1. \A q \in 1..Members : status'[q] = status[q]
    BY <1>4, SlotsAre
  <2> QED BY <1>1, <2>1 DEF AgentsInv, OneByOne, Finished
<1> QED BY <1>6, <1>8, <1>9, <1>10, <1>11 DEF AgentsInv

(* The delegate's run ends, and the call with it, in doubt if it failed.        *)
LEMMA DelegateEndsStep ==
  ASSUME AgentsInv, Agents!DelegateEnds
  PROVE  AgentsInv'
<1> DEFINE m == caller[1]
           i == caller[2]
           to == IF status[0] = "failed" THEN "unknown" ELSE "known"
<1>1. /\ status[0] \in {"completed", "limit", "failed"} /\ caller # <<>> /\ caller' = <<>>
      /\ Agents!Moves(m, i, "entered", to)
      /\ status' = [status EXCEPT ![0] = "idle"] /\ round' = [round EXCEPT ![0] = 0]
      /\ receipts' = [receipts EXCEPT ![0] = <<>>] /\ entered' = [entered EXCEPT ![0] = {}]
      /\ doubted' = doubted \ {0} /\ UNCHANGED <<mode, crew>>
  BY DEF Agents!DelegateEnds, Agents!Delegate, Agents!Ended, Agents!Forgotten
<1>2. m \in 1..Members /\ m \in Agents!Slots /\ m # 0 /\ 0 \in Agents!Slots
  BY <1>1, SlotsAre DEF AgentsInv, Delegated
<1>3. to \in {"known", "unknown"}
  OBVIOUS
<1>4. batch[0] = <<>>
  BY <1>1, <1>2 DEF AgentsInv, RunsTell, Tells
<1>5. \A j \in 1..Len(batch[0]) : FALSE
  BY <1>4
<1>6. 0 \in doubted => to = "unknown"
  BY <1>1, <1>2, <1>5 DEF AgentsInv, Doubts
<1> HIDE DEF m, i, to
<1>7. /\ i \in 1..Len(batch[m]) /\ batch[m][i].at = "entered"
      /\ batch' \in [Agents!Slots -> Seq(Stages)]
      /\ \A q \in Agents!Slots : q # m => batch'[q] = batch[q]
      /\ Len(batch'[m]) = Len(batch[m]) /\ batch[m] # <<>> /\ batch'[m][i].at = to
      /\ \A j \in 1..Len(batch[m]) : j # i => batch'[m][j] = batch[m][j]
      /\ status[m] = "running"
  BY <1>1, <1>2, <1>3, MovesTo
<1>8. /\ status \in [Agents!Slots -> {"idle", "running", "completed", "limit", "failed"}]
      /\ round \in [Agents!Slots -> Nat] /\ receipts \in [Agents!Slots -> Seq(Pairs)]
      /\ entered \in [Agents!Slots -> SUBSET Pairs] /\ doubted \subseteq Agents!Slots
  BY DEF AgentsInv, AgentTypes
<1>9. /\ status' \in [Agents!Slots -> {"idle", "running", "completed", "limit", "failed"}]
      /\ round' \in [Agents!Slots -> Nat] /\ receipts' \in [Agents!Slots -> Seq(Pairs)]
      /\ entered' \in [Agents!Slots -> SUBSET Pairs]
      /\ status'[0] = "idle" /\ receipts'[0] = <<>> /\ entered'[0] = {}
      /\ \A q \in Agents!Slots : q # 0 => /\ status'[q] = status[q] /\ round'[q] = round[q]
                                        /\ receipts'[q] = receipts[q] /\ entered'[q] = entered[q]
  BY <1>1, <1>2, <1>8
<1>10. AgentTypes'
  BY <1>1, <1>7, <1>8, <1>9 DEF AgentTypes
<1>11. RunsTell'
  <2> SUFFICES ASSUME NEW q \in Agents!Slots
               PROVE  Tells(status'[q], round'[q], batch'[q], receipts'[q], entered'[q])
    BY DEF RunsTell
  <2>1. Tells(status[q], round[q], batch[q], receipts[q], entered[q])
    BY DEF AgentsInv, RunsTell
  <2>2. CASE q = 0
    BY <1>2, <1>4, <1>7, <1>9, <2>2 DEF Tells, Told
  <2>3. CASE q # 0 /\ q # m
    BY <1>7, <1>9, <2>1, <2>3
  <2>4. CASE q = m
    <3>1. /\ status'[q] = "running" /\ batch[q] # <<>> /\ Len(batch'[q]) = Len(batch[q])
          /\ round'[q] = round[q] /\ receipts'[q] = receipts[q] /\ entered'[q] = entered[q]
      BY <1>2, <1>7, <1>9, <2>4
    <3>2. {<<round[q], j>> : j \in 1..Len(batch'[q])} = {<<round[q], j>> : j \in 1..Len(batch[q])}
      BY <3>1
    <3> QED BY <2>1, <3>1, <3>2 DEF Tells
  <2> QED BY <2>2, <2>3, <2>4
<1>12. Delegated'
  <2>1. batch'[0] = batch[0]
    BY <1>2, <1>7
  <2> QED BY <1>1, <1>5, <1>9, <2>1 DEF Delegated
<1>13. Doubts'
  <2> SUFFICES ASSUME NEW q \in doubted, q # 0
               PROVE  \/ status'[q] = "failed"
                      \/ \E j \in 1..Len(batch'[q]) : batch'[q][j].at = "unknown"
    BY <1>1 DEF Doubts
  <2>1. CASE status[q] = "failed"
    BY <1>8, <1>9, <2>1
  <2>2. CASE \E j \in 1..Len(batch[q]) : batch[q][j].at = "unknown"
    <3>1. PICK j \in 1..Len(batch[q]) : batch[q][j].at = "unknown"
      BY <2>2
    <3>2. q = m => j # i
      BY <1>7, <3>1
    <3>3. j \in 1..Len(batch'[q]) /\ batch'[q][j].at = "unknown"
      BY <1>7, <1>8, <3>1, <3>2
    <3> QED BY <3>3
  <2>3. CASE caller[1] = q /\ 0 \in doubted
    BY Zenon, <1>6, <1>7, <2>3 DEF m
  <2> QED BY <2>1, <2>2, <2>3 DEF AgentsInv, Doubts
<1>14. OneByOne' /\ Finished'
  <2>1. \A q \in 1..Members : status'[q] = status[q]
    BY <1>9, SlotsAre, KernelsAssumption
  <2> QED BY <1>1, <2>1 DEF AgentsInv, OneByOne, Finished
<1> QED BY <1>10, <1>11, <1>12, <1>13, <1>14 DEF AgentsInv

(* The receipts of a round follow those of the rounds before.                  *)
LEMMA RecordedNext ==
  ASSUME NEW s \in Seq(Pairs), NEW n \in Nat, NEW k \in Nat, NEW recs,
         recs = [i \in 1..k |-> <<n, i>>],
         \A i \in 1..Len(s) : s[i][1] < n,
         \A i, j \in 1..Len(s) : i < j => Before(s[i], s[j])
  PROVE  /\ s \o recs \in Seq(Pairs)
         /\ \A i \in 1..Len(s \o recs) : (s \o recs)[i][1] <= n
         /\ \A i, j \in 1..Len(s \o recs) : i < j => Before((s \o recs)[i], (s \o recs)[j])
         /\ Told(s) \union {<<n, i>> : i \in 1..k} \subseteq Told(s \o recs)
<1>1. recs \in Seq(Pairs) /\ Len(recs) = k /\ \A i \in 1..k : recs[i] = <<n, i>>
  BY DEF Pairs
<1>2. Len(s) \in Nat /\ \A i \in 1..Len(s) : s[i] \in Pairs
  BY LenProperties
<1> DEFINE t == s \o recs
<1>3. /\ t \in Seq(Pairs) /\ Len(t) = Len(s) + k
      /\ \A i \in 1..(Len(s) + k) : t[i] = IF i <= Len(s) THEN s[i] ELSE recs[i - Len(s)]
  <2> HIDE DEF t
  <2>1. t = s \o recs
    BY DEF t
  <2> QED BY <1>1, <2>1, ConcatProperties
<1> HIDE DEF t
<1>4. /\ \A i \in 1..Len(s) : i \in 1..Len(t) /\ t[i] = s[i]
      /\ \A i \in 1..k : Len(s) + i \in 1..Len(t) /\ t[Len(s) + i] = <<n, i>>
  <2>1. ASSUME NEW i \in 1..Len(s) PROVE i \in 1..Len(t) /\ t[i] = s[i]
    <3>1. i \in 1..(Len(s) + k) /\ i <= Len(s)
      BY <1>2
    <3>2. t[i] = IF i <= Len(s) THEN s[i] ELSE recs[i - Len(s)]
      BY Zenon, <1>3, <3>1
    <3> QED BY <1>3, <3>1, <3>2
  <2>2. ASSUME NEW i \in 1..k PROVE Len(s) + i \in 1..Len(t) /\ t[Len(s) + i] = <<n, i>>
    <3>1. Len(s) + i \in 1..(Len(s) + k) /\ ~(Len(s) + i <= Len(s)) /\ Len(s) + i - Len(s) = i
      BY <1>2
    <3>2. t[Len(s) + i] = IF Len(s) + i <= Len(s) THEN s[Len(s) + i] ELSE recs[Len(s) + i - Len(s)]
      BY <1>3, <3>1
    <3>3. t[Len(s) + i] = recs[i]
      BY <3>1, <3>2
    <3> QED BY <1>1, <1>3, <3>1, <3>3
  <2> QED BY Zenon, <2>1, <2>2
<1>5. \A i \in 1..Len(t) : i \in 1..Len(s) \/ \E j \in 1..k : i = Len(s) + j
  <2> SUFFICES ASSUME NEW i \in 1..Len(t), i \notin 1..Len(s)
               PROVE  i - Len(s) \in 1..k /\ i = Len(s) + (i - Len(s))
    BY Zenon
  <2> QED BY <1>2, <1>3
<1>6. \A i \in 1..Len(t) : t[i][1] <= n
  <2> SUFFICES ASSUME NEW i \in 1..Len(t) PROVE t[i][1] <= n
    OBVIOUS
  <2>1. CASE i \in 1..Len(s)
    <3>1. t[i] = s[i] /\ s[i][1] < n /\ s[i][1] \in Nat
      BY <1>2, <1>4, <2>1 DEF Pairs
    <3> QED BY <3>1
  <2>2. ASSUME NEW j \in 1..k, i = Len(s) + j PROVE t[i][1] <= n
    BY <1>4, <2>2
  <2> QED BY Zenon, <1>5, <2>1, <2>2
<1>7. \A i, j \in 1..Len(t) : i < j => Before(t[i], t[j])
  <2> SUFFICES ASSUME NEW i \in 1..Len(t), NEW j \in 1..Len(t), i < j PROVE Before(t[i], t[j])
    BY Zenon
  <2>1. CASE i \in 1..Len(s) /\ j \in 1..Len(s)
    BY <1>4, <2>1
  <2>2. ASSUME i \in 1..Len(s), NEW b \in 1..k, j = Len(s) + b PROVE Before(t[i], t[j])
    <3>1. t[i] = s[i] /\ t[j] = <<n, b>> /\ s[i][1] < n
      BY Zenon, <1>4, <2>2
    <3> QED BY <3>1 DEF Before
  <2>3. ASSUME NEW a \in 1..k, i = Len(s) + a, NEW b \in 1..k, j = Len(s) + b PROVE Before(t[i], t[j])
    <3>1. t[i] = <<n, a>> /\ t[j] = <<n, b>>
      BY Zenon, <1>4, <2>3
    <3>2. Len(s) + a < Len(s) + b
      BY <2>3
    <3>3. a < b
      BY <1>2, <3>2
    <3> QED BY <3>1, <3>3 DEF Before
  <2>4. ~(i \notin 1..Len(s) /\ j \in 1..Len(s))
    BY <1>2, <1>3
  <2> QED BY Zenon, <1>5, <2>1, <2>2, <2>3, <2>4
<1>8. Told(s) \union {<<n, i>> : i \in 1..k} \subseteq Told(t)
  BY Zenon, <1>4 DEF Told
<1> QED BY Zenon, <1>3, <1>6, <1>7, <1>8 DEF t

(* All calls of a round are settled and put on record (agents.ts 365-402).      *)
LEMMA GatherStep ==
  ASSUME AgentsInv, NEW r \in Agents!Slots, Agents!Gather(r)
  PROVE  AgentsInv'
<1> DEFINE k == Len(batch[r])
           recs == [i \in 1..k |-> <<round[r], i>>]
           after == IF Agents!InDoubt(r) THEN "failed" ELSE "running"
<1>1. /\ status[r] = "running" /\ batch[r] # <<>>
      /\ \A i \in 1..k : batch[r][i].at \in {"known", "unknown"}
      /\ receipts' = [receipts EXCEPT ![r] = receipts[r] \o recs]
      /\ batch' = [batch EXCEPT ![r] = <<>>] /\ status' = [status EXCEPT ![r] = after]
      /\ UNCHANGED <<mode, crew, round, entered, caller, doubted>>
  BY DEF Agents!Gather, Agents!Records, Agents!Settled
<1>2. /\ status \in [Agents!Slots -> {"idle", "running", "completed", "limit", "failed"}]
      /\ round \in [Agents!Slots -> Nat] /\ batch \in [Agents!Slots -> Seq(Stages)]
      /\ receipts \in [Agents!Slots -> Seq(Pairs)] /\ doubted \subseteq Agents!Slots
      /\ k \in Nat
  BY LenProperties DEF AgentsInv, AgentTypes
<1>3. Tells(status[r], round[r], batch[r], receipts[r], entered[r])
  BY DEF AgentsInv, RunsTell
<1>4. /\ receipts[r] \o recs \in Seq(Pairs)
      /\ \A i \in 1..Len(receipts[r] \o recs) : (receipts[r] \o recs)[i][1] <= round[r]
      /\ \A i, j \in 1..Len(receipts[r] \o recs) :
           i < j => Before((receipts[r] \o recs)[i], (receipts[r] \o recs)[j])
      /\ Told(receipts[r]) \union {<<round[r], i>> : i \in 1..k} \subseteq Told(receipts[r] \o recs)
  <2>1. /\ \A i \in 1..Len(receipts[r]) : receipts[r][i][1] < round[r]
        /\ \A i, j \in 1..Len(receipts[r]) : i < j => Before(receipts[r][i], receipts[r][j])
    BY <1>1, <1>3 DEF Tells
  <2>2. receipts[r] \in Seq(Pairs) /\ round[r] \in Nat
    BY <1>2
  <2> HIDE DEF k, recs
  <2>3. recs = [i \in 1..k |-> <<round[r], i>>]
    BY DEF recs
  <2> QED BY Zenon, <1>2, <2>1, <2>2, <2>3, RecordedNext
<1> DEFINE all == receipts[r] \o recs
<1> HIDE DEF recs, all
<1>5. /\ receipts' \in [Agents!Slots -> Seq(Pairs)] /\ receipts'[r] = all
      /\ \A q \in Agents!Slots : q # r => receipts'[q] = receipts[q]
  BY <1>1, <1>2, <1>4 DEF all
<1>6. /\ batch' \in [Agents!Slots -> Seq(Stages)] /\ batch'[r] = <<>>
      /\ \A q \in Agents!Slots : q # r => batch'[q] = batch[q]
  BY <1>1, <1>2
<1>7. after \in {"failed", "running"}
  OBVIOUS
<1>8. Agents!InDoubt(r) => after = "failed"
  OBVIOUS
<1> HIDE DEF after
<1>9. /\ status' \in [Agents!Slots -> {"idle", "running", "completed", "limit", "failed"}]
      /\ status'[r] = after /\ \A q \in Agents!Slots : q # r => status'[q] = status[q]
  BY <1>1, <1>2, <1>7
<1>10. AgentTypes'
  BY <1>1, <1>5, <1>6, <1>9 DEF AgentsInv, AgentTypes
<1>11. RunsTell'
  <2> SUFFICES ASSUME NEW q \in Agents!Slots
               PROVE  Tells(status'[q], round[q], batch'[q], receipts'[q], entered[q])
    BY <1>1 DEF RunsTell
  <2>1. CASE q # r
    BY Zenon, <1>5, <1>6, <1>9, <2>1 DEF AgentsInv, RunsTell
  <2>2. CASE q = r
    <3>1. entered[r] \subseteq Told(all)
      BY <1>3, <1>4 DEF Tells, all
    <3>2. \A i \in 1..Len(all) : all[i][1] <= round[r]
      BY <1>4 DEF all
    <3>3. \A i, j \in 1..Len(all) : i < j => Before(all[i], all[j])
      BY <1>4 DEF all
    <3> QED BY <1>5, <1>6, <2>2, <3>1, <3>2, <3>3 DEF Tells
  <2> QED BY <2>1, <2>2
<1>12. caller # <<>> => caller[1] # r /\ caller[1] \in Agents!Slots
  BY <1>1, SlotsAre DEF AgentsInv, Delegated
<1>13. Delegated'
  <2>1. status[0] = "idle" <=> status'[0] = "idle"
    BY <1>1, <1>7, <1>9, SlotsAre
  <2>2. \A i \in 1..Len(batch'[0]) : batch'[0][i].kind = "tool"
    BY <1>6, SlotsAre DEF AgentsInv, Delegated
  <2> QED BY <1>1, <1>6, <1>12, <2>1, <2>2 DEF AgentsInv, Delegated
<1>14. Doubts'
  <2> SUFFICES ASSUME NEW q \in doubted
               PROVE  \/ status'[q] = "failed"
                      \/ \E j \in 1..Len(batch'[q]) : batch'[q][j].at = "unknown"
                      \/ caller # <<>> /\ caller[1] = q /\ 0 \in doubted
    BY <1>1 DEF Doubts
  <2>1. CASE q # r
    BY Zenon, <1>2, <1>6, <1>9, <2>1 DEF AgentsInv, Doubts
  <2>2. CASE q = r
    <3>1. \E j \in 1..Len(batch[r]) : batch[r][j].at = "unknown"
      BY <1>1, <1>12, <2>2 DEF AgentsInv, Doubts
    <3> QED BY <1>8, <1>9, <2>2, <3>1 DEF Agents!InDoubt
  <2> QED BY <2>1, <2>2
<1>15. OneByOne'
  <2> SUFFICES ASSUME mode \in {"sequential", "ralph"}, NEW q \in 1..Members, NEW p \in 1..Members, q < p,
                      status'[p] # "idle"
               PROVE  status'[q] \in {"completed", "limit"}
    BY <1>1 DEF OneByOne
  <2>1. q \in Agents!Slots /\ p \in Agents!Slots /\ status[p] # "idle"
    BY <1>1, <1>9, SlotsAre
  <2>2. status[q] \in {"completed", "limit"}
    BY <2>1 DEF AgentsInv, OneByOne
  <2> QED BY <1>1, <1>9, <2>1, <2>2
<1>16. Finished'
  <2>1. \A q \in 1..Members : status[q] \in {"completed", "limit"} => status'[q] = status[q]
    BY <1>1, <1>9, SlotsAre
  <2> QED BY <1>1, <2>1 DEF AgentsInv, Finished
<1> QED BY <1>10, <1>11, <1>13, <1>14, <1>15, <1>16 DEF AgentsInv

(* The next member of a sequence starts.                                      *)
LEMMA AdvanceStep ==
  ASSUME AgentsInv, Agents!Advance
  PROVE  AgentsInv'
<1>1. PICK m \in 1..(Members - 1) :
        /\ status[m] \in Agents!Ended \ {"failed"} /\ status[m + 1] = "idle"
        /\ status' = [status EXCEPT ![m + 1] = "running"]
  BY Zenon DEF Agents!Advance
<1>2. /\ crew = "running" /\ mode \in {"sequential", "ralph"}
      /\ UNCHANGED <<mode, crew, round, batch, receipts, entered, caller, doubted>>
  BY DEF Agents!Advance
<1> DEFINE n == m + 1
<1>3. m \in 1..Members /\ n \in 1..Members /\ n # 0 /\ n \in Agents!Slots /\ m < n
  BY SlotsAre, KernelsAssumption
<1>4. \A q \in 1..Members : q < n => q = m \/ q < m
  BY KernelsAssumption
<1>5. /\ status[m] \in {"completed", "limit"} /\ status[n] = "idle"
      /\ status' = [status EXCEPT ![n] = "running"]
  BY <1>1 DEF Agents!Ended
<1> HIDE DEF n
<1>6. status \in [Agents!Slots -> {"idle", "running", "completed", "limit", "failed"}]
  BY DEF AgentsInv, AgentTypes
<1>7. /\ status' \in [Agents!Slots -> {"idle", "running", "completed", "limit", "failed"}]
      /\ status'[n] = "running" /\ \A q \in Agents!Slots : q # n => status'[q] = status[q]
  BY <1>3, <1>5, <1>6
<1>8. AgentTypes'
  BY <1>2, <1>7 DEF AgentsInv, AgentTypes
<1>9. RunsTell'
  <2> SUFFICES ASSUME NEW q \in Agents!Slots
               PROVE  Tells(status'[q], round[q], batch[q], receipts[q], entered[q])
    BY <1>2 DEF RunsTell
  <2> QED BY <1>5, <1>7 DEF AgentsInv, RunsTell, Tells
<1>10. Delegated'
  BY <1>2, <1>3, <1>7, SlotsAre DEF AgentsInv, Delegated
<1>11. Doubts'
  <2> SUFFICES ASSUME NEW q \in doubted, status[q] = "failed" PROVE status'[q] = "failed"
    BY <1>2 DEF AgentsInv, Doubts
  <2> QED BY <1>5, <1>7 DEF AgentsInv, AgentTypes
<1>12. OneByOne'
  <2> SUFFICES ASSUME NEW q \in 1..Members, NEW p \in 1..Members, q < p, status'[p] # "idle"
               PROVE  status'[q] \in {"completed", "limit"}
    BY DEF OneByOne
  <2>1. q \in Agents!Slots /\ p \in Agents!Slots /\ m \in Agents!Slots
    BY <1>3, SlotsAre
  <2>2. CASE p = n
    <3>1. CASE q = m
      BY <1>3, <1>5, <1>7, <2>1, <3>1
    <3>2. CASE q < m
      <4>1. status[q] \in {"completed", "limit"}
        BY <1>2, <1>3, <1>5, <3>2 DEF AgentsInv, OneByOne
      <4> QED BY <1>5, <1>7, <2>1, <4>1
    <3> QED BY <1>4, <2>2, <3>1, <3>2
  <2>3. CASE p # n
    <3>1. status[q] \in {"completed", "limit"}
      BY <1>2, <1>7, <2>1, <2>3 DEF AgentsInv, OneByOne
    <3> QED BY <1>5, <1>7, <2>1, <3>1
  <2> QED BY <2>2, <2>3
<1>13. Finished'
  BY <1>2 DEF Finished
<1> QED BY <1>8, <1>9, <1>10, <1>11, <1>12, <1>13 DEF AgentsInv

(* Another pass of a Ralph loop, once the last member has ended.               *)
LEMMA RepeatStep ==
  ASSUME AgentsInv, Agents!Repeat
  PROVE  AgentsInv'
<1>1. /\ crew = "running" /\ mode = "ralph" /\ status[Members] \in {"completed", "limit"}
      /\ status' = [q \in Agents!Slots |-> IF q = 1 THEN "running" ELSE "idle"]
      /\ round' = [q \in Agents!Slots |-> 0] /\ receipts' = [q \in Agents!Slots |-> <<>>]
      /\ entered' = [q \in Agents!Slots |-> {}] /\ UNCHANGED <<mode, crew, batch, caller, doubted>>
  BY DEF Agents!Repeat, Agents!Ended
<1>2. ASSUME NEW q \in 1..Members PROVE status[q] \in {"completed", "limit"}
  <2>1. Members \in 1..Members /\ (q = Members \/ q < Members)
    BY KernelsAssumption
  <2> QED BY <1>1, <2>1 DEF AgentsInv, OneByOne
<1>3. \A q \in 1..Members : q \in Agents!Slots /\ batch[q] = <<>>
  BY <1>2, SlotsAre DEF AgentsInv, RunsTell, Tells
<1>4. caller = <<>>
  <2> SUFFICES ASSUME caller # <<>> PROVE FALSE
    OBVIOUS
  <2>1. caller[1] \in 1..Members /\ caller[2] \in 1..Len(batch[caller[1]])
    BY DEF AgentsInv, Delegated
  <2>2. batch[caller[1]] = <<>>
    BY <1>3, <2>1
  <2> QED BY <2>1, <2>2
<1>5. status[0] = "idle" /\ batch[0] = <<>> /\ 0 \in Agents!Slots
  BY <1>4, SlotsAre DEF AgentsInv, Delegated, RunsTell, Tells
<1>6. \A q \in Agents!Slots : batch[q] = <<>> /\ status[q] # "failed"
  BY <1>2, <1>3, <1>5, SlotsAre
<1>7. doubted = {}
  <2>1. \A q \in Agents!Slots : q \notin doubted
    BY <1>4, <1>6 DEF AgentsInv, Doubts
  <2> QED BY <2>1 DEF AgentsInv, AgentTypes
<1>8. /\ status' \in [Agents!Slots -> {"idle", "running", "completed", "limit", "failed"}]
      /\ round' \in [Agents!Slots -> Nat] /\ receipts' \in [Agents!Slots -> Seq(Pairs)]
      /\ entered' \in [Agents!Slots -> SUBSET Pairs]
  BY <1>1
<1>9. AgentTypes'
  BY <1>1, <1>8 DEF AgentsInv, AgentTypes
<1>10. RunsTell'
  BY <1>1, <1>6 DEF RunsTell, Tells, Told
<1>11. Delegated'
  BY <1>1, <1>4, <1>5 DEF Delegated
<1>12. OneByOne'
  <2> SUFFICES ASSUME NEW q \in 1..Members, NEW p \in 1..Members, q < p, status'[p] # "idle"
               PROVE  FALSE
    BY DEF OneByOne
  <2>1. p \in Agents!Slots /\ p # 1
    BY SlotsAre, KernelsAssumption
  <2> QED BY <1>1, <2>1
<1> QED BY <1>1, <1>7, <1>9, <1>10, <1>11, <1>12 DEF AgentsInv, Doubts, Finished

LEMMA AgentSteps == AgentsInv /\ [Agents!Next]_(Agents!vars) => AgentsInv'
<1> SUFFICES ASSUME AgentsInv, [Agents!Next]_(Agents!vars) PROVE AgentsInv'
  OBVIOUS
<1>1. CASE UNCHANGED Agents!vars
  BY <1>1 DEF Agents!vars, Agents!runs, AgentsInv, AgentTypes, RunsTell, Delegated, Doubts, OneByOne, Finished
<1>2. ASSUME NEW r \in Agents!Slots,
             Agents!Answers(r) \/ Agents!AdapterThrows(r) \/ Agents!Limit(r)
      PROVE  AgentsInv'
  <2>1. PICK as \in {"completed", "limit", "failed"} :
          /\ batch[r] = <<>> /\ status[r] = "running" /\ status' = [status EXCEPT ![r] = as]
          /\ round' \in {round, [round EXCEPT ![r] = @ + 1]}
          /\ UNCHANGED <<mode, crew, batch, receipts, entered, caller, doubted>>
    BY <1>2 DEF Agents!Answers, Agents!AdapterThrows, Agents!Limit, Agents!Ends, Agents!Asking
  <2> QED BY Zenon, <2>1, RunEndsStep
<1>3. ASSUME NEW r \in Agents!Slots, NEW i, Agents!Refuse(r, i) PROVE AgentsInv'
  <2>1. /\ Agents!Moves(r, i, "queued", "known")
        /\ UNCHANGED <<mode, crew, status, round, receipts, entered, caller, doubted>>
    BY <1>3 DEF Agents!Refuse
  <2> QED BY <2>1, CallEndsStep
<1>4. ASSUME NEW r \in Agents!Slots, NEW i, Agents!Settle(r, i) PROVE AgentsInv'
  <2>1. PICK outcome \in {"known", "unknown"} :
          /\ Agents!Moves(r, i, "entered", outcome)
          /\ doubted' = IF outcome = "unknown" THEN doubted \union Agents!Under(r) ELSE doubted
    BY <1>4 DEF Agents!Settle, Agents!Settled
  <2>2. /\ batch[r][i].kind = "tool"
        /\ UNCHANGED <<mode, crew, status, round, receipts, entered, caller>>
    BY <1>4 DEF Agents!Settle
  <2> QED BY <2>1, <2>2, CallEndsStep
<1>5. CASE Agents!Finish
  <2>1. /\ crew' = "done" /\ UNCHANGED <<mode, status, round, batch, receipts, entered, caller, doubted>>
        /\ mode # "settled" => \A r \in 1..Members : status[r] \in {"completed", "limit"}
    BY <1>5 DEF Agents!Finish, Agents!runs, Agents!Ended
  <2> QED BY <2>1 DEF AgentsInv, AgentTypes, RunsTell, Delegated, Doubts, OneByOne, Finished
<1>6. CASE Agents!Rejected
  <2>1. crew' = "failed" /\ UNCHANGED <<mode, status, round, batch, receipts, entered, caller, doubted>>
    BY <1>6 DEF Agents!Rejected, Agents!runs
  <2> QED BY <2>1 DEF AgentsInv, AgentTypes, RunsTell, Delegated, Doubts, OneByOne, Finished
<1> QED
  BY <1>1, <1>2, <1>3, <1>4, <1>5, <1>6, CallsStep, EnterCallStep, DelegateEndsStep, GatherStep,
     AdvanceStep, RepeatStep DEF Agents!Next

-----------------------------------------------------------------------------
(* AdapterContinuation.  The continuation kept for a key is the conversation up  *)
(* to and with the last answer of that adapter.                              *)
ByKey(x, k) == x.role = "assistant" /\ x.by = k
LastAnswer(h, k, b) == b \in 1..Len(h) /\ ByKey(h[b], k) /\ \A j \in 1..Len(h) : b < j => ~ByKey(h[j], k)

LEMMA RestIs ==
  ASSUME NEW S, history \in Seq(S), NEW k, NEW b, LastAnswer(history, k, b), Adapters!Continuation(k) # None
  PROVE  Adapters!Continuation(k) = SubSeq(history, b + 1, Len(history))
<1> DEFINE I == {i \in 1..Len(history) : history[i].role = "assistant" /\ history[i].by = k}
           boundary == IF I # {} THEN Adapters!Max(I) ELSE 0
           suffix == SubSeq(history, boundary + 1, Len(history))
<1>1. Adapters!Continuation(k) = None \/ Adapters!Continuation(k) = suffix
  BY Zenon DEF Adapters!Continuation, Adapters!SelectLastInSeq
<1>2. b \in I /\ \A i \in I : i \in Nat /\ b >= i
  <2>1. Len(history) \in Nat
    BY LenProperties
  <2> QED BY <2>1 DEF LastAnswer, ByKey
<1>3. Adapters!Max(I) = CHOOSE x \in I : \A y \in I : x >= y
  BY DEF Adapters!Max
<1> HIDE DEF I
<1>4. \A x \in I : (\A y \in I : x >= y) => x = b
  BY <1>2
<1>5. (CHOOSE x \in I : \A y \in I : x >= y) = b
  BY <1>2, <1>4
<1>6. boundary = b
  BY <1>2, <1>3, <1>5
<1> HIDE DEF boundary
<1> QED BY <1>1, <1>6

Messages ==
  [role : {"user", "assistant", "tool"}, by : Keys \union {None}, id : Nat]
Histories == Seq(Messages)
Continuations == [id : Nat, model : Models]

Kept(h, k, st, rs) ==
  st # None => /\ st.id \in 1..Len(rs) /\ Len(rs[st.id]) \in 1..Len(h)
               /\ \A i \in 1..Len(rs[st.id]) : rs[st.id][i] = h[i]
               /\ LastAnswer(h, k, Len(rs[st.id]))

AdapterTypes ==
  /\ history \in Histories /\ messages \in Nat /\ responses \in Seq(Histories)
  /\ state \in [Keys -> Continuations \union {None}]
  /\ turn # None => turn \in [key : Keys, model : Models, history : Histories,
                               state : Continuations \union {None}]
  /\ request # None => turn # None /\ request \in [previous : Nat, input : Histories]

(* While a turn is open, this holds as well of what a failure would restore.    *)
Continued ==
  /\ \A k \in Keys : Kept(history, k, state[k], responses)
  /\ turn # None =>
       \A k \in Keys : Kept(turn.history, k, IF k = turn.key THEN turn.state ELSE state[k], responses)
Shows == request # None => request.previous \in 0..Len(responses) /\ Adapters!Seen = history

AdapterInv == AdapterTypes /\ Continued /\ Shows

LEMMA Lengths == \A S : \A s \in Seq(S) : Len(s) \in Nat /\ \A i \in 1..Len(s) : s[i] \in S
BY LenProperties

(* A history that goes on without an answer of the adapter.                   *)
Extends(g, h) == Len(h) <= Len(g) /\ \A i \in 1..Len(h) : g[i] = h[i]

LEMMA Appended ==
  ASSUME NEW S, NEW s \in Seq(S), NEW x \in S
  PROVE  /\ Append(s, x) \in Seq(S) /\ Len(Append(s, x)) = Len(s) + 1 /\ Extends(Append(s, x), s)
         /\ Append(s, x)[Len(s) + 1] = x
<1>1. /\ Append(s, x) \in Seq(S) /\ Len(Append(s, x)) = Len(s) + 1 /\ Append(s, x)[Len(s) + 1] = x
      /\ \A i \in 1..Len(s) : Append(s, x)[i] = s[i]
  BY AppendProperties
<1>2. Len(s) \in Nat
  BY Lengths
<1>3. Len(s) <= Len(s) + 1
  BY <1>2
<1> QED BY <1>1, <1>3 DEF Extends

LEMMA KeptLonger ==
  ASSUME NEW h \in Histories, NEW g \in Histories, Extends(g, h),
         NEW rs \in Seq(Histories), NEW qs \in Seq(Histories), Extends(qs, rs),
         NEW k, NEW st, Kept(h, k, st, rs),
         \A j \in 1..Len(g) : Len(h) < j => ~ByKey(g[j], k)
  PROVE  Kept(g, k, st, qs)
<1> SUFFICES ASSUME st # None PROVE Kept(g, k, st, qs)
  BY DEF Kept
<1> DEFINE r == rs[st.id]
<1>1. /\ st.id \in 1..Len(rs) /\ Len(r) \in 1..Len(h) /\ \A i \in 1..Len(r) : r[i] = h[i]
      /\ LastAnswer(h, k, Len(r))
  BY DEF Kept
<1>2. Len(h) \in Nat /\ Len(g) \in Nat /\ Len(rs) \in Nat /\ Len(qs) \in Nat
  BY Lengths DEF Histories
<1>3. Len(h) <= Len(g) /\ Len(rs) <= Len(qs)
  BY DEF Extends
<1>4. st.id \in 1..Len(qs) /\ qs[st.id] = r
  BY <1>1, <1>2, <1>3 DEF Extends
<1> HIDE DEF r
<1>5. Len(r) \in 1..Len(g) /\ \A i \in 1..Len(r) : i \in 1..Len(h) /\ g[i] = h[i]
  BY <1>1, <1>2, <1>3 DEF Extends
<1>6. LastAnswer(g, k, Len(r))
  <2>1. ByKey(g[Len(r)], k)
    BY <1>1, <1>2, <1>3 DEF LastAnswer, Extends
  <2>2. ASSUME NEW j \in 1..Len(g), Len(r) < j PROVE ~ByKey(g[j], k)
    <3>1. CASE Len(h) < j
      BY <3>1
    <3>2. CASE j \in 1..Len(h)
      BY <1>1, <2>2, <3>2 DEF LastAnswer, Extends
    <3> QED BY <1>2, <3>1, <3>2
  <2> QED BY <1>5, <2>1, <2>2 DEF LastAnswer
<1> QED BY <1>1, <1>4, <1>5, <1>6 DEF Kept

(* What an answer is remembered with.                                        *)
LEMMA KeptAnswer ==
  ASSUME NEW h \in Histories, NEW x \in Messages, NEW k, ByKey(x, k), NEW g \in Histories,
         Extends(g, Append(h, x)), \A j \in 1..Len(g) : Len(h) + 1 < j => ~ByKey(g[j], k),
         NEW qs \in Seq(Histories), NEW n \in 1..Len(qs), qs[n] = Append(h, x),
         NEW m
  PROVE  Kept(g, k, [id |-> n, model |-> m], qs)
<1> DEFINE r == Append(h, x)
<1>1. Len(r) = Len(h) + 1 /\ r[Len(h) + 1] = x /\ Len(h) \in Nat /\ Len(g) \in Nat
  BY Appended, Lengths DEF Histories
<1>2. Len(r) <= Len(g) /\ \A i \in 1..Len(r) : g[i] = r[i]
  BY DEF Extends
<1> HIDE DEF r
<1>3. Len(r) \in 1..Len(g) /\ Len(r) \in 1..Len(r)
  BY <1>1, <1>2
<1>4. LastAnswer(g, k, Len(r))
  BY <1>1, <1>2, <1>3 DEF LastAnswer
<1>5. qs[n] = r
  BY DEF r
<1> QED BY <1>2, <1>3, <1>4, <1>5 DEF Kept

LEMMA AdaptersStart == Adapters!Init => AdapterInv
<1> SUFFICES ASSUME Adapters!Init PROVE AdapterInv
  OBVIOUS
<1>1. AdapterTypes
  <2>1. <<>> \in Histories /\ <<>> \in Seq(Histories)
    BY DEF Histories
  <2> QED BY <2>1 DEF Adapters!Init, AdapterTypes
<1>2. Continued /\ Shows
  BY DEF Adapters!Init, Continued, Shows, Kept
<1> QED BY <1>1, <1>2 DEF AdapterInv

(* A message that is no answer of an adapter.                                 *)
LEMMA MessageStep ==
  ASSUME AdapterInv, turn = None, NEW x \in Messages, \A k \in Keys : ~ByKey(x, k),
         messages' \in Nat, history' = Append(history, x),
         UNCHANGED <<state, responses, expired, request>>,
         turn' # None => turn'.key \in Keys /\ turn'.model \in Models /\ turn'.history = history
                         /\ turn'.state = state[turn'.key]
                         /\ turn' \in [key : Keys, model : Models, history : Histories,
                                       state : Continuations \union {None}]
  PROVE  AdapterInv'
<1>1. /\ history \in Histories /\ responses \in Seq(Histories) /\ state \in [Keys -> Continuations \union {None}]
      /\ request = None
  BY DEF AdapterInv, AdapterTypes
<1>2. /\ history' \in Histories /\ Len(history') = Len(history) + 1 /\ Extends(history', history)
      /\ history'[Len(history) + 1] = x /\ Len(history) \in Nat
  BY <1>1, Appended, Lengths DEF Histories
<1>3. Extends(responses, responses)
  BY <1>1, Lengths DEF Extends
<1>4. ASSUME NEW k \in Keys PROVE Kept(history', k, state[k], responses)
  <2>1. Kept(history, k, state[k], responses)
    BY DEF AdapterInv, Continued
  <2>2. \A j \in 1..Len(history') : Len(history) < j => ~ByKey(history'[j], k)
    <3> SUFFICES ASSUME NEW j \in 1..Len(history'), Len(history) < j PROVE ~ByKey(history'[j], k)
      OBVIOUS
    <3>1. j = Len(history) + 1
      BY <1>2
    <3> QED BY <1>2, <3>1
  <2> QED BY Zenon, <1>1, <1>2, <1>3, <2>1, <2>2, KeptLonger
<1>5. AdapterTypes'
  BY <1>1, <1>2 DEF AdapterInv, AdapterTypes
<1>6. Continued'
  <2>1. turn' # None => \A k \in Keys :
          Kept(turn'.history, k, IF k = turn'.key THEN turn'.state ELSE state[k], responses)
    BY DEF AdapterInv, Continued
  <2> QED BY <1>4, <2>1 DEF Continued
<1>7. Shows'
  BY <1>1 DEF Shows
<1> QED BY <1>5, <1>6, <1>7 DEF AdapterInv

LEMMA AskStep ==
  ASSUME AdapterInv, NEW k \in Keys, NEW m \in Models, Adapters!Ask(k, m)
  PROVE  AdapterInv'
<1> DEFINE x == Adapters!Message("user", None, messages')
           t == [key |-> k, model |-> m, history |-> history, state |-> state[k]]
<1>1. /\ turn = None /\ messages' = messages + 1 /\ turn' = t /\ history' = Append(history, x)
      /\ UNCHANGED <<state, responses, expired, request>>
  BY DEF Adapters!Ask, Adapters!Makes
<1>2. messages' \in Nat /\ state[k] \in Continuations \union {None} /\ history \in Histories
  BY <1>1 DEF AdapterInv, AdapterTypes
<1>3. x \in Messages /\ x.role = "user"
  BY <1>2 DEF Adapters!Message, Messages
<1>4. /\ t \in [key : Keys, model : Models, history : Histories, state : Continuations \union {None}]
      /\ t.key = k /\ t.model = m /\ t.history = history /\ t.state = state[k]
  BY <1>2
<1> HIDE DEF x, t
<1>5. \A c \in Keys : ~ByKey(x, c)
  BY <1>3 DEF ByKey
<1> QED BY <1>1, <1>2, <1>3, <1>4, <1>5, MessageStep

LEMMA AppendMessageStep ==
  ASSUME AdapterInv, Adapters!AppendMessage
  PROVE  AdapterInv'
<1>1. PICK role \in {"user", "assistant"} : history' = Append(history, Adapters!Message(role, None, messages'))
  BY DEF Adapters!AppendMessage
<1> DEFINE x == Adapters!Message(role, None, messages')
<1>2. /\ turn = None /\ messages' = messages + 1 /\ history' = Append(history, x)
      /\ UNCHANGED <<state, responses, expired, turn, request>>
  BY <1>1 DEF Adapters!AppendMessage, Adapters!Makes
<1>3. messages' \in Nat
  BY <1>2 DEF AdapterInv, AdapterTypes
<1>4. x \in Messages /\ x.by = None
  BY <1>3 DEF Adapters!Message, Messages
<1> HIDE DEF x
<1>5. \A c \in Keys : ~ByKey(x, c)
  BY <1>4, KernelsAssumption DEF ByKey
<1> QED BY <1>2, <1>3, <1>4, <1>5, MessageStep

(* A request leaves with the rest of the history, or with all of it.            *)
LEMMA RestCompletes ==
  ASSUME NEW h \in Histories, NEW r \in Histories, Len(r) \in 1..Len(h),
         \A i \in 1..Len(r) : r[i] = h[i]
  PROVE  /\ SubSeq(h, Len(r) + 1, Len(h)) \in Histories
         /\ r \o SubSeq(h, Len(r) + 1, Len(h)) = h
<1> DEFINE b == Len(r)
           rest == SubSeq(h, b + 1, Len(h))
<1>1. /\ Len(h) \in Nat /\ b \in Nat /\ b <= Len(h) /\ b + 1 \in Int /\ Len(h) \in Int
      /\ \A i \in 1..Len(h) : h[i] \in Messages
  BY Lengths DEF Histories
<1> HIDE DEF b
<1>2. \A i \in (b + 1)..Len(h) : h[i] \in Messages
  BY <1>1
<1>3. /\ rest \in Seq(Messages) /\ Len(rest) = IF b + 1 <= Len(h) THEN Len(h) - (b + 1) + 1 ELSE 0
      /\ \A i \in 1..(Len(h) - (b + 1) + 1) : rest[i] = h[b + 1 + i - 1]
  <2> HIDE DEF rest
  <2>1. rest = SubSeq(h, b + 1, Len(h))
    BY DEF rest
  <2> QED BY <1>1, <1>2, <2>1, SubSeqProperties
<1> HIDE DEF rest
<1>4. Len(rest) = Len(h) - b /\ \A i \in 1..(Len(h) - b) : rest[i] = h[b + i]
  <2>1. /\ Len(h) - (b + 1) + 1 = Len(h) - b /\ \A i \in 1..(Len(h) - b) : b + 1 + i - 1 = b + i
    BY <1>1
  <2>2. ~(b + 1 <= Len(h)) => Len(h) - b = 0
    BY <1>1
  <2> QED BY <1>3, <2>1, <2>2
<1> DEFINE all == r \o rest
<1>5. all \in Seq(Messages) /\ Len(all) = b + Len(rest)
      /\ \A i \in 1..(b + Len(rest)) : all[i] = IF i <= b THEN r[i] ELSE rest[i - b]
  <2> HIDE DEF all
  <2>1. all = r \o rest
    BY DEF all
  <2>2. r \in Seq(Messages)
    BY DEF Histories
  <2> QED BY Zenon, <1>3, <2>1, <2>2, ConcatProperties DEF b
<1> HIDE DEF all
<1>6. Len(all) = Len(h)
  BY <1>1, <1>4, <1>5
<1>7. ASSUME NEW i \in 1..Len(h) PROVE all[i] = h[i]
  <2>1. CASE i <= b
    <3>1. i \in 1..b /\ i \in 1..(b + Len(rest))
      BY <1>1, <1>4, <2>1
    <3>2. all[i] = r[i] /\ r[i] = h[i]
      BY <1>5, <2>1, <3>1 DEF b
    <3> QED BY <3>2
  <2>2. CASE ~(i <= b)
    <3>1. i \in 1..(b + Len(rest)) /\ i - b \in 1..(Len(h) - b) /\ b + (i - b) = i
      BY <1>1, <1>4, <2>2
    <3>2. all[i] = rest[i - b] /\ rest[i - b] = h[b + (i - b)]
      BY <1>4, <1>5, <2>2, <3>1
    <3> QED BY <3>1, <3>2
  <2> QED BY <2>1, <2>2
<1>8. all = h
  <2>1. h \in Seq(Messages)
    BY DEF Histories
  <2> QED BY <1>5, <1>6, <1>7, <2>1, SeqEqual
<1> QED BY <1>3, <1>8 DEF all, rest, b, Histories

(* Sent in full.                                                            *)
LEMMA InFull ==
  ASSUME AdapterInv, turn # None, request' = [previous |-> 0, input |-> history],
         UNCHANGED <<history, messages, state, responses, expired, turn>>
  PROVE  AdapterInv'
<1>1. history \in Histories /\ Len(responses) \in Nat /\ <<>> \o history = history
  BY Lengths, ConcatEmptySeq DEF AdapterInv, AdapterTypes, Histories
<1>2. /\ request'.previous = 0 /\ request'.input = history
      /\ request' \in [previous : Nat, input : Histories]
  BY <1>1
<1>3. AdapterTypes' /\ Continued'
  BY <1>2 DEF AdapterInv, AdapterTypes, Continued
<1>4. Adapters!Seen' = history'
  BY <1>1, <1>2 DEF Adapters!Seen
<1>5. 0 \in 0..Len(responses)
  BY <1>1
<1>6. Shows'
  BY <1>2, <1>4, <1>5 DEF Shows
<1> QED BY <1>3, <1>6 DEF AdapterInv

LEMMA TwoAppended ==
  ASSUME NEW h \in Histories, NEW x \in Messages, NEW y \in Messages
  PROVE  h \o <<x, y>> = Append(Append(h, x), y)
BY DEF Histories

LEMMA SendStep ==
  ASSUME AdapterInv, Adapters!Send
  PROVE  AdapterInv'
<1> DEFINE k == turn.key
           rest == Adapters!Continuation(k)
           id == state[k].id
           r == responses[id]
<1>1. /\ turn # None /\ UNCHANGED <<history, messages, state, responses, expired, turn>>
      /\ request' = IF Adapters!Eligible /\ rest # None
                    THEN [previous |-> state[k].id, input |-> rest]
                    ELSE [previous |-> 0, input |-> history]
  BY DEF Adapters!Send
<1>2. /\ k \in Keys /\ history \in Histories /\ responses \in Seq(Histories) /\ Len(responses) \in Nat
      /\ state \in [Keys -> Continuations \union {None}] /\ Kept(history, k, state[k], responses)
  BY <1>1, Lengths DEF AdapterInv, AdapterTypes, Continued
<1>3. CASE Adapters!Eligible /\ rest # None
  <2>1. state[k] # None /\ request' = [previous |-> id, input |-> rest]
    BY <1>1, <1>3 DEF Adapters!Eligible
  <2>2. /\ id \in 1..Len(responses) /\ Len(r) \in 1..Len(history)
        /\ \A i \in 1..Len(r) : r[i] = history[i]
        /\ LastAnswer(history, k, Len(r))
    BY <1>2, <2>1 DEF Kept
  <2>3. r \in Histories
    BY <1>2, <2>2, Lengths
  <2> HIDE DEF r, id, k
  <2>4. rest = SubSeq(history, Len(r) + 1, Len(history))
    BY Zenon, <1>2, <1>3, <2>2, RestIs DEF Histories
  <2> HIDE DEF rest
  <2>5. rest \in Histories /\ r \o rest = history
    BY Zenon, <1>2, <2>2, <2>3, <2>4, RestCompletes
  <2>6. /\ request'.previous = id /\ request'.input = rest
        /\ request' \in [previous : Nat, input : Histories]
    BY <1>2, <2>1, <2>2, <2>5
  <2>7. id # 0
    BY <1>2, <2>2
  <2>8. Shows'
    <3>1. responses' = responses /\ history' = history
      BY <1>1
    <3>2. Adapters!Seen' = responses[id] \o rest
      BY <2>6, <2>7, <3>1 DEF Adapters!Seen
    <3>3. id \in 0..Len(responses)
      BY <1>2, <2>2
    <3> QED BY <2>5, <2>6, <3>1, <3>2, <3>3 DEF Shows, r
  <2>9. AdapterTypes' /\ Continued'
    BY <1>1, <2>6 DEF AdapterInv, AdapterTypes, Continued
  <2> QED BY <2>8, <2>9 DEF AdapterInv
<1>4. CASE ~(Adapters!Eligible /\ rest # None)
  <2>1. request' = [previous |-> 0, input |-> history]
    BY <1>1, <1>4
  <2> QED BY <1>1, <1>2, <2>1, InFull
<1> QED BY <1>3, <1>4

LEMMA ReplayStep ==
  ASSUME AdapterInv, Adapters!Replay
  PROVE  AdapterInv'
<1>1. /\ turn # None /\ request' = [previous |-> 0, input |-> history]
      /\ UNCHANGED <<history, messages, state, responses, expired, turn>>
  BY DEF Adapters!Replay, AdapterInv, AdapterTypes
<1> QED BY <1>1, InFull

(* The answer is remembered with the whole history, which it now ends.          *)
LEMMA RespondStep ==
  ASSUME AdapterInv, Adapters!Respond
  PROVE  AdapterInv'
<1> DEFINE k == turn.key
           answer == Adapters!Message("assistant", k, messages + 1)
           result == Adapters!Message("tool", None, messages + 2)
           n == Len(responses')
           r == Append(history, answer)
<1>1. PICK last \in BOOLEAN :
        /\ messages' = messages + (IF last THEN 1 ELSE 2)
        /\ responses' = Append(responses, Append(Adapters!Seen, answer))
        /\ history' = history \o (IF last THEN <<answer>> ELSE <<answer, result>>)
        /\ state' = [state EXCEPT ![k] = [id |-> n, model |-> turn.model]]
        /\ turn' = IF last THEN None ELSE turn
  BY Zenon DEF Adapters!Respond, Adapters!Makes
<1>2. request # None /\ request' = None /\ UNCHANGED expired
  BY DEF Adapters!Respond
<1>3. /\ turn # None /\ k \in Keys /\ turn.model \in Models /\ messages \in Nat
      /\ turn.history \in Histories
      /\ history \in Histories /\ responses \in Seq(Histories) /\ Len(responses) \in Nat
      /\ state \in [Keys -> Continuations \union {None}] /\ Adapters!Seen = history
  BY <1>2, Lengths DEF AdapterInv, AdapterTypes, Shows
<1>4. /\ answer \in Messages /\ answer.role = "assistant" /\ answer.by = k
      /\ result \in Messages /\ result.role = "tool"
  BY <1>3 DEF Adapters!Message, Messages
<1>5. responses' = Append(responses, r)
  BY <1>1, <1>3
<1> HIDE DEF answer, result
<1>6. /\ r \in Histories /\ Len(r) = Len(history) + 1 /\ Extends(r, history) /\ r[Len(history) + 1] = answer
      /\ Len(history) \in Nat
  BY <1>3, <1>4, Appended, Lengths DEF Histories
<1>7. /\ history' \in Histories /\ Extends(history', r) /\ Len(history') \in Nat
      /\ \A j \in 1..Len(history') : Len(history) + 1 < j => history'[j].role = "tool"
  <2>1. CASE last
    <3>1. history' = r
      BY <1>1, <1>3, <1>4, <2>1 DEF Histories
    <3> HIDE DEF r
    <3> QED BY <1>6, <3>1, Lengths DEF Extends, Histories
  <2>2. CASE ~last
    <3>1. history' = Append(r, result)
      <4>1. history' = history \o <<answer, result>>
        BY <1>1, <2>2
      <4> QED BY <1>3, <1>4, <4>1, TwoAppended
    <3> HIDE DEF r
    <3>2. /\ history' \in Histories /\ Extends(history', r) /\ Len(history') = Len(r) + 1
          /\ history'[Len(r) + 1] = result
      BY <1>4, <1>6, <3>1, Appended DEF Histories
    <3>3. \A j \in 1..Len(history') : Len(history) + 1 < j => j = Len(r) + 1
      BY <1>6, <3>2
    <3>4. Len(history') \in Nat
      BY <1>6, <3>2
    <3> QED BY <1>4, <3>2, <3>3, <3>4
  <2> QED BY <2>1, <2>2
<1>8. /\ responses' \in Seq(Histories) /\ n = Len(responses) + 1 /\ Extends(responses', responses)
      /\ responses'[n] = r /\ n \in 1..n /\ n \in Nat
  <2> HIDE DEF r
  <2>1. /\ responses' \in Seq(Histories) /\ n = Len(responses) + 1 /\ Extends(responses', responses)
        /\ responses'[n] = r
    BY <1>3, <1>5, <1>6, Appended
  <2> QED BY <1>3, <2>1
<1> HIDE DEF r, n
<1>9. Extends(history', history)
  BY <1>6, <1>7 DEF Extends
<1>10. /\ state' \in [Keys -> Continuations \union {None}]
       /\ state'[k] = [id |-> n, model |-> turn.model]
       /\ \A c \in Keys : c # k => state'[c] = state[c]
  <2>1. [id |-> n, model |-> turn.model] \in Continuations
    BY <1>3, <1>8 DEF Continuations
  <2> QED BY <1>1, <1>3, <2>1
<1>11. \A c \in Keys : Kept(history', c, state'[c], responses')
  <2> SUFFICES ASSUME NEW c \in Keys PROVE Kept(history', c, state'[c], responses')
    OBVIOUS
  <2>1. CASE c = k
    <3>1. ByKey(answer, k)
      BY <1>4 DEF ByKey
    <3>2. \A j \in 1..Len(history') : Len(history) + 1 < j => ~ByKey(history'[j], k)
      BY <1>7 DEF ByKey
    <3>3. n \in 1..Len(responses')
      BY <1>8 DEF n
    <3>4. Extends(history', Append(history, answer)) /\ responses'[n] = Append(history, answer)
      BY <1>7, <1>8 DEF r
    <3>5. Kept(history', k, [id |-> n, model |-> turn.model], responses')
      BY Zenon, <1>3, <1>4, <1>7, <1>8, <3>1, <3>2, <3>3, <3>4, KeptAnswer
    <3> QED BY <1>10, <2>1, <3>5
  <2>2. CASE c # k
    <3>1. Kept(history, c, state[c], responses)
      BY DEF AdapterInv, Continued
    <3>2. \A j \in 1..Len(history') : Len(history) < j => ~ByKey(history'[j], c)
      <4> SUFFICES ASSUME NEW j \in 1..Len(history'), Len(history) < j PROVE ~ByKey(history'[j], c)
        OBVIOUS
      <4>1. CASE Len(history) + 1 < j
        BY <1>7, <4>1 DEF ByKey
      <4>2. CASE j = Len(history) + 1
        <5>1. j \in 1..Len(r) /\ r[j] = answer
          BY <1>6, <4>2
        <5>2. history'[j] = answer
          BY <1>7, <5>1 DEF Extends
        <5> QED BY <1>4, <2>2, <5>2 DEF ByKey
      <4> QED BY <1>6, <1>7, <4>1, <4>2
    <3>3. Kept(history', c, state[c], responses')
      BY <1>3, <1>7, <1>8, <1>9, <3>1, <3>2, KeptLonger
    <3> QED BY <1>10, <2>2, <3>3
  <2> QED BY <2>1, <2>2
<1>12. turn' # None => \A c \in Keys :
         Kept(turn'.history, c, IF c = turn'.key THEN turn'.state ELSE state'[c], responses')
  <2> SUFFICES ASSUME turn' # None, NEW c \in Keys
               PROVE  Kept(turn.history, c, IF c = turn.key THEN turn.state ELSE state'[c], responses')
    BY <1>1
  <2> DEFINE st == IF c = turn.key THEN turn.state ELSE state[c]
  <2>1. Kept(turn.history, c, st, responses)
    BY <1>3 DEF AdapterInv, Continued
  <2>2. (IF c = turn.key THEN turn.state ELSE state'[c]) = st
    BY <1>10
  <2> HIDE DEF st
  <2>3. Kept(turn.history, c, st, responses')
    <3>1. Extends(turn.history, turn.history)
      BY <1>3, Lengths DEF Extends, Histories
    <3>2. Len(turn.history) \in Nat
      BY <1>3, Lengths DEF Histories
    <3>3. \A j \in 1..Len(turn.history) : ~(Len(turn.history) < j)
      BY <3>2
    <3> QED BY <1>3, <1>8, <2>1, <3>1, <3>3, KeptLonger
  <2> QED BY <2>2, <2>3
<1>13. Continued'
  BY <1>11, <1>12 DEF Continued
<1>14. AdapterTypes'
  <2>1. messages' \in Nat /\ turn' \in {None, turn}
    BY <1>1, <1>3
  <2>2. turn # None => turn \in [key : Keys, model : Models, history : Histories,
                                 state : Continuations \union {None}]
    BY DEF AdapterInv, AdapterTypes
  <2> QED BY <1>2, <1>7, <1>8, <1>10, <2>1, <2>2 DEF AdapterTypes
<1>15. Shows'
  BY <1>2 DEF Shows
<1> QED BY <1>13, <1>14, <1>15 DEF AdapterInv

(* A failed turn restores what it began with.                                *)
LEMMA RollBackTurnStep ==
  ASSUME AdapterInv, Adapters!RollBack
  PROVE  AdapterInv'
<1>1. /\ turn # None /\ history' = turn.history /\ state' = [state EXCEPT ![turn.key] = turn.state]
      /\ turn' = None /\ request' = None /\ UNCHANGED <<messages, responses, expired>>
  BY DEF Adapters!RollBack
<1>2. /\ turn.key \in Keys /\ turn.history \in Histories /\ turn.state \in Continuations \union {None}
      /\ state \in [Keys -> Continuations \union {None}]
  BY <1>1 DEF AdapterInv, AdapterTypes
<1>3. /\ state' \in [Keys -> Continuations \union {None}]
      /\ \A k \in Keys : state'[k] = IF k = turn.key THEN turn.state ELSE state[k]
  BY <1>1, <1>2
<1>4. AdapterTypes'
  BY <1>1, <1>2, <1>3 DEF AdapterInv, AdapterTypes
<1>5. Continued'
  BY <1>1, <1>3 DEF AdapterInv, Continued
<1>6. Shows'
  BY <1>1 DEF Shows
<1> QED BY <1>4, <1>5, <1>6 DEF AdapterInv

LEMMA CompactHistoryStep ==
  ASSUME AdapterInv, Adapters!Compact
  PROVE  AdapterInv'
<1>1. PICK n \in 1..Len(history) : history' = SubSeq(history, n + 1, Len(history))
  BY DEF Adapters!Compact
<1>2. /\ turn = None /\ state' = [k \in Keys |-> None]
      /\ UNCHANGED <<messages, responses, expired, turn, request>>
  BY DEF Adapters!Compact
<1>3. history' \in Histories
  <2>1. history \in Seq(Messages) /\ Len(history) \in Nat /\ \A i \in 1..Len(history) : history[i] \in Messages
    BY Lengths DEF AdapterInv, AdapterTypes, Histories
  <2>2. n + 1 \in Int /\ Len(history) \in Int /\ \A i \in (n + 1)..Len(history) : history[i] \in Messages
    BY <2>1
  <2> QED BY <1>1, <2>2, SubSeqProperties DEF Histories
<1>4. AdapterTypes'
  BY <1>2, <1>3 DEF AdapterInv, AdapterTypes
<1>5. Continued'
  BY <1>2 DEF AdapterInv, Continued, Kept
<1>6. Shows'
  BY <1>2 DEF AdapterInv, AdapterTypes, Shows
<1> QED BY <1>4, <1>5, <1>6 DEF AdapterInv

LEMMA AdapterSteps == AdapterInv /\ [Adapters!Next]_(Adapters!vars) => AdapterInv'
<1> SUFFICES ASSUME AdapterInv, [Adapters!Next]_(Adapters!vars) PROVE AdapterInv'
  OBVIOUS
<1>1. CASE UNCHANGED Adapters!vars
  BY Zenon, <1>1 DEF Adapters!vars, AdapterInv, AdapterTypes, Continued, Shows, Adapters!Seen
<1>2. CASE Adapters!Expire
  BY Zenon, <1>2 DEF Adapters!Expire, AdapterInv, AdapterTypes, Continued, Shows, Adapters!Seen
<1> QED
  BY <1>1, <1>2, AskStep, AppendMessageStep, SendStep, ReplayStep, RespondStep, RollBackTurnStep,
     CompactHistoryStep DEF Adapters!Next

-----------------------------------------------------------------------------
(* ContextEvidence.                                                          *)

Snapshots ==
  [id : Nat, version : Nat, expires : BOOLEAN, state : {"fresh", "stale", "unavailable"}]
Collectors ==
  [policy : {"session", "turn"}, at : {"new", "idle", "asking", "answered", "turn"}, late : BOOLEAN,
   asked : Nat, previous : Snapshots \union {None},
   read : [version : Nat, expires : BOOLEAN] \union {None},
   holds : Snapshots \union {None}, shown : Seq(Nat), puts : BOOLEAN]

ContextTypes ==
  /\ source \in Nat /\ since \in Nat /\ since <= source /\ captures \in Nat
  /\ cache \in Snapshots \union {None}
  /\ agent \in [Kernels -> Collectors] /\ forgotten \in [Kernels -> SUBSET Nat]
  /\ invalidated \in BOOLEAN /\ overlapped \in BOOLEAN

(* What an agent has shown are ids in the order of their capture, none newer    *)
(* than what it holds, and that is none newer than what is cached.            *)
Increasing(s) == \A i, j \in 1..Len(s) : i < j => s[i] < s[j]
Follows(r) ==
  /\ Increasing(r.shown)
  /\ r.shown # <<>> => r.holds # None
  /\ \A i \in 1..Len(r.shown) : r.shown[i] <= r.holds.id
  /\ r.puts => r.shown # <<>>
Remembers(r, dropped) ==
  r.holds # None => \/ r.holds.id \in dropped
                    \/ r.shown # <<>> /\ r.holds.id = r.shown[Len(r.shown)]
Latest ==
  /\ cache # None => cache.id <= captures
  /\ \A a \in Kernels : /\ agent[a].holds # None => cache # None /\ agent[a].holds.id <= cache.id
                        /\ Follows(agent[a]) /\ Remembers(agent[a], forgotten[a])

(* What was read was read after it was asked for; while no collection begins    *)
(* during another, one is under way at a time, and the invalidation that was     *)
(* taken back is the last one: the cache, or what is being read, is newer.      *)
InFlight(a) == agent[a].at \in {"asking", "answered"}
Unread(r) == r.at # "answered" => r.read = None
Current(r) ==
  /\ r.asked <= since /\ Unread(r)
  /\ r.at = "answered" /\ r.read # None => r.read.version >= r.asked
  /\ r.at \in {"idle", "turn"} /\ ~overlapped /\ r.holds # None /\ r.holds.state = "fresh" =>
       r.holds.version >= r.asked
Validated ==
  /\ \A a \in Kernels : Current(agent[a])
  /\ ~overlapped => \A a, b \in Kernels : InFlight(a) /\ InFlight(b) => a = b
  /\ ~overlapped /\ ~invalidated => \A a \in Kernels : InFlight(a) => agent[a].asked = since
  /\ ~overlapped /\ ~invalidated /\ (\A a \in Kernels : ~InFlight(a)) =>
       (cache # None /\ cache.state = "fresh" => cache.version >= since)

ContextInv == ContextTypes /\ Latest /\ Validated

(* What an agent is given comes last in what it has shown, unless it held it     *)
(* already (chat-agent.ts 375-386).                                          *)
LEMMA GivenShown ==
  ASSUME NEW a \in Kernels, ContextTypes, Follows(agent[a]), Remembers(agent[a], forgotten[a]),
         NEW r \in Collectors, r.shown = agent[a].shown, r.holds = agent[a].holds,
         NEW s \in Snapshots, r.holds # None => r.holds.id <= s.id,
         Context!Given(a, r, s)
  PROVE  /\ agent' \in [Kernels -> Collectors] /\ \A b \in Kernels : b # a => agent'[b] = agent[b]
         /\ agent'[a].at \in {"idle", "turn"} /\ agent'[a].holds = s /\ agent'[a].asked = r.asked
         /\ agent'[a].read = None
         /\ Follows(agent'[a]) /\ Remembers(agent'[a], forgotten[a])
<1> DEFINE new == r.holds = None \/ r.holds.id # s.id
           shown == IF new THEN Append(r.shown, s.id) ELSE r.shown
           q == [r EXCEPT !.at = IF r.holds = None THEN "idle" ELSE "turn", !.holds = s,
                          !.previous = None, !.read = None, !.late = FALSE, !.puts = new,
                          !.shown = IF new THEN Append(@, s.id) ELSE @]
<1>1. /\ r.shown \in Seq(Nat) /\ s.id \in Nat /\ Len(r.shown) \in Nat /\ s # None
      /\ \A i \in 1..Len(r.shown) : r.shown[i] \in Nat
      /\ r.holds # None => r.holds \in Snapshots /\ r.holds.id \in Nat
  <2>1. r.shown \in Seq(Nat) /\ s.id \in Nat
    BY DEF Collectors, Snapshots
  <2>2. Len(r.shown) \in Nat /\ \A i \in 1..Len(r.shown) : r.shown[i] \in Nat
    BY <2>1, LenProperties
  <2>3. s # None
    BY KernelsAssumption DEF Snapshots
  <2>4. r.holds # None => r.holds \in Snapshots /\ r.holds.id \in Nat
    BY DEF Collectors, Snapshots
  <2> QED BY <2>1, <2>2, <2>3, <2>4
<1>2. shown \in Seq(Nat)
  BY <1>1
<1>3. /\ q \in Collectors /\ q.at \in {"idle", "turn"} /\ q.holds = s /\ q.asked = r.asked
      /\ q.shown = shown /\ q.puts = new /\ q.read = None
  <2>1. new \in BOOLEAN
    OBVIOUS
  <2>2. q = [r EXCEPT !.at = IF r.holds = None THEN "idle" ELSE "turn", !.holds = s,
                      !.previous = None, !.read = None, !.late = FALSE, !.puts = new, !.shown = shown]
    OBVIOUS
  <2> HIDE DEF new, shown, q
  <2> QED BY Zenon, <1>2, <2>1, <2>2 DEF Collectors
<1>4. agent' = [agent EXCEPT ![a] = q]
  BY DEF Context!Given, Context!Told
<1>5. /\ agent' \in [Kernels -> Collectors] /\ agent'[a] = q
      /\ \A b \in Kernels : b # a => agent'[b] = agent[b]
  <2> HIDE DEF q
  <2> QED BY <1>3, <1>4 DEF ContextTypes
<1>6. CASE new
  <2>1. /\ shown # <<>> /\ Len(shown) = Len(r.shown) + 1 /\ shown[Len(r.shown) + 1] = s.id
        /\ \A i \in 1..Len(r.shown) : shown[i] = r.shown[i]
    <3>1. /\ Append(r.shown, s.id) # <<>> /\ Len(Append(r.shown, s.id)) = Len(r.shown) + 1
          /\ Append(r.shown, s.id)[Len(r.shown) + 1] = s.id
          /\ \A i \in 1..Len(r.shown) : Append(r.shown, s.id)[i] = r.shown[i]
      <4> HIDE DEF new, shown, q
      <4>1. r.shown \in Seq(Nat) /\ s.id \in Nat
        BY <1>1
      <4> QED BY <4>1, AppendProperties
    <3>2. shown = Append(r.shown, s.id)
      BY <1>6
    <3> HIDE DEF new, shown, q
    <3> QED BY <3>1, <3>2
  <2>2. \A i \in 1..Len(r.shown) : r.shown[i] < s.id
    <3> SUFFICES ASSUME NEW i \in 1..Len(r.shown) PROVE r.shown[i] < s.id
      OBVIOUS
    <3>1. r.shown # <<>>
      BY <1>1
    <3>2. r.holds # None /\ r.shown[i] <= r.holds.id /\ r.holds.id <= s.id /\ r.holds.id # s.id
      BY <3>1, <1>6 DEF Follows
    <3>3. r.shown[i] \in Nat /\ r.holds.id \in Nat /\ s.id \in Nat
      BY <1>1, <3>2
    <3>4. \A k, m, n \in Nat : k <= m /\ m <= n /\ m # n => k < n
      OBVIOUS
    <3> QED BY <3>2, <3>3, <3>4
  <2> HIDE DEF shown, q
  <2>3. \A i \in 1..Len(shown) : i \in 1..Len(r.shown) \/ i = Len(r.shown) + 1
    BY <1>1, <2>1
  <2>4. Increasing(shown)
    <3> SUFFICES ASSUME NEW i \in 1..Len(shown), NEW j \in 1..Len(shown), i < j PROVE shown[i] < shown[j]
      BY DEF Increasing
    <3>1. i \in 1..Len(r.shown)
      BY <1>1, <2>1
    <3>2. CASE j \in 1..Len(r.shown)
      BY Zenon, <2>1, <3>1, <3>2 DEF Follows, Increasing
    <3>3. CASE j = Len(r.shown) + 1
      BY <2>1, <2>2, <3>1, <3>3
    <3> QED BY <2>3, <3>2, <3>3
  <2>5. \A i \in 1..Len(shown) : shown[i] <= s.id
    <3> SUFFICES ASSUME NEW i \in 1..Len(shown) PROVE shown[i] <= s.id
      OBVIOUS
    <3>1. CASE i \in 1..Len(r.shown)
      <4>1. shown[i] = r.shown[i] /\ r.shown[i] < s.id
        BY <2>1, <2>2, <3>1
      <4>2. r.shown[i] \in Nat /\ s.id \in Nat
        BY Zenon, <1>1, <3>1
      <4>3. \A m, n \in Nat : m < n => m <= n
        OBVIOUS
      <4> QED BY <4>1, <4>2, <4>3
    <3>2. CASE i = Len(r.shown) + 1
      <4>1. shown[i] = s.id /\ s.id \in Nat
        BY <1>1, <2>1, <3>2
      <4>2. \A m \in Nat : m <= m
        OBVIOUS
      <4> QED BY <4>1, <4>2
    <3> QED BY <2>3, <3>1, <3>2
  <2> QED BY Zenon, <1>1, <1>3, <1>5, <2>1, <2>4, <2>5 DEF Follows, Remembers
<1>7. CASE ~new
  <2>1. shown = r.shown /\ r.holds # None /\ r.holds.id = s.id
    BY <1>7
  <2> HIDE DEF shown, q
  <2> QED BY Zenon, <1>1, <1>3, <1>5, <1>7, <2>1 DEF Follows, Remembers
<1> QED BY <1>6, <1>7

(* A collection that ends: what is cached is what the agent is given.          *)
LEMMA CollectedStep ==
  ASSUME ContextInv, NEW a \in Kernels, NEW r \in Collectors,
         r.shown = agent[a].shown, r.holds = agent[a].holds, r.asked <= since,
         cache' \in Snapshots, captures' \in Nat, captures <= captures', cache'.id <= captures',
         cache # None => cache.id <= cache'.id,
         Context!Given(a, r, cache'), UNCHANGED <<source, since, invalidated, forgotten>>,
         overlapped' \in BOOLEAN, overlapped => overlapped',
         ~overlapped' => /\ \A b \in Kernels : b # a => ~InFlight(b)
                         /\ cache'.state = "fresh" => cache'.version >= r.asked
                         /\ ~invalidated /\ cache'.state = "fresh" => cache'.version >= since
  PROVE  ContextInv'
<1> USE DEF ContextInv
<1> DEFINE q == agent'[a]
<1>1. /\ agent \in [Kernels -> Collectors] /\ forgotten \in [Kernels -> SUBSET Nat]
      /\ Follows(agent[a]) /\ Remembers(agent[a], forgotten[a]) /\ cache' # None
      /\ since \in Nat /\ captures \in Nat
  BY KernelsAssumption DEF ContextTypes, Latest, Snapshots
<1>2. \A b \in Kernels : agent[b].holds # None => agent[b].holds.id <= cache'.id
  <2> SUFFICES ASSUME NEW b \in Kernels, agent[b].holds # None PROVE agent[b].holds.id <= cache'.id
    OBVIOUS
  <2>1. agent[b].holds.id <= cache.id /\ cache.id <= cache'.id
    BY DEF Latest
  <2>2. agent[b].holds.id \in Nat /\ cache.id \in Nat /\ cache'.id \in Nat
    BY Zenon DEF Latest, ContextTypes, Collectors, Snapshots
  <2> QED BY <2>1, <2>2
<1>3. /\ agent' \in [Kernels -> Collectors] /\ \A b \in Kernels : b # a => agent'[b] = agent[b]
      /\ q.at \in {"idle", "turn"} /\ q.holds = cache' /\ q.asked = r.asked /\ q.read = None
      /\ Follows(q) /\ Remembers(q, forgotten[a])
  BY <1>1, <1>2, GivenShown
<1> HIDE DEF q
<1>4. agent'[a] = q
  BY DEF q
<1>5. ContextTypes'
  BY <1>3 DEF ContextTypes
<1>6. Latest'
  <2>1. cache'.id \in Nat
    BY DEF Snapshots
  <2>2. ASSUME NEW b \in Kernels
        PROVE  /\ agent'[b].holds # None => cache' # None /\ agent'[b].holds.id <= cache'.id
               /\ Follows(agent'[b]) /\ Remembers(agent'[b], forgotten'[b])
    <3>1. CASE b = a
      BY <1>1, <1>3, <1>4, <2>1, <3>1
    <3>2. CASE b # a
      BY <1>1, <1>2, <1>3, <3>2 DEF Latest
    <3> QED BY <3>1, <3>2
  <2> QED BY <2>2 DEF Latest
<1>7. \A b \in Kernels : InFlight(b)' => b # a /\ InFlight(b)
  BY <1>3, <1>4 DEF InFlight
<1>8. \A b \in Kernels : Current(agent[b])'
  <2> SUFFICES ASSUME NEW b \in Kernels PROVE Current(agent[b])'
    OBVIOUS
  <2>1. CASE b = a
    BY <1>1, <1>3, <1>4, <2>1 DEF Current, Unread
  <2>2. CASE b # a
    BY <1>3, <2>2 DEF Validated, Current, Unread
  <2> QED BY <2>1, <2>2
<1>9. Validated'
  BY <1>7, <1>8 DEF Validated
<1> QED BY <1>5, <1>6, <1>9

(* A snapshot has the next id, and is no fresher than it is told to be.        *)
LEMMA CapturedIs ==
  ASSUME captures \in Nat, NEW v \in Nat, NEW x \in BOOLEAN, NEW l \in BOOLEAN,
         NEW s \in {"fresh", "stale", "unavailable"}
  PROVE  LET c == Context!Captured(v, x, s, l) IN
         c \in Snapshots /\ c.id = captures + 1 /\ c.version = v /\ (c.state = "fresh" => s = "fresh")
BY DEF Context!Captured, Snapshots

(* Served from the cache, no collection being under way.                      *)
LEMMA ServeStep ==
  ASSUME ContextInv, NEW a \in Kernels, Context!Serve(a)
  PROVE  ContextInv'
<1> DEFINE r == Context!Collecting(a)
<1>1. /\ agent[a].at \in {"new", "idle"} /\ cache # None /\ ~invalidated
      /\ overlapped' = (overlapped \/ \E b \in Kernels \ {a} : InFlight(b))
      /\ Context!Given(a, r, cache')
      /\ UNCHANGED <<source, since, invalidated, clock, forgotten, drops>>
      /\ \/ /\ captures' = captures + 1
            /\ cache' = Context!Captured(cache.version, TRUE, "stale", TRUE)
         \/ UNCHANGED <<captures, cache>>
  BY Zenon DEF Context!Serve, Context!Refreshes, Context!Overlaps, Context!Captures, InFlight
<1>2. /\ agent[a] \in Collectors /\ since \in Nat /\ captures \in Nat /\ cache \in Snapshots
      /\ overlapped \in BOOLEAN /\ cache.id \in Nat /\ cache.id <= captures
  BY <1>1 DEF ContextInv, ContextTypes, Latest, Snapshots
<1>3. r \in Collectors /\ r.shown = agent[a].shown /\ r.holds = agent[a].holds /\ r.asked = since
  BY Zenon, <1>2 DEF Context!Collecting, Collectors
<1>4. /\ cache' \in Snapshots /\ captures' \in Nat /\ captures <= captures' /\ cache'.id <= captures'
      /\ cache.id <= cache'.id /\ (cache'.state = "fresh" => cache' = cache)
  <2>1. CASE UNCHANGED <<captures, cache>>
    BY <1>2, <2>1
  <2>2. CASE captures' = captures + 1 /\ cache' = Context!Captured(cache.version, TRUE, "stale", TRUE)
    <3>1. cache.version \in Nat
      BY <1>2 DEF Snapshots
    <3>2. cache' \in Snapshots /\ cache'.id = captures + 1 /\ cache'.state # "fresh"
      BY Zenon, <1>2, <2>2, <3>1, CapturedIs
    <3>3. captures + 1 \in Nat /\ captures <= captures + 1 /\ cache.id <= captures + 1
      BY <1>2
    <3>4. captures' = captures + 1
      BY <2>2
    <3> QED BY <3>2, <3>3, <3>4
  <2> QED BY Zenon, <1>1, <2>1, <2>2
<1> HIDE DEF r
<1>5. ~overlapped' => \A b \in Kernels : ~InFlight(b)
  BY Zenon, <1>1 DEF InFlight
<1>6. ~overlapped' /\ cache'.state = "fresh" => cache'.version >= since
  BY <1>1, <1>2, <1>4, <1>5 DEF ContextInv, Validated
<1> QED BY <1>1, <1>2, <1>3, <1>4, <1>5, <1>6, CollectedStep

(* The answer of the provider, or what there was before.                      *)
LEMMA StoreStep ==
  ASSUME ContextInv, NEW a \in Kernels, Context!Store(a) \/ Context!Retain(a)
  PROVE  ContextInv'
<1> DEFINE r == agent[a]
<1>1. /\ r.at = "answered" /\ Context!Given(a, r, cache') /\ captures' = captures + 1
      /\ UNCHANGED <<source, since, invalidated, forgotten, overlapped>>
      /\ \/ /\ r.read # None
            /\ cache' = Context!Captured(r.read.version, r.read.expires, "fresh", r.late)
         \/ cache' = Context!Captured(0, FALSE, "unavailable", r.late)
         \/ /\ r.previous # None
            /\ cache' = Context!Captured(r.previous.version, r.previous.expires, "stale", r.late)
  BY Zenon DEF Context!Store, Context!Retain, Context!Captures
<1>2. /\ r \in Collectors /\ since \in Nat /\ captures \in Nat /\ overlapped \in BOOLEAN
      /\ r.asked <= since
      /\ r.read # None => r.read.version >= r.asked
      /\ cache # None => cache.id \in Nat /\ cache.id <= captures
  BY <1>1 DEF ContextInv, ContextTypes, Latest, Validated, Current, Snapshots
<1>3. /\ cache' \in Snapshots /\ cache'.id = captures + 1
      /\ cache'.state = "fresh" => cache'.version >= r.asked
  <2>1. /\ r.late \in BOOLEAN
        /\ r.read # None => r.read.version \in Nat /\ r.read.expires \in BOOLEAN
        /\ r.previous # None => r.previous.version \in Nat /\ r.previous.expires \in BOOLEAN
    BY <1>2 DEF Collectors, Snapshots
  <2> HIDE DEF r
  <2>2. CASE r.read # None /\ cache' = Context!Captured(r.read.version, r.read.expires, "fresh", r.late)
    <3>1. cache' \in Snapshots /\ cache'.id = captures + 1 /\ cache'.version = r.read.version
      BY <1>2, <2>1, <2>2, CapturedIs
    <3> QED BY <1>2, <2>2, <3>1
  <2>3. CASE cache' = Context!Captured(0, FALSE, "unavailable", r.late)
    <3>1. /\ cache' \in Snapshots /\ cache'.id = captures + 1
          /\ cache'.state = "fresh" => "unavailable" = "fresh"
      <4> DEFINE l == r.late
      <4>1. captures \in Nat /\ l \in BOOLEAN /\ cache' = Context!Captured(0, FALSE, "unavailable", l)
        BY <1>2, <2>1, <2>3
      <4> HIDE DEF l
      <4> QED BY Zenon, <4>1, CapturedIs
    <3> QED BY <3>1
  <2>4. CASE /\ r.previous # None
             /\ cache' = Context!Captured(r.previous.version, r.previous.expires, "stale", r.late)
    <3>1. /\ cache' \in Snapshots /\ cache'.id = captures + 1
          /\ cache'.state = "fresh" => "stale" = "fresh"
      <4> DEFINE l == r.late
                 v == r.previous.version
                 x == r.previous.expires
      <4>1. /\ captures \in Nat /\ l \in BOOLEAN /\ v \in Nat /\ x \in BOOLEAN
            /\ cache' = Context!Captured(v, x, "stale", l)
        BY <1>2, <2>1, <2>4
      <4> HIDE DEF l, v, x
      <4> QED BY <4>1, CapturedIs
    <3> QED BY <3>1
  <2> QED BY Zenon, <1>1, <2>2, <2>3, <2>4
<1>4. InFlight(a)
  BY <1>1 DEF InFlight
<1> HIDE DEF r
<1>5. /\ captures' \in Nat /\ captures <= captures' /\ cache'.id <= captures'
      /\ cache # None => cache.id <= cache'.id
  BY <1>1, <1>2, <1>3
<1>6. ~overlapped => \A b \in Kernels : b # a => ~InFlight(b)
  BY <1>4 DEF ContextInv, Validated
<1>7. ~overlapped /\ ~invalidated => r.asked = since
  BY <1>4 DEF ContextInv, Validated, r
<1>8. r.shown = agent[a].shown /\ r.holds = agent[a].holds
  BY DEF r
<1>9. Context!Given(a, r, cache') /\ UNCHANGED <<source, since, invalidated, forgotten, overlapped>>
  BY <1>1
<1> QED BY <1>2, <1>3, <1>5, <1>6, <1>7, <1>8, <1>9, CollectedStep

(* What changes neither the cache, nor what agents hold and have shown.        *)
LEMMA RefreshContextStep ==
  ASSUME ContextInv, NEW a \in Kernels, Context!Refresh(a)
  PROVE  ContextInv'
<1> DEFINE q == [Context!Collecting(a) EXCEPT !.at = "asking", !.previous = cache]
<1>1. /\ agent[a].at \in {"new", "idle"} /\ invalidated' = FALSE
      /\ overlapped' = (overlapped \/ \E b \in Kernels \ {a} : InFlight(b))
      /\ agent' = [agent EXCEPT ![a] = q]
      /\ UNCHANGED <<source, since, cache, captures, forgotten>>
  BY DEF Context!Refresh, Context!Overlaps, InFlight
<1>2. agent[a] \in Collectors /\ since \in Nat /\ cache \in Snapshots \union {None} /\ overlapped \in BOOLEAN
  BY DEF ContextInv, ContextTypes
<1>3. /\ q \in Collectors /\ q.at = "asking" /\ q.asked = since /\ q.shown = agent[a].shown
      /\ q.holds = agent[a].holds /\ q.puts = agent[a].puts /\ q.read = agent[a].read
  BY Zenon, <1>2 DEF Context!Collecting, Collectors
<1> HIDE DEF q
<1>4. /\ agent' \in [Kernels -> Collectors] /\ agent'[a] = q
      /\ \A b \in Kernels : b # a => agent'[b] = agent[b]
  BY <1>1, <1>3 DEF ContextInv, ContextTypes
<1>5. ContextTypes'
  BY Zenon, <1>1, <1>2, <1>4 DEF ContextInv, ContextTypes
<1>6. Latest'
  <2> SUFFICES ASSUME NEW b \in Kernels
               PROVE  /\ agent'[b].holds # None => cache # None /\ agent'[b].holds.id <= cache.id
                      /\ Follows(agent'[b]) /\ Remembers(agent'[b], forgotten[b])
    BY <1>1 DEF ContextInv, Latest
  <2>1. CASE b = a
    BY <1>3, <1>4, <2>1 DEF ContextInv, Latest, Follows, Remembers
  <2>2. CASE b # a
    BY <1>4, <2>2 DEF ContextInv, Latest
  <2> QED BY <2>1, <2>2
<1>7. \A b \in Kernels : Current(agent[b])'
  <2> SUFFICES ASSUME NEW b \in Kernels PROVE Current(agent[b])'
    OBVIOUS
  <2>1. CASE b = a
    <3>1. agent[a].read = None
      BY <1>1 DEF ContextInv, Validated, Current, Unread
    <3> QED BY <1>1, <1>2, <1>3, <1>4, <2>1, <3>1 DEF Current, Unread
  <2>2. CASE b # a
    BY Zenon, <1>1, <1>4, <2>2 DEF ContextInv, Validated, Current, Unread
  <2> QED BY <2>1, <2>2
<1>8. /\ InFlight(a)' /\ agent'[a].asked = since
      /\ \A b \in Kernels : b # a => (InFlight(b)' <=> InFlight(b))
      /\ ~overlapped' => \A b \in Kernels : b # a => ~InFlight(b)
  BY Zenon, <1>1, <1>3, <1>4 DEF InFlight
<1>9. Validated'
  BY <1>1, <1>7, <1>8 DEF ContextInv, Validated
<1> QED BY <1>5, <1>6, <1>9 DEF ContextInv

(* The provider reads its source, no earlier than it is asked.                *)
LEMMA ReadStep ==
  ASSUME ContextInv, NEW a \in Kernels, Context!Read(a)
  PROVE  ContextInv'
<1>1. /\ agent[a].at = "asking" /\ UNCHANGED <<source, since, cache, invalidated, captures, forgotten, overlapped>>
      /\ \/ agent' = [agent EXCEPT ![a].at = "answered",
                                   ![a].read = [version |-> source, expires |-> clock = "before"]]
         \/ agent' = [agent EXCEPT ![a].at = "answered"]
  BY DEF Context!Read
<1>2. agent[a] \in Collectors /\ since \in Nat /\ source \in Nat /\ since <= source
  BY DEF ContextInv, ContextTypes
<1>3. /\ agent' \in [Kernels -> Collectors] /\ \A b \in Kernels : b # a => agent'[b] = agent[b]
      /\ agent'[a].at = "answered" /\ agent'[a].shown = agent[a].shown
      /\ agent'[a].holds = agent[a].holds /\ agent'[a].puts = agent[a].puts
      /\ agent'[a].asked = agent[a].asked
      /\ agent'[a].read = agent[a].read \/ agent'[a].read.version = source
  <2>1. (clock = "before") \in BOOLEAN
    OBVIOUS
  <2>2. CASE agent' = [agent EXCEPT ![a].at = "answered"]
    BY Zenon, <1>2, <2>2 DEF ContextInv, ContextTypes, Collectors
  <2>3. CASE agent' = [agent EXCEPT ![a].at = "answered",
                         ![a].read = [version |-> source, expires |-> clock = "before"]]
    <3> DEFINE now == [version |-> source, expires |-> clock = "before"]
    <3>1. now \in [version : Nat, expires : BOOLEAN] /\ now.version = source
      BY <1>2, <2>1
    <3> HIDE DEF now
    <3>2. agent' = [agent EXCEPT ![a].at = "answered", ![a].read = now]
      BY <2>3 DEF now
    <3> QED BY Zenon, <1>2, <3>1, <3>2 DEF ContextInv, ContextTypes, Collectors
  <2> QED BY <1>1, <2>2, <2>3
<1>4. ContextTypes'
  BY <1>1, <1>3 DEF ContextInv, ContextTypes
<1>5. Latest'
  <2> SUFFICES ASSUME NEW b \in Kernels
               PROVE  /\ agent'[b].holds # None => cache # None /\ agent'[b].holds.id <= cache.id
                      /\ Follows(agent'[b]) /\ Remembers(agent'[b], forgotten[b])
    BY <1>1 DEF ContextInv, Latest
  <2>1. CASE b = a
    BY <1>3, <2>1 DEF ContextInv, Latest, Follows, Remembers
  <2>2. CASE b # a
    BY <1>3, <2>2 DEF ContextInv, Latest
  <2> QED BY <2>1, <2>2
<1>6. \A b \in Kernels : Current(agent[b])'
  <2> SUFFICES ASSUME NEW b \in Kernels PROVE Current(agent[b])'
    OBVIOUS
  <2>1. CASE b = a
    <3>1. agent[a].asked <= since /\ agent[a].asked \in Nat
      BY <1>2 DEF ContextInv, Validated, Current, Collectors
    <3>2. agent[a].read = None
      BY <1>1 DEF ContextInv, Validated, Current, Unread
    <3>3. agent[a].asked <= source
      BY <1>2, <3>1
    <3> QED BY <1>1, <1>3, <2>1, <3>1, <3>2, <3>3 DEF Current, Unread
  <2>2. CASE b # a
    BY <1>1, <1>3, <2>2 DEF ContextInv, Validated, Current, Unread
  <2> QED BY <2>1, <2>2
<1>7. \A b \in Kernels : (InFlight(b)' <=> InFlight(b)) /\ agent'[b].asked = agent[b].asked
  BY <1>1, <1>3 DEF InFlight
<1>8. Validated'
  BY <1>1, <1>6, <1>7 DEF ContextInv, Validated
<1> QED BY <1>4, <1>5, <1>8 DEF ContextInv

(* A message is dropped: what it showed is forgotten, and shown no more        *)
(* (chat-agent.ts, rollbacks, resets and compaction).                        *)
LEMMA ShowingStep ==
  ASSUME ContextInv, NEW a \in Kernels, agent[a].at \in {"turn", "idle"},
         NEW kept \in Seq(Nat), Context!Idle(a, kept), Increasing(kept),
         kept # <<>> => agent[a].holds # None,
         \A i \in 1..Len(kept) : kept[i] <= agent[a].holds.id,
         forgotten' \in [Kernels -> SUBSET Nat], \A b \in Kernels : forgotten[b] \subseteq forgotten'[b],
         Remembers(agent[a], forgotten[a]) =>
           (agent[a].holds # None => \/ agent[a].holds.id \in forgotten'[a]
                                     \/ kept # <<>> /\ agent[a].holds.id = kept[Len(kept)]),
         UNCHANGED <<source, since, cache, invalidated, captures, overlapped>>
  PROVE  ContextInv'
<1>1. agent[a] \in Collectors /\ agent \in [Kernels -> Collectors]
  BY DEF ContextInv, ContextTypes
<1>2. agent' = [agent EXCEPT ![a].at = "idle", ![a].shown = kept, ![a].puts = FALSE]
  BY DEF Context!Idle
<1>3. /\ agent' \in [Kernels -> Collectors] /\ \A b \in Kernels : b # a => agent'[b] = agent[b]
      /\ agent'[a].at = "idle" /\ agent'[a].shown = kept /\ agent'[a].puts = FALSE
      /\ agent'[a].holds = agent[a].holds /\ agent'[a].asked = agent[a].asked
      /\ agent'[a].read = agent[a].read
  BY Zenon, <1>1, <1>2 DEF Collectors
<1>4. ContextTypes'
  BY <1>3 DEF ContextInv, ContextTypes
<1>5. Latest'
  <2> SUFFICES ASSUME NEW b \in Kernels
               PROVE  /\ agent'[b].holds # None => cache # None /\ agent'[b].holds.id <= cache.id
                      /\ Follows(agent'[b]) /\ Remembers(agent'[b], forgotten'[b])
    BY DEF ContextInv, Latest
  <2>1. CASE b = a
    BY <1>3, <2>1 DEF ContextInv, Latest, Follows, Remembers
  <2>2. CASE b # a
    BY <1>3, <2>2 DEF ContextInv, Latest, Remembers
  <2> QED BY <2>1, <2>2
<1>6. \A b \in Kernels : Current(agent[b])'
  BY <1>3 DEF ContextInv, Validated, Current, Unread
<1>7. \A b \in Kernels : (InFlight(b)' <=> InFlight(b)) /\ agent'[b].asked = agent[b].asked
  BY <1>3 DEF InFlight
<1>8. Validated'
  BY Zenon, <1>6, <1>7 DEF ContextInv, Validated
<1> QED BY <1>4, <1>5, <1>8 DEF ContextInv

LEMMA CompleteStep ==
  ASSUME ContextInv, NEW a \in Kernels, Context!Complete(a)
  PROVE  ContextInv'
<1> DEFINE kept == agent[a].shown
<1>1. /\ agent[a].at = "turn" /\ Context!Idle(a, kept)
      /\ UNCHANGED <<source, since, cache, invalidated, captures, forgotten, overlapped>>
  BY DEF Context!Complete, Context!Shown
<1>2. /\ kept \in Seq(Nat) /\ Follows(agent[a]) /\ forgotten \in [Kernels -> SUBSET Nat]
  BY DEF ContextInv, ContextTypes, Latest, Collectors
<1>3. /\ kept # <<>> => agent[a].holds # None
      /\ \A i \in 1..Len(kept) : kept[i] <= agent[a].holds.id
  BY <1>2 DEF Follows
<1>4. Increasing(kept)
  BY <1>2 DEF Follows
<1>5. Remembers(agent[a], forgotten[a]) =>
        (agent[a].holds # None => \/ agent[a].holds.id \in forgotten[a]
                                  \/ kept # <<>> /\ agent[a].holds.id = kept[Len(kept)])
  BY DEF Remembers
<1> HIDE DEF kept
<1> QED BY <1>1, <1>2, <1>3, <1>4, <1>5, ShowingStep

(* Of a sequence without repetition, a part has the last element only last.     *)
PartOf(p, s) ==
  \A i \in 1..Len(p) : \E j \in 1..Len(s) :
    p[i] = s[j] /\ (i # Len(p) => j # Len(s))

LEMMA NotEmpty ==
  ASSUME NEW s \in Seq(Nat)
  PROVE  Len(s) \in Nat /\ (s # <<>> <=> Len(s) \in 1..Len(s)) /\ (s # <<>> <=> 1 \in 1..Len(s))
<1>1. Len(s) \in Nat /\ (s = <<>> <=> Len(s) = 0)
  BY LenProperties, EmptySeq
<1> QED BY <1>1

LEMMA LastStaysLast ==
  ASSUME NEW s \in Seq(Nat), NEW p \in Seq(Nat), Increasing(s), PartOf(p, s),
         NEW i \in 1..Len(p), p[i] = s[Len(s)]
  PROVE  p # <<>> /\ p[Len(p)] = s[Len(s)]
<1>1. PICK j \in 1..Len(s) : p[i] = s[j] /\ (i # Len(p) => j # Len(s))
  BY DEF PartOf
<1>2. Len(s) \in Nat /\ Len(p) \in Nat
  BY NotEmpty
<1>3. Len(s) \in 1..Len(s) /\ s[j] \in Nat
  BY <1>1, <1>2
<1>4. j = Len(s)
  <2> SUFFICES ASSUME j < Len(s) PROVE FALSE
    BY <1>1, <1>2
  <2>1. s[j] < s[Len(s)]
    BY Zenon, <1>1, <1>3 DEF Increasing
  <2> QED BY <1>1, <1>3, <2>1
<1>5. i = Len(p)
  BY <1>1, <1>4
<1>6. p # <<>>
  BY <1>2, NotEmpty
<1> QED BY <1>5, <1>6

(* What is dropped is forgotten: if it was the last that was shown, it is shown  *)
(* no more, since no id is shown twice.                                      *)
LEMMA DropStep ==
  ASSUME ContextInv, NEW a \in Kernels, agent[a].at \in {"turn", "idle"},
         NEW kept \in Seq(Nat), Context!Drop(a, kept), Increasing(kept), PartOf(kept, agent[a].shown)
  PROVE  ContextInv'
<1> DEFINE shown == agent[a].shown
<1>1. /\ Context!Idle(a, kept)
      /\ forgotten' = [forgotten EXCEPT ![a] = @ \union (Context!Range(shown) \ Context!Range(kept))]
      /\ UNCHANGED <<source, since, cache, invalidated, captures, overlapped>>
  BY DEF Context!Drop, Context!Shown
<1>2. /\ shown \in Seq(Nat) /\ Follows(agent[a]) /\ forgotten \in [Kernels -> SUBSET Nat]
      /\ Len(shown) \in Nat /\ Len(kept) \in Nat
      /\ DOMAIN shown = 1..Len(shown) /\ DOMAIN kept = 1..Len(kept)
      /\ \A i \in 1..Len(shown) : shown[i] \in Nat
  BY LenProperties DEF ContextInv, ContextTypes, Latest, Collectors
<1>3. Context!Range(shown) = {shown[i] : i \in 1..Len(shown)}
      /\ Context!Range(kept) = {kept[i] : i \in 1..Len(kept)}
  BY <1>2 DEF Context!Range
<1>4. PartOf(kept, shown)
  OBVIOUS
<1>5. /\ Increasing(shown) /\ (shown # <<>> => agent[a].holds # None)
      /\ \A i \in 1..Len(shown) : shown[i] <= agent[a].holds.id
  BY <1>2 DEF Follows
<1> HIDE DEF shown
<1>6. /\ forgotten' \in [Kernels -> SUBSET Nat] /\ \A b \in Kernels : forgotten[b] \subseteq forgotten'[b]
      /\ forgotten'[a] = forgotten[a] \union (Context!Range(shown) \ Context!Range(kept))
  <2>1. Context!Range(shown) \subseteq Nat
    BY <1>2, <1>3
  <2> QED BY <1>1, <1>2, <2>1
<1>7. /\ kept # <<>> => agent[a].holds # None
      /\ \A i \in 1..Len(kept) : kept[i] <= agent[a].holds.id
  <2>1. kept # <<>> => shown # <<>>
    <3>1. (kept # <<>> => 1 \in 1..Len(kept)) /\ (shown = <<>> => Len(shown) = 0)
      BY <1>2, NotEmpty
    <3> QED BY <1>4, <3>1 DEF PartOf
  <2>2. \A i \in 1..Len(kept) : \E j \in 1..Len(shown) : kept[i] = shown[j]
    BY <1>4 DEF PartOf
  <2> QED BY <1>5, <2>1, <2>2
<1>8. ASSUME shown # <<>>, shown[Len(shown)] \notin Context!Range(shown) \ Context!Range(kept)
      PROVE  kept # <<>> /\ kept[Len(kept)] = shown[Len(shown)]
  <2>1. Len(shown) \in 1..Len(shown)
    BY <1>2, <1>8, NotEmpty
  <2>2. PICK i \in 1..Len(kept) : kept[i] = shown[Len(shown)]
    BY <1>3, <1>8, <2>1
  <2> QED BY Zenon, <1>2, <1>4, <1>5, <2>2, LastStaysLast
<1>9. Remembers(agent[a], forgotten[a]) =>
        (agent[a].holds # None => \/ agent[a].holds.id \in forgotten'[a]
                                  \/ kept # <<>> /\ agent[a].holds.id = kept[Len(kept)])
  BY <1>6, <1>8 DEF Remembers, shown
<1> QED BY Zenon, <1>1, <1>6, <1>7, <1>9, ShowingStep

(* What remains of what was shown, all but the last or without some in the      *)
(* middle, is a part of it in the same order (chat-agent.ts, compaction).       *)
LEMMA FrontIsPart ==
  ASSUME NEW s \in Seq(Nat), s # <<>>, Increasing(s)
  PROVE  LET p == SubSeq(s, 1, Len(s) - 1) IN p \in Seq(Nat) /\ Increasing(p) /\ PartOf(p, s)
<1> DEFINE p == SubSeq(s, 1, Len(s) - 1)
<1>1. Len(s) \in Nat /\ Len(s) >= 1 /\ \A i \in 1..Len(s) : s[i] \in Nat
  BY NotEmpty
<1>2. \A i \in 1..(Len(s) - 1) : i \in 1..Len(s) /\ i # Len(s) /\ 1 + i - 1 = i
  BY <1>1
<1>3. 1 \in Int /\ Len(s) - 1 \in Int /\ \A i \in 1..(Len(s) - 1) : s[i] \in Nat
  BY <1>1, <1>2
<1>4. /\ p \in Seq(Nat) /\ Len(p) = IF 1 <= Len(s) - 1 THEN Len(s) - 1 - 1 + 1 ELSE 0
      /\ \A i \in 1..(Len(s) - 1 - 1 + 1) : p[i] = s[1 + i - 1]
  <2> HIDE DEF p
  <2>1. p = SubSeq(s, 1, Len(s) - 1)
    BY DEF p
  <2> QED BY <1>3, <2>1, SubSeqProperties
<1> HIDE DEF p
<1>5. Len(p) = Len(s) - 1 /\ Len(s) - 1 - 1 + 1 = Len(s) - 1
  <2>1. Len(s) \in Nat /\ Len(s) >= 1
    BY <1>1
  <2>2. Len(p) = IF 1 <= Len(s) - 1 THEN Len(s) - 1 - 1 + 1 ELSE 0
    BY <1>4
  <2>3. ~(1 <= Len(s) - 1) => Len(s) - 1 = 0
    <3>1. \A k \in Nat : k >= 1 /\ ~(1 <= k - 1) => k - 1 = 0
      OBVIOUS
    <3> QED BY Zenon, <2>1, <3>1
  <2>4. Len(s) - 1 - 1 + 1 = Len(s) - 1
    BY <2>1
  <2> QED BY Zenon, <2>2, <2>3, <2>4
<1>6. \A i \in 1..Len(p) : p[i] = s[i] /\ i \in 1..Len(s) /\ i # Len(s)
  BY Zenon, <1>2, <1>4, <1>5
<1>7. Increasing(p) /\ PartOf(p, s)
  BY <1>6 DEF Increasing, PartOf
<1> QED BY <1>4, <1>7 DEF p

LEMMA CompactedIsPart ==
  ASSUME NEW s \in Seq(Nat), Increasing(s), NEW n \in 2..Len(s)
  PROVE  LET p == <<Head(s)>> \o SubSeq(s, n + 1, Len(s))
         IN  p \in Seq(Nat) /\ Increasing(p) /\ PartOf(p, s)
<1> DEFINE rest == SubSeq(s, n + 1, Len(s))
           p == <<Head(s)>> \o rest
<1>1. /\ Len(s) \in Nat /\ n \in Nat /\ 2 <= n /\ n <= Len(s) /\ n + 1 \in Int /\ Len(s) \in Int
      /\ \A i \in 1..Len(s) : s[i] \in Nat
  BY NotEmpty
<1>2. Head(s) = s[1] /\ s[1] \in Nat /\ 1 \in 1..Len(s)
  BY <1>1
<1>3. \A i \in (n + 1)..Len(s) : s[i] \in Nat
  BY <1>1
<1>4. /\ rest \in Seq(Nat) /\ Len(rest) = IF n + 1 <= Len(s) THEN Len(s) - (n + 1) + 1 ELSE 0
      /\ \A i \in 1..(Len(s) - (n + 1) + 1) : rest[i] = s[n + 1 + i - 1]
  <2> HIDE DEF rest
  <2>1. rest = SubSeq(s, n + 1, Len(s))
    BY DEF rest
  <2> QED BY <1>1, <1>3, <2>1, SubSeqProperties
<1> HIDE DEF rest
<1>5. Len(rest) = Len(s) - n /\ \A i \in 1..(Len(s) - n) : rest[i] = s[n + i]
  <2>1. /\ Len(s) - (n + 1) + 1 = Len(s) - n /\ (n + 1 <= Len(s) <=> Len(s) - n > 0)
        /\ \A i \in 1..(Len(s) - n) : n + 1 + i - 1 = n + i
    BY <1>1
  <2>2. ~(n + 1 <= Len(s)) => Len(s) - n = 0
    BY <1>1
  <2> QED BY Zenon, <1>4, <2>1, <2>2
<1>6. /\ p \in Seq(Nat) /\ Len(p) = 1 + (Len(s) - n) /\ p[1] = s[1]
      /\ \A i \in 1..(Len(s) - n) : p[i + 1] = s[n + i]
  <2> DEFINE one == <<s[1]>>
  <2>1. one \in Seq(Nat) /\ Len(one) = 1 /\ one[1] = s[1]
    BY <1>2
  <2> HIDE DEF one, p
  <2>2. p = one \o rest
    BY <1>2 DEF one, p
  <2>3. /\ p \in Seq(Nat) /\ Len(p) = Len(one) + Len(rest)
        /\ \A i \in 1..(Len(one) + Len(rest)) : p[i] = IF i <= Len(one) THEN one[i] ELSE rest[i - Len(one)]
    BY Zenon, <1>4, <2>1, <2>2, ConcatProperties
  <2>4. \A i \in 1..(Len(s) - n) : i + 1 \in 1..(1 + (Len(s) - n)) /\ ~(i + 1 <= 1) /\ i + 1 - 1 = i
    BY <1>1
  <2>5. 1 \in 1..(1 + (Len(s) - n)) /\ 1 <= 1
    BY <1>1
  <2>6. Len(p) = 1 + (Len(s) - n) /\ p[1] = s[1]
    BY <1>5, <2>1, <2>3, <2>5
  <2>7. ASSUME NEW i \in 1..(Len(s) - n) PROVE p[i + 1] = s[n + i]
    <3>1. p[i + 1] = IF i + 1 <= 1 THEN one[i + 1] ELSE rest[i + 1 - 1]
      BY <1>5, <2>1, <2>3, <2>4
    <3>2. p[i + 1] = rest[i]
      BY <2>4, <3>1
    <3> QED BY Zenon, <1>5, <3>2
  <2> QED BY Zenon, <2>3, <2>6, <2>7
<1> HIDE DEF p
<1>7. /\ \A i \in 1..(Len(s) - n) : n + i \in 1..Len(s) /\ 1 < n + i
      /\ \A i \in 1..Len(p) : i = 1 \/ \E k \in 1..(Len(s) - n) : i = k + 1
  <2>1. ASSUME NEW i \in 1..Len(p), i # 1 PROVE i - 1 \in 1..(Len(s) - n) /\ i = (i - 1) + 1
    BY <1>1, <1>6, <2>1
  <2>2. \A i \in 1..(Len(s) - n) : n + i \in 1..Len(s) /\ 1 < n + i
    BY <1>1
  <2> QED BY <2>1, <2>2
<1>8. Increasing(p)
  <2> SUFFICES ASSUME NEW i \in 1..Len(p), NEW j \in 1..Len(p), i < j PROVE p[i] < p[j]
    BY DEF Increasing
  <2>1. j # 1
    BY <1>1, <1>6
  <2>2. PICK k \in 1..(Len(s) - n) : j = k + 1
    BY <1>7, <2>1
  <2>3. CASE i = 1
    BY <1>2, <1>6, <1>7, <2>2, <2>3 DEF Increasing
  <2>4. CASE i # 1
    <3>1. PICK m \in 1..(Len(s) - n) : i = m + 1
      BY <1>7, <2>4
    <3>2. n + m < n + k
      BY <1>1, <2>2, <3>1
    <3> QED BY <1>6, <1>7, <2>2, <3>1, <3>2 DEF Increasing
  <2> QED BY <2>3, <2>4
<1>9. ASSUME NEW i \in 1..Len(p)
      PROVE  \E j \in 1..Len(s) : p[i] = s[j] /\ (i # Len(p) => j # Len(s))
  <2>1. CASE i = 1
    <3>1. 1 # Len(s)
      BY <1>1
    <3> QED BY <1>2, <1>6, <2>1, <3>1
  <2>2. CASE i # 1
    <3>1. PICK m \in 1..(Len(s) - n) : i = m + 1
      BY <1>7, <2>2
    <3>2. i # Len(p) => n + m # Len(s)
      <4>1. Len(s) \in Nat /\ n \in Nat /\ m \in Int
        BY <1>1
      <4>2. n + m = Len(s) => m + 1 = 1 + (Len(s) - n)
        BY <4>1
      <4> QED BY <1>6, <3>1, <4>2
    <3> QED BY <1>6, <1>7, <3>1, <3>2
  <2> QED BY <2>1, <2>2
<1> QED BY Zenon, <1>6, <1>8, <1>9 DEF PartOf, p, rest

LEMMA RollBackStep ==
  ASSUME ContextInv, NEW a \in Kernels, Context!RollBack(a)
  PROVE  ContextInv'
<1> DEFINE shown == agent[a].shown
           kept == SubSeq(shown, 1, Len(shown) - 1)
<1>1. agent[a].at = "turn" /\ agent[a].puts /\ Context!Drop(a, kept)
  BY DEF Context!RollBack, Context!Shown, Context!Front
<1>2. shown \in Seq(Nat) /\ shown # <<>> /\ Increasing(shown)
  BY <1>1 DEF ContextInv, ContextTypes, Latest, Collectors, Follows
<1>3. kept \in Seq(Nat) /\ Increasing(kept) /\ PartOf(kept, shown)
  <2> HIDE DEF shown
  <2> QED BY <1>2, FrontIsPart
<1> HIDE DEF kept
<1> QED BY <1>1, <1>3, DropStep

LEMMA CompactStep ==
  ASSUME ContextInv, NEW a \in Kernels, Context!Compact(a)
  PROVE  ContextInv'
<1> DEFINE shown == agent[a].shown
<1>1. PICK n \in 2..Len(shown) :
        agent[a].at = "idle" /\ Context!Drop(a, <<Head(shown)>> \o SubSeq(shown, n + 1, Len(shown)))
  BY DEF Context!Compact, Context!Shown
<1> DEFINE kept == <<Head(shown)>> \o SubSeq(shown, n + 1, Len(shown))
<1>2. shown \in Seq(Nat) /\ Increasing(shown)
  BY DEF ContextInv, ContextTypes, Latest, Collectors, Follows
<1>3. kept \in Seq(Nat) /\ Increasing(kept) /\ PartOf(kept, shown)
  <2> HIDE DEF shown
  <2> QED BY <1>2, CompactedIsPart
<1> HIDE DEF kept
<1>4. Context!Drop(a, kept)
  BY <1>1 DEF kept
<1> QED BY <1>1, <1>3, <1>4, DropStep

-----------------------------------------------------------------------------
LEMMA ContextStarts == Context!Init => ContextInv
<1> SUFFICES ASSUME Context!Init PROVE ContextInv
  OBVIOUS
<1>1. PICK policy \in [Kernels -> {"session", "turn"}] :
        agent = [a \in Kernels |-> Context!New(policy[a])]
  BY DEF Context!Init
<1>2. ASSUME NEW a \in Kernels
      PROVE  /\ Context!New(policy[a]) \in Collectors
             /\ agent[a].at = "new" /\ agent[a].shown = <<>> /\ agent[a].holds = None /\ ~agent[a].puts
             /\ agent[a].read = None /\ agent[a].asked = 0
  BY <1>1 DEF Context!New, Collectors
<1>3. ContextTypes
  <2>1. agent \in [Kernels -> Collectors]
    BY <1>1, <1>2
  <2>2. forgotten \in [Kernels -> SUBSET Nat]
    BY DEF Context!Init
  <2>3. source = 1 /\ since = 0 /\ cache = None /\ invalidated = FALSE /\ captures = 0 /\ overlapped = FALSE
    BY DEF Context!Init
  <2>4. 1 \in Nat /\ 0 \in Nat /\ 0 <= 1
    OBVIOUS
  <2> QED BY Zenon, <2>1, <2>2, <2>3, <2>4 DEF ContextTypes
<1>4. Latest
  BY <1>2 DEF Context!Init, Latest, Follows, Remembers, Increasing
<1>5. Validated
  BY <1>2 DEF Context!Init, Validated, InFlight, Current, Unread
<1> QED BY <1>3, <1>4, <1>5 DEF ContextInv

(* Every step keeps it (context.ts 265-312).                                 *)
LEMMA ContextSteps == ContextInv /\ [Context!Next]_(Context!vars) => ContextInv'
<1> SUFFICES ASSUME ContextInv, [Context!Next]_(Context!vars) PROVE ContextInv'
  OBVIOUS
<1>1. CASE UNCHANGED Context!vars
  BY <1>1 DEF Context!vars, ContextInv, ContextTypes, Latest, Validated, InFlight, Current
<1>2. CASE Context!Change
  <2>1. ContextTypes'
    <3>1. /\ source \in Nat /\ since \in Nat /\ since <= source /\ source' = source + 1
          /\ since' \in {since, source + 1} /\ invalidated' \in {TRUE, invalidated}
          /\ UNCHANGED <<cache, captures, agent, forgotten, overlapped>>
      BY Zenon, <1>2 DEF Context!Change, ContextInv, ContextTypes
    <3>2. source' \in Nat /\ since' \in Nat /\ since' <= source'
      BY <3>1
    <3>3. /\ captures \in Nat /\ cache \in Snapshots \union {None}
          /\ agent \in [Kernels -> Collectors] /\ forgotten \in [Kernels -> SUBSET Nat]
          /\ invalidated \in BOOLEAN /\ overlapped \in BOOLEAN
      BY DEF ContextInv, ContextTypes
    <3> QED BY Zenon, <3>1, <3>2, <3>3 DEF ContextTypes
  <2>2. Latest'
    BY <1>2 DEF Context!Change, ContextInv, Latest
  <2>3. since <= since' /\ since \in Nat /\ since' \in Nat
    BY <1>2 DEF Context!Change, ContextInv, ContextTypes
  <2>4. \A a \in Kernels : agent[a].asked \in Nat
    BY DEF ContextInv, ContextTypes, Collectors
  <2>5. \A a \in Kernels : Current(agent[a])'
    BY <1>2, <2>3, <2>4 DEF Context!Change, ContextInv, Validated, Current
  <2>6. Validated'
    BY <1>2, <2>5 DEF Context!Change, ContextInv, Validated, InFlight
  <2> QED BY <2>1, <2>2, <2>6 DEF ContextInv
<1>3. CASE Context!TimePasses
  BY <1>3 DEF Context!TimePasses, ContextInv, ContextTypes, Latest, Validated, InFlight, Current
<1> QED
  BY <1>1, <1>2, <1>3, ServeStep, RefreshContextStep, ReadStep, StoreStep, CompleteStep, RollBackStep,
     CompactStep DEF Context!Next

LEMMA EvidenceStands == ContextInv => Context!Evidence
<1> SUFFICES ASSUME ContextInv PROVE Context!Evidence
  OBVIOUS
<1>1. Context!NoneOutdated
  BY DEF ContextInv, Validated, Current, Context!NoneOutdated
<1>2. Context!RecordedIsShown
  BY DEF ContextInv, Latest, Remembers, Context!RecordedIsShown, Context!Last, Context!Shown
<1> QED BY <1>1, <1>2 DEF Context!Evidence

-----------------------------------------------------------------------------
(* McpConnection.                                                            *)
Catalogs == [generation : Nat, pages : Seq(Nat)]
CallRecords == [from : Nat, active : BOOLEAN, sent : {None} \union Seq(Nat), heard : Nat]

McpTypes ==
  /\ version \in Nat /\ heard \in 0..version /\ notices \subseteq 0..version
  /\ stale \in BOOLEAN /\ refreshing \in BOOLEAN
  /\ invalidations \in Nat /\ generation \in Nat
  /\ listing = None \/ listing \in [pages : Seq(Nat), before : Nat \union {None}]
  /\ call \in [Kernels -> {None} \union CallRecords]
  /\ catalog \in Catalogs \/ \A c \in Kernels : catalog = None /\ call[c] = None

AsOf(pages, v) == \A i \in DOMAIN pages : pages[i] >= v

CatalogFresh == (~stale /\ catalog \in Catalogs) => AsOf(catalog.pages, heard)

(* The listing under way: the first one, or a refresh.                       *)
Listed ==
  /\ refreshing => stale
  /\ (listing # None /\ ~refreshing) =>
       /\ \A c \in Kernels : call[c] = None
       /\ catalog = None
       /\ ~stale => heard = 0
  /\ (listing # None /\ refreshing) =>
       /\ listing.before \in Nat /\ listing.before <= invalidations
       /\ listing.before = invalidations => AsOf(listing.pages, heard)

Sent ==
  \A c \in Kernels : call[c] # None =>
    /\ call[c].sent # None => AsOf(call[c].sent, call[c].heard)
    /\ call[c].active => listing = None /\ catalog.generation = call[c].from

McpInv == McpTypes /\ CatalogFresh /\ Listed /\ Sent

LEMMA McpStarts == Mcp!Init => McpInv
<1> SUFFICES ASSUME Mcp!Init PROVE McpInv
  OBVIOUS
<1>1. <<>> \in Seq(Nat) OBVIOUS
<1>2. listing \in [pages : Seq(Nat), before : Nat \union {None}]
  BY <1>1 DEF Mcp!Init
<1>3. McpTypes
  <2>1. /\ version \in Nat /\ heard \in 0..version /\ notices \subseteq 0..version
        /\ invalidations \in Nat /\ generation \in Nat
    BY DEF Mcp!Init
  <2>2. stale \in BOOLEAN /\ refreshing \in BOOLEAN
    BY Zenon DEF Mcp!Init
  <2>3. /\ call \in [Kernels -> {None} \union CallRecords]
        /\ \A c \in Kernels : catalog = None /\ call[c] = None
    BY DEF Mcp!Init
  <2> QED BY <1>2, <2>1, <2>2, <2>3 DEF McpTypes
<1>4. CatalogFresh
  <2>1. ASSUME catalog \in Catalogs PROVE AsOf(catalog.pages, 0)
    BY <2>1 DEF Catalogs, AsOf
  <2> QED BY <2>1 DEF Mcp!Init, CatalogFresh
<1>5. Listed /\ Sent BY DEF Mcp!Init, Listed, Sent
<1> QED BY <1>3, <1>4, <1>5 DEF McpInv

-----------------------------------------------------------------------------
(* The Mcp!server's changes, and what the Mcp!client hears of them (index.ts 190-215). *)
LEMMA HearingSteps ==
  ASSUME McpInv, Mcp!ServerChanges \/ Mcp!Notified \/ Mcp!Closed
  PROVE  McpInv'
<1> USE DEF McpInv, McpTypes, CatalogFresh, Listed, Sent, Mcp!catalogs
<1>1. CASE Mcp!ServerChanges
  BY <1>1 DEF Mcp!ServerChanges, Mcp!client
<1>2. CASE Mcp!Notified
  BY <1>2 DEF Mcp!Notified
<1>3. CASE Mcp!Closed
  BY <1>3 DEF Mcp!Closed, Mcp!server
<1> QED BY <1>1, <1>2, <1>3

(* A refresh begins when nothing is called, and makes the catalog stale        *)
(* (index.ts 270-283).                                                       *)
LEMMA RefreshStep ==
  ASSUME McpInv, Mcp!Refresh
  PROVE  McpInv'
<1> DEFINE begun == [pages |-> <<>>, before |-> invalidations]
<1>1. /\ Mcp!Active = {} /\ stale' = TRUE /\ refreshing' = TRUE /\ listing' = begun
      /\ UNCHANGED <<version, notices, heard, invalidations, generation, catalog, call>>
  BY DEF Mcp!Refresh, Mcp!server
<1>2. begun \in [pages : Seq(Nat), before : Nat \union {None}]
  BY DEF McpInv, McpTypes
<1>3. McpTypes' BY <1>1, <1>2 DEF McpInv, McpTypes
<1>4. CatalogFresh' /\ Listed'
  BY <1>1, <1>2 DEF McpInv, McpTypes, CatalogFresh, Listed, AsOf
<1>5. Sent' BY <1>1 DEF McpInv, Sent, Mcp!Active
<1> QED BY <1>3, <1>4, <1>5 DEF McpInv

(* A page is listed as the Mcp!server has it now (index.ts 222-245).              *)
LEMMA PageStep ==
  ASSUME McpInv, Mcp!ListPage
  PROVE  McpInv'
<1> DEFINE more == Append(listing.pages, version)
<1>1. /\ listing # None /\ listing' = [listing EXCEPT !.pages = more]
      /\ UNCHANGED <<version, notices, heard, stale, invalidations, refreshing, generation,
                     catalog, call>>
  BY DEF Mcp!ListPage, Mcp!server, Mcp!client
<1>2. /\ listing \in [pages : Seq(Nat), before : Nat \union {None}]
      /\ listing.pages \in Seq(Nat) /\ version \in Nat /\ heard \in Nat /\ heard <= version
  BY <1>1 DEF McpInv, McpTypes
<1>3. /\ listing' \in [pages : Seq(Nat), before : Nat \union {None}]
      /\ listing'.pages = more /\ listing'.before = listing.before
  <2>1. more \in Seq(Nat) BY <1>2
  <2> HIDE DEF more
  <2> QED BY Zenon, <1>1, <1>2, <2>1
<1>4. AsOf(listing.pages, heard) => AsOf(more, heard)
  BY <1>2 DEF AsOf
<1>5. McpTypes' BY <1>1, <1>3 DEF McpInv, McpTypes
<1>6. CatalogFresh' BY <1>1 DEF McpInv, CatalogFresh
<1>7. Listed' BY <1>1, <1>3, <1>4 DEF McpInv, Listed
<1>8. Sent' BY <1>1 DEF McpInv, Sent
<1> QED BY <1>5, <1>6, <1>7, <1>8 DEF McpInv

(* A listing that is approved becomes the catalog, fresh only if nothing was   *)
(* heard since it began (index.ts 246-306).                                  *)
LEMMA DiscoveredStep ==
  ASSUME McpInv, Mcp!Discovered
  PROVE  McpInv'
<1> DEFINE new == [generation |-> generation + 1, pages |-> listing.pages]
<1>1. /\ listing # None /\ generation' = generation + 1 /\ catalog' = new
      /\ stale' = IF refreshing THEN invalidations # listing.before ELSE stale
      /\ refreshing' = FALSE /\ listing' = None
      /\ UNCHANGED <<version, notices, heard, invalidations, call>>
  BY DEF Mcp!Discovered, Mcp!server
<1>2. new \in Catalogs /\ listing.pages \in Seq(Nat)
  BY <1>1 DEF McpInv, McpTypes, Catalogs
<1>3. McpTypes'
  <2>1. generation + 1 \in Nat BY DEF McpInv, McpTypes
  <2>2. stale' \in BOOLEAN BY Zenon, <1>1 DEF McpInv, McpTypes
  <2> HIDE DEF new
  <2> QED BY Zenon, <1>1, <1>2, <2>1, <2>2 DEF McpInv, McpTypes
<1>4. heard = 0 => AsOf(listing.pages, heard)
  BY <1>2 DEF AsOf
<1>5. CatalogFresh'
  <2>1. CASE refreshing BY Zenon, <1>1, <2>1 DEF McpInv, Listed, CatalogFresh
  <2>2. CASE ~refreshing BY <1>1, <1>4, <2>2 DEF McpInv, Listed, CatalogFresh
  <2> QED BY <2>1, <2>2
<1>6. Listed' BY <1>1 DEF Listed
<1>7. \A c \in Kernels : call[c] # None => ~call[c].active
  BY <1>1 DEF McpInv, Listed, Sent
<1>8. Sent' BY <1>1, <1>7 DEF McpInv, Sent
<1> QED BY <1>3, <1>5, <1>6, <1>8 DEF McpInv

LEMMA FailureStep ==
  ASSUME McpInv, Mcp!DiscoveryFails
  PROVE  McpInv'
BY Zenon DEF Mcp!DiscoveryFails, McpInv, McpTypes, CatalogFresh, Listed, Sent, Mcp!server, Mcp!client

-----------------------------------------------------------------------------
(* createTools() and the handlers it makes (index.ts 248-268, 166-189).       *)
LEMMA ProjectStep ==
  ASSUME McpInv, NEW c \in Kernels, Mcp!Project(c)
  PROVE  McpInv'
<1> DEFINE projected == [from |-> catalog.generation, active |-> FALSE, sent |-> None, heard |-> 0]
<1>1. /\ call[c] = None /\ catalog # None /\ call' = [call EXCEPT ![c] = projected]
      /\ UNCHANGED <<version, notices, heard, stale, invalidations, refreshing, generation,
                     catalog, listing>>
  BY DEF Mcp!Project, Mcp!server, Mcp!client, Mcp!catalogs
<1>2. catalog \in Catalogs BY <1>1 DEF McpInv, McpTypes
<1>3. projected \in CallRecords BY <1>2 DEF Catalogs, CallRecords
<1>4. McpTypes' BY <1>1, <1>2, <1>3 DEF McpInv, McpTypes
<1>5. CatalogFresh' /\ Listed' BY <1>1, <1>2 DEF McpInv, CatalogFresh, Listed
<1>6. Sent'
  <2> SUFFICES ASSUME NEW d \in Kernels, call'[d] # None
               PROVE  /\ call'[d].sent # None => AsOf(call'[d].sent, call'[d].heard)
                      /\ call'[d].active =>
                           listing = None /\ catalog.generation = call'[d].from
    BY <1>1 DEF Sent
  <2>1. CASE d = c
    <3>1. call'[d] = projected BY <1>1, <2>1 DEF McpInv, McpTypes
    <3> QED BY <3>1
  <2>2. CASE d # c
    <3>1. call'[d] = call[d] BY <1>1, <2>2 DEF McpInv, McpTypes
    <3> QED BY <3>1 DEF McpInv, Sent
  <2> QED BY <2>1, <2>2
<1> QED BY <1>4, <1>5, <1>6 DEF McpInv

LEMMA DispatchStep ==
  ASSUME McpInv, NEW c \in Kernels, Mcp!Dispatch(c)
  PROVE  McpInv'
<1> DEFINE sent == [call[c] EXCEPT !.active = TRUE, !.sent = catalog.pages, !.heard = heard]
<1>1. /\ call[c] # None /\ ~stale /\ call[c].from = catalog.generation
      /\ call' = [call EXCEPT ![c] = sent]
      /\ UNCHANGED <<version, notices, heard, stale, invalidations, refreshing, generation,
                     catalog, listing>>
  BY Zenon DEF Mcp!Dispatch, Mcp!server, Mcp!client, Mcp!catalogs
<1>2. call[c] \in CallRecords /\ catalog \in Catalogs
  BY <1>1 DEF McpInv, McpTypes
<1>3. /\ sent \in CallRecords /\ sent.sent = catalog.pages /\ sent.heard = heard
      /\ sent.from = catalog.generation
  <2>1. catalog.pages \in Seq(Nat) /\ heard \in Nat
    BY <1>2 DEF Catalogs, McpInv, McpTypes
  <2> QED BY Zenon, <1>1, <1>2, <2>1 DEF CallRecords
<1>4. McpTypes' BY <1>1, <1>2, <1>3 DEF McpInv, McpTypes
<1>5. listing = None BY <1>1 DEF McpInv, Listed
<1>6. CatalogFresh' /\ Listed' BY <1>1, <1>5 DEF McpInv, CatalogFresh, Listed
<1>7. AsOf(sent.sent, sent.heard) BY <1>1, <1>2, <1>3 DEF McpInv, CatalogFresh
<1>8. Sent'
  <2> SUFFICES ASSUME NEW d \in Kernels, call'[d] # None
               PROVE  /\ call'[d].sent # None => AsOf(call'[d].sent, call'[d].heard)
                      /\ call'[d].active =>
                           listing = None /\ catalog.generation = call'[d].from
    BY <1>1 DEF Sent
  <2>1. CASE d = c
    <3>1. call'[d] = sent BY <1>1, <2>1 DEF McpInv, McpTypes
    <3> QED BY <3>1, <1>3, <1>5, <1>7
  <2>2. CASE d # c
    <3>1. call'[d] = call[d] BY <1>1, <2>2 DEF McpInv, McpTypes
    <3> QED BY <3>1 DEF McpInv, Sent
  <2> QED BY <2>1, <2>2
<1> QED BY <1>4, <1>6, <1>8 DEF McpInv

LEMMA AnswerStep ==
  ASSUME McpInv, NEW c \in Kernels, Mcp!Answer(c)
  PROVE  McpInv'
<1> DEFINE over == [call[c] EXCEPT !.active = FALSE]
<1>1. /\ call[c] # None /\ call' = [call EXCEPT ![c] = over]
      /\ UNCHANGED <<version, notices, heard, stale, invalidations, refreshing, generation,
                     catalog, listing>>
  BY DEF Mcp!Answer, Mcp!Active, Mcp!server, Mcp!client, Mcp!catalogs
<1>2. call[c] \in CallRecords BY <1>1 DEF McpInv, McpTypes
<1>3. /\ over \in CallRecords /\ over.sent = call[c].sent /\ over.heard = call[c].heard
      /\ ~over.active
  BY Zenon, <1>2 DEF CallRecords
<1>4. McpTypes' BY <1>1, <1>3 DEF McpInv, McpTypes
<1>5. CatalogFresh' /\ Listed' BY <1>1 DEF McpInv, CatalogFresh, Listed
<1>6. Sent'
  <2> SUFFICES ASSUME NEW d \in Kernels, call'[d] # None
               PROVE  /\ call'[d].sent # None => AsOf(call'[d].sent, call'[d].heard)
                      /\ call'[d].active =>
                           listing = None /\ catalog.generation = call'[d].from
    BY <1>1 DEF Sent
  <2>1. CASE d = c
    <3>1. call'[d] = over BY <1>1, <2>1 DEF McpInv, McpTypes
    <3> QED BY <3>1, <1>1, <1>3 DEF McpInv, Sent
  <2>2. CASE d # c
    <3>1. call'[d] = call[d] BY <1>1, <2>2 DEF McpInv, McpTypes
    <3> QED BY <3>1 DEF McpInv, Sent
  <2> QED BY <2>1, <2>2
<1> QED BY <1>4, <1>5, <1>6 DEF McpInv

LEMMA McpSteps == McpInv /\ [Mcp!Next]_(Mcp!vars) => McpInv'
<1> SUFFICES ASSUME McpInv, [Mcp!Next]_(Mcp!vars) PROVE McpInv'
  OBVIOUS
<1>1. CASE UNCHANGED Mcp!vars
  BY <1>1 DEF McpInv, McpTypes, CatalogFresh, Listed, Sent, Mcp!vars
<1>2. CASE Mcp!ServerChanges \/ Mcp!Notified \/ Mcp!Closed BY <1>2, HearingSteps
<1>3. CASE Mcp!Refresh BY <1>3, RefreshStep
<1>4. CASE Mcp!ListPage BY <1>4, PageStep
<1>5. CASE Mcp!Discovered BY <1>5, DiscoveredStep
<1>6. CASE Mcp!DiscoveryFails BY <1>6, FailureStep
<1>7. CASE \E c \in Kernels : Mcp!Project(c) \/ Mcp!Dispatch(c) \/ Mcp!Answer(c)
  BY <1>7, ProjectStep, DispatchStep, AnswerStep
<1> QED BY <1>1, <1>2, <1>3, <1>4, <1>5, <1>6, <1>7 DEF Mcp!Next

-----------------------------------------------------------------------------
(* Assurance.                                                                *)
EndedRuns == ended \in [Kernels -> Verified!Endings \union {"running"}]
Claims == claimed \subseteq Kernels /\ \A r \in claimed : ended[r] = "completed"
Bundles ==
  \A b \in bundles :
    /\ b.decision = Verified!Decision(b.policy, b.rests)
    /\ b.rests \subseteq attempts /\ \A a \in b.rests : a.claim = b.claim
Decisions ==
  \A d \in decisions :
    /\ d.claim \in claimed /\ task[d.claim] = d.task
    /\ d.bundle \in bundles /\ d.bundle.claim = d.claim
    /\ d.status = "fulfilled" => d.bundle.decision = "satisfied"

VerifiedInv == EndedRuns /\ Claims /\ Bundles /\ Decisions

(* Every operation preserves the invariant (runs.ts 330-541).                *)
LEMMA VerifiedStep == VerifiedInv /\ [Verified!Next]_(Verified!vars) => VerifiedInv'
<1> SUFFICES ASSUME VerifiedInv, [Verified!Next]_(Verified!vars) PROVE VerifiedInv'
  OBVIOUS
<1> USE DEF VerifiedInv, EndedRuns, Claims, Bundles, Decisions
<1>1. ASSUME NEW r \in Kernels, NEW to \in Verified!Endings, Verified!End(r, to) PROVE VerifiedInv'
  <2>1. EndedRuns' BY <1>1 DEF Verified!End
  <2>2. Claims'
    <3> SUFFICES ASSUME NEW s \in claimed PROVE ended'[s] = "completed"
      BY <1>1 DEF Verified!End
    <3>1. s \in Kernels /\ s # r BY <1>1 DEF Verified!End
    <3> QED BY <1>1, <3>1 DEF Verified!End
  <2>3. Bundles' /\ Decisions' BY <1>1 DEF Verified!End
  <2> QED BY <2>1, <2>2, <2>3
<1>2. ASSUME NEW r \in Kernels, Verified!Claim(r) PROVE VerifiedInv'
  BY <1>2 DEF Verified!Claim
<1>3. ASSUME NEW r \in Kernels,
             NEW m \in Methods, NEW result \in Verified!Results, NEW i \in BOOLEAN, NEW c \in SUBSET Coverage,
             Verified!Attempt(r, m, result, i, c)
      PROVE VerifiedInv'
  <2>1. /\ attempts \subseteq attempts'
        /\ UNCHANGED <<ended, task, claimed, bundles, decisions>>
    BY <1>3 DEF Verified!Attempt
  <2> QED BY <2>1
<1>4. ASSUME NEW r \in Kernels, NEW p \in Policies, Verified!Evaluate(r, p) PROVE VerifiedInv'
  <2> DEFINE new == [claim |-> r, policy |-> p, decision |-> Verified!Decision(p, Verified!Relevant(r)),
                     rests |-> Verified!Relevant(r)]
  <2>1. /\ bundles' = bundles \union {new}
        /\ UNCHANGED <<ended, task, claimed, attempts, decisions>>
    BY <1>4 DEF Verified!Evaluate
  <2>2. /\ new.decision = Verified!Decision(new.policy, new.rests)
        /\ new.rests \subseteq attempts /\ \A a \in new.rests : a.claim = new.claim
    BY DEF Verified!Relevant
  <2>3. Bundles'
    <3> SUFFICES ASSUME NEW b \in bundles'
                 PROVE /\ b.decision = Verified!Decision(b.policy, b.rests)
                       /\ b.rests \subseteq attempts /\ \A a \in b.rests : a.claim = b.claim
      BY <2>1
    <3>1. CASE b \in bundles BY <3>1
    <3>2. CASE b = new BY <3>2, <2>2
    <3> QED BY <2>1, <3>1, <3>2
  <2>4. Decisions' BY <2>1
  <2> QED BY <2>1, <2>3, <2>4
<1>5. ASSUME NEW r \in Kernels, NEW t \in Tasks, NEW b \in bundles, NEW said \in Verified!Fulfilments,
             Verified!Decide(t, r, b, said)
      PROVE VerifiedInv'
  BY <1>5 DEF Verified!Decide
<1>6. CASE UNCHANGED Verified!vars
  BY <1>6 DEF Verified!vars
<1> QED BY <1>1, <1>2, <1>3, <1>4, <1>5, <1>6 DEF Verified!Next

LEMMA VerifiedStarts == Verified!Init => VerifiedInv
BY DEF Verified!Init, VerifiedInv, EndedRuns, Claims, Bundles, Decisions, Verified!Endings

-----------------------------------------------------------------------------
(* Two bundles whose attempts are nested (runs.ts 436-470).                   *)
LEMMA Monotone ==
  ASSUME NEW p, NEW few, NEW many, few \subseteq many
  PROVE  /\ Verified!FailedRequired(p, few) \subseteq Verified!FailedRequired(p, many)
         /\ Verified!Missing(p, many) => Verified!Missing(p, few)
BY DEF Verified!FailedRequired, Verified!Missing, Verified!Passed

LEMMA VerdictsSettle == VerifiedInv => Verified!VerdictsOnlySettle
<1> SUFFICES ASSUME VerifiedInv, NEW b \in bundles, NEW c \in bundles,
                    b.policy = c.policy, b.rests \subseteq c.rests
             PROVE  /\ b.decision = "unsatisfied" => c.decision = "unsatisfied"
                    /\ b.decision = "satisfied" => c.decision # "incomplete"
  BY DEF Verified!VerdictsOnlySettle
<1>1. /\ b.decision = Verified!Decision(b.policy, b.rests)
      /\ c.decision = Verified!Decision(b.policy, c.rests)
  BY DEF VerifiedInv, Bundles
<1>2. /\ Verified!FailedRequired(b.policy, b.rests) \subseteq Verified!FailedRequired(b.policy, c.rests)
      /\ Verified!Missing(b.policy, c.rests) => Verified!Missing(b.policy, b.rests)
  BY Monotone
<1> QED BY <1>1, <1>2 DEF Verified!Decision

LEMMA FulfilmentsEarned == VerifiedInv => Verified!FulfilledIsEarned
<1> SUFFICES ASSUME VerifiedInv, NEW d \in decisions, d.status = "fulfilled"
             PROVE  /\ ended[d.claim] = "completed" /\ task[d.claim] = d.task
                    /\ \A m \in d.bundle.policy.methods :
                         /\ \E a \in attempts :
                              a.claim = d.claim /\ a.method = m /\ a.status = "passed"
                         /\ \A a \in d.bundle.rests : a.method = m => a.status # "failed"
  BY DEF Verified!FulfilledIsEarned
<1> DEFINE b == d.bundle
<1>1. /\ d.claim \in claimed /\ task[d.claim] = d.task
      /\ b \in bundles /\ b.claim = d.claim /\ b.decision = "satisfied"
  BY DEF VerifiedInv, Decisions
<1>2. ended[d.claim] = "completed" BY <1>1 DEF VerifiedInv, Claims
<1>3. /\ b.decision = Verified!Decision(b.policy, b.rests)
      /\ b.rests \subseteq attempts /\ \A a \in b.rests : a.claim = b.claim
  BY <1>1 DEF VerifiedInv, Bundles
<1>4. Verified!FailedRequired(b.policy, b.rests) = {} /\ ~Verified!Missing(b.policy, b.rests)
  BY <1>1, <1>3 DEF Verified!Decision
<1>5. ASSUME NEW m \in b.policy.methods
      PROVE  /\ \E a \in attempts : a.claim = d.claim /\ a.method = m /\ a.status = "passed"
             /\ \A a \in b.rests : a.method = m => a.status # "failed"
  <2>1. PICK a \in Verified!Passed(b.rests) : a.method = m BY <1>4 DEF Verified!Missing
  <2>2. a \in attempts /\ a.claim = d.claim /\ a.status = "passed"
    BY <2>1, <1>1, <1>3 DEF Verified!Passed
  <2>3. m \notin Verified!FailedRequired(b.policy, b.rests) BY <1>4
  <2> QED BY <2>1, <2>2, <2>3 DEF Verified!FailedRequired
<1> QED BY <1>1, <1>2, <1>5

-----------------------------------------------------------------------------
(* The parts side by side.                                                   *)
RecordsInv ==
  /\ SessionInv /\ MemoryInv /\ AgentsInv /\ AdapterInv /\ ContextInv /\ McpInv /\ VerifiedInv

everything == <<part, vars, session, memory, agents, adapters, context, mcp, verified>>

LEMMA EachOnItsOwn ==
  [MCNext]_everything =>
    /\ [Session!Next]_(Session!vars) /\ [Memory!Next]_(Memory!vars) /\ [Agents!Next]_(Agents!vars)
    /\ [Adapters!Next]_(Adapters!vars) /\ [Context!Next]_(Context!vars) /\ [Mcp!Next]_(Mcp!vars)
    /\ [Verified!Next]_(Verified!vars)
<1>1. UNCHANGED session => UNCHANGED Session!vars
  BY DEF session, Session!vars, Session!file
<1>2. UNCHANGED memory => UNCHANGED Memory!vars
  BY DEF memory, Memory!vars
<1>3. UNCHANGED agents => UNCHANGED Agents!vars
  BY DEF agents, Agents!vars, Agents!runs
<1>4. UNCHANGED adapters => UNCHANGED Adapters!vars
  BY DEF adapters, Adapters!vars
<1>5. UNCHANGED context => UNCHANGED Context!vars
  BY DEF context, Context!vars
<1>6. UNCHANGED mcp => UNCHANGED Mcp!vars
  BY DEF mcp, Mcp!vars, Mcp!server, Mcp!client, Mcp!catalogs
<1>7. UNCHANGED verified => UNCHANGED Verified!vars
  BY DEF verified, Verified!vars
<1>8. [MCNext]_everything =>
        /\ Session!Next \/ UNCHANGED session
        /\ Memory!Next \/ UNCHANGED memory
        /\ Agents!Next \/ UNCHANGED agents
        /\ Adapters!Next \/ UNCHANGED adapters
        /\ Context!Next \/ UNCHANGED context
        /\ Mcp!Next \/ UNCHANGED mcp
        /\ Verified!Next \/ UNCHANGED verified
  BY DEF MCNext, everything
<1> QED BY <1>1, <1>2, <1>3, <1>4, <1>5, <1>6, <1>7, <1>8

THEOREM Invariance == MCSpec => []RecordsInv
<1>1. MCInit => RecordsInv
  BY SessionStarts, MemoryStarts, AgentsStart, AdaptersStart, ContextStarts, McpStarts, VerifiedStarts
     DEF MCInit, RecordsInv
<1>2. RecordsInv /\ [MCNext]_everything => RecordsInv'
  BY EachOnItsOwn, SessionSteps, MemorySteps, AgentSteps, AdapterSteps, ContextSteps, McpSteps, VerifiedStep
     DEF RecordsInv
<1> QED BY <1>1, <1>2, PTL DEF MCSpec, everything

(* Whoever writes, dies or caches: one history, whose torn tail and first      *)
(* version are kept (session.ts 324-400).                                     *)
THEOREM SessionsNeverFork == MCSpec => []NeverForks
<1>1. RecordsInv => NeverForks
  BY SessionKept DEF RecordsInv, NeverForks
<1> QED BY <1>1, Invariance, PTL

(* A projection takes nothing of others from the thread that its process has    *)
(* neither written nor read (memory.ts 166-221).                              *)
THEOREM NothingIsErased == MCSpec => NoErasure
<1> DEFINE Keeps ==
      \A w \in Kernels :
        Memory!Project(w) =>
          Memory!OfOthers(w, Memory!MessagesOf(thread))
            \subseteq Memory!Range(Memory!MessagesOf(thread')) \union seen[w]
<1>1. RecordsInv /\ [MCNext]_everything => [Keeps]_(Memory!vars)
  BY ProjectErasesNothing DEF RecordsInv
<1>2. MCSpec => [][Keeps]_(Memory!vars)
  BY <1>1, Invariance, PTL DEF MCSpec, everything
<1> QED BY <1>2 DEF NoErasure, Memory!NoErasure

(* However a run ends, its record lists what it entered, and success is claimed  *)
(* over no doubt, at any depth of delegation (agents.ts 313-508).             *)
THEOREM RunsAreTold == MCSpec => []RunsTellAll
<1>1. RecordsInv => RunsTellAll
  BY AgentsTellAll DEF RecordsInv, RunsTellAll
<1> QED BY <1>1, Invariance, PTL

(* With the conversation behind the id it refers to, a request is the session's  *)
(* history, whatever was rolled back, compacted or has expired                  *)
(* (openai.ts 435-478).                                                      *)
THEOREM HistoryIsSeen == MCSpec => []SeesTheHistory
<1>1. RecordsInv => SeesTheHistory
  BY DEF RecordsInv, AdapterInv, Shows, SeesTheHistory, Adapters!SeesTheHistory
<1> QED BY <1>1, Invariance, PTL

(* What is shown as fresh was read after the last invalidation, and what is      *)
(* recorded was shown (context.ts 265-312, chat-agent.ts 375-386).             *)
THEOREM EvidenceIsGood == MCSpec => []Evidence
<1>1. RecordsInv => Evidence
  BY EvidenceStands DEF RecordsInv, Evidence
<1> QED BY <1>1, Invariance, PTL

(* However often the server changes, whatever notification overtakes which      *)
(* answer: a tool is called only as it stood after the last change heard of,     *)
(* and its catalog stays until it has answered (index.ts 166-306).             *)
THEOREM ToolsAreCurrent == MCSpec => []CurrentTools
<1>1. RecordsInv => CurrentTools
  BY DEF RecordsInv, McpInv, Sent, CurrentTools, Mcp!CurrentTools, AsOf
<1> QED BY <1>1, Invariance, PTL

(* A task is called fulfilled only for a completed run that passed what its      *)
(* policy requires, and a verdict is never reversed (runs.ts 330-541).         *)
THEOREM FulfilmentIsEarned == MCSpec => []Earned
<1>1. RecordsInv => Earned
  BY VerdictsSettle, FulfilmentsEarned DEF RecordsInv, Earned, Verified!Earned
<1> QED BY <1>1, Invariance, PTL
=============================================================================
