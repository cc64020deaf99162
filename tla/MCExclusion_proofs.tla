------------------------- MODULE MCExclusion_proofs -------------------------
(***************************************************************************)
(* Proofs about the two ways to wait for exclusive use.                     *)
(*                                                                         *)
(* The lock of journal-file.ts, for any processes and any deaths: its         *)
(* "inconsistent" errors are never thrown, and it is the ExclusiveOwner its   *)
(* callers take it for.  Everything rests on one process at a time being      *)
(* inside a gate of the dead owner that the lock names (OneReclaimer).  No    *)
(* single gate says so: the gates of one owner are many, and a process may    *)
(* wait in front of one that was left long ago.  But each gate of it stands   *)
(* at a place of its own, the first place or that of a dead predecessor, so   *)
(* that n dead gates leave n+1 places, of which a live one can take the last  *)
(* only.                                                                     *)
(*                                                                         *)
(* The queue of turns, by itself and behind the HTTP server, for any set of   *)
(* operations and requests: the passed places are a prefix of the chain, a    *)
(* place is passed exactly when its owner is over, and whoever holds the      *)
(* session owns the first place that is not passed.  Every step of the server *)
(* is one of the queue's, or none (Serves), so what is proved of the queue     *)
(* holds behind the server.                                                  *)
(***************************************************************************)
EXTENDS MCExclusion, FiniteSetTheorems, TLAPS

(* JournalLock.                                                              *)
Chasing    == {"gate", "gateOwner", "gateAlive"}
Inside     == {"recheck", "sameFile", "unlink", "unlinkClaim", "ungate"}
Reclaiming == Chasing \cup Inside

(* An attempt has a token of its own and its claim; no error was thrown.       *)
Attempts ==
  /\ ~broken
  /\ \A p \in Procs :
       /\ pc[p] # "throw"
       /\ pc[p] = "out" => token[p] = None
       /\ pc[p] # "out" =>
            p \in alive /\ token[p] \in Tokens /\ Pid(token[p]) = p /\ token[p] \in claims

(* The lock is a claim still there; a live owner knows that it is the owner.  *)
Locked ==
  /\ lock # None => lock \in claims
  /\ (lock # None /\ Pid(lock) \in alive) =>
       token[Pid(lock)] = lock /\ pc[Pid(lock)] \in {"held", "unlock"}
  /\ \A p \in Procs : pc[p] \in {"held", "unlock"} => lock = token[p]

(* Who reclaims a lock reclaims that of a dead owner, and knows whether it     *)
(* still is the lock.                                                        *)
Stale ==
  /\ \A g \in gates : Dead(g.path.stale)
  /\ \A p \in Procs :
       /\ pc[p] = "ownerAlive" => seen[p] # None
       /\ pc[p] \in Reclaiming => Dead(seen[p]) /\ gate[p].stale = seen[p]
       /\ pc[p] \in {"sameFile", "unlink"} => lock = seen[p]
       /\ pc[p] \in {"unlinkClaim", "ungate"} => lock # seen[p]

(* A gate is where its live owner is, and who is inside has one.              *)
Gates ==
  /\ IsFiniteSet(gates)
  /\ \A g, h \in gates : (g.path = h.path \/ g.by = h.by) => g = h
  /\ \A g \in gates : Pid(g.by) \in alive =>
       /\ token[Pid(g.by)] = g.by /\ gate[Pid(g.by)] = g.path
       /\ pc[Pid(g.by)] \in Inside
  /\ \A p \in Procs : pc[p] \in Inside => [path |-> gate[p], by |-> token[p]] \in gates

(* As long as s is the lock, its gates stand at the first place, or behind a   *)
(* dead gate of s.                                                           *)
Place(s, after) ==
  after = None \/ \E h \in gates : h.by = after /\ h.path.stale = s /\ Dead(h.by)
Chain ==
  /\ \A g \in gates : g.path.stale = lock => Place(lock, g.path.after)
  /\ \A p \in Procs : (pc[p] \in Chasing /\ seen[p] = lock) => Place(lock, gate[p].after)

(* Attempt t has left the reclaiming of s, for good.                         *)
Gone(t, s) ==
  /\ lock # s
  /\ \A g \in gates : g.by = t => g.path.stale # s
  /\ \A q \in Procs : (token[q] = t /\ pc[q] \in Reclaiming \cup {"ownerAlive"}) => seen[q] # s

(* The gate owner that p has read is new to it, and is there or gone.          *)
Met ==
  \A p \in Procs : pc[p] = "gateAlive" =>
    /\ gateSeen[p] \in Tokens \ observed[p]
    /\ \/ [path |-> gate[p], by |-> gateSeen[p]] \in gates
       \/ Gone(gateSeen[p], seen[p])

(* Those that p has passed are dead, and none has its gate where p is now.     *)
Observed ==
  \A p \in Procs : pc[p] \in Chasing =>
    /\ gate[p].after \in {None} \cup observed[p]
    /\ \A t \in observed[p] : Dead(t)
    /\ \A g \in gates : (g.by \in observed[p] /\ g.path.stale = seen[p]) =>
         g.path.after \in ({None} \cup observed[p]) \ {gate[p].after}

IInv == TypeOK /\ Attempts /\ Locked /\ Stale /\ Gates /\ Chain /\ Met /\ Observed
-----------------------------------------------------------------------------
(* A token is that of a process, and is no None.                             *)
LEMMA TokenFacts == None \notin Tokens /\ \A t \in Tokens : Pid(t) \in Procs
  BY LockAssumption DEF Tokens, Pid

(* One process at a time is inside a gate of the owner that the lock names:    *)
(* else the dead gates of it and one live one had one place less than the      *)
(* dead gates and two live ones take.                                        *)
LEMMA OneReclaimer ==
  ASSUME IInv, lock # None, NEW p \in Procs, NEW q \in Procs,
         pc[p] \in Inside, pc[q] \in Inside, seen[p] = lock, seen[q] = lock
  PROVE  p = q
<1> SUFFICES ASSUME p # q PROVE FALSE
    OBVIOUS
<1> DEFINE gp   == [path |-> gate[p], by |-> token[p]]
           gq   == [path |-> gate[q], by |-> token[q]]
           left == {g \in gates : g.path.stale = lock /\ Dead(g.by)}
           all  == left \cup {gp, gq}
           some == left \cup {gp}
           At_(after) == IF after = None THEN gp ELSE CHOOSE h \in left : h.by = after
           f    == [g \in all |-> At_(g.path.after)]
<1>1. /\ gp \in gates /\ gq \in gates /\ gp # gq
      /\ gp.path.stale = lock /\ gq.path.stale = lock
      /\ gp \notin left /\ gq \notin left
  BY TokenFacts DEF IInv, Gates, Attempts, Stale, Dead, Reclaiming, Inside
<1>2. all \subseteq gates /\ some = all \ {gq}
  BY <1>1
<1>3. IsFiniteSet(all) /\ IsFiniteSet(some) /\ Cardinality(some) < Cardinality(all)
  <2>1. IsFiniteSet(all)
    BY <1>2, FS_Subset DEF IInv, Gates
  <2>2. gq \in all /\ some = all \ {gq}
    BY <1>2
  <2> HIDE DEF all, some, gq
  <2>3. IsFiniteSet(some) /\ Cardinality(some) = Cardinality(all) - 1
    BY <2>1, <2>2, FS_RemoveElement
  <2> QED
    BY <2>1, <2>3, FS_CardinalityType
<1>4. \A g \in all : g.path.after # None =>
        At_(g.path.after) \in left /\ At_(g.path.after).by = g.path.after
  <2> SUFFICES ASSUME NEW g \in all, g.path.after # None
               PROVE  \E h \in left : h.by = g.path.after
      OBVIOUS
  <2> QED
    BY <1>1, <1>2 DEF IInv, Chain, Place
<1>5. f \in [all -> some]
  BY <1>4
<1>6. PICK x \in all, y \in all : x # y /\ f[x] = f[y]
  <2> HIDE DEF f, all, some
  <2> QED
    BY <1>3, <1>5, FS_PigeonHole
<1>7. x.path.after = y.path.after
  BY <1>1, <1>4, <1>6
<1>8. x.path = y.path
  BY <1>1, <1>2, <1>7, SMTT(30) DEF IInv, TypeOK, Paths
<1> QED
  BY <1>2, <1>6, <1>8 DEF IInv, Gates
\* A process begins with a token of its own.
LEMMA BeginStep ==
  ASSUME IInv, NEW p \in Procs, Begin(p)
  PROVE  IInv'
<1> USE TokenFacts DEF IInv, Begin, At, Goto, files, locals, MaybeTok, Unused
<1>1. TypeOK'
  BY DEF TypeOK, PCs
<1>2. Attempts'
  BY DEF Attempts, TypeOK
<1>3. Locked'
  BY DEF Locked
<1>4. Stale'
  BY DEF Stale, Dead, Reclaiming, Chasing, Inside
<1>5. Gates'
  BY DEF Gates, TypeOK, Inside
<1>6. Chain'
  BY DEF Chain, Place, Dead, Chasing
<1>7. Met'
  BY DEF Met, Gone, Reclaiming, Chasing, Inside
<1>8. Observed'
  BY DEF Observed, Dead, Chasing
<1> QED
  BY <1>1, <1>2, <1>3, <1>4, <1>5, <1>6, <1>7, <1>8

\* The link succeeds only where no lock file is, so its process becomes the
\* owner alone.
LEMMA LinkStep ==
  ASSUME IInv, NEW p \in Procs, Link(p)
  PROVE  IInv'
<1> USE TokenFacts DEF IInv, Link, At, Goto, files, locals, MaybeTok
<1>1. TypeOK'
  BY DEF TypeOK, PCs
<1>2. Attempts'
  BY DEF Attempts, TypeOK
<1>3. Locked'
  BY DEF Locked, Attempts, TypeOK
<1>4. Stale'
  BY DEF Stale, Attempts, TypeOK, Dead, Reclaiming, Chasing, Inside
<1>5. Gates'
  BY DEF Gates, TypeOK, Inside
<1>6. Chain'
  BY DEF Chain, Place, Stale, Attempts, TypeOK, Dead, Reclaiming, Chasing
<1>7. Met'
  BY DEF Met, Gone, Stale, Attempts, TypeOK, Dead, Reclaiming, Chasing, Inside
<1>8. Observed'
  BY DEF Observed, TypeOK, Dead, Chasing
<1> QED
  BY <1>1, <1>2, <1>3, <1>4, <1>5, <1>6, <1>7, <1>8

\* Reading the owner of the lock file claims nothing.
LEMMA ReadOwnerStep ==
  ASSUME IInv, NEW p \in Procs, ReadOwner(p)
  PROVE  IInv'
<1> USE TokenFacts DEF IInv, ReadOwner, At, Goto, files, locals, MaybeTok
<1>1. TypeOK'
  BY DEF TypeOK, PCs
<1>2. Attempts'
  BY DEF Attempts
<1>3. Locked'
  BY DEF Locked
<1>4. Stale'
  BY DEF Stale, TypeOK, Dead, Reclaiming, Chasing, Inside
<1>5. Gates'
  BY DEF Gates, Inside
<1>6. Chain'
  BY DEF Chain, Place, Dead, Chasing
<1>7. Met'
  BY DEF Met, Gone, TypeOK
<1>8. Observed'
  BY DEF Observed, Dead, Chasing
<1> QED
  BY <1>1, <1>2, <1>3, <1>4, <1>5, <1>6, <1>7, <1>8

\* Whether the owner is alive decides where the process goes on, and no file
\* changes.
LEMMA CheckOwnerStep ==
  ASSUME IInv, NEW p \in Procs, CheckOwner(p)
  PROVE  IInv'
<1> USE TokenFacts DEF IInv, CheckOwner, At, Goto, files, locals, MaybeTok, Path
<1>1. TypeOK'
  <2>1. Path(seen[p], None) \in Paths
    BY DEF TypeOK, Paths
  <2> QED
    BY <2>1 DEF TypeOK, PCs
<1>2. Attempts'
  BY DEF Attempts, TypeOK
<1>3. Locked'
  BY DEF Locked, TypeOK
<1>4. Stale'
  BY DEF Stale, TypeOK, Dead, Reclaiming, Chasing, Inside
<1>5. Gates'
  BY DEF Gates, TypeOK, Inside
<1>6. Chain'
  BY DEF Chain, Place, TypeOK, Dead, Chasing
<1>7. Met'
  BY DEF Met, Gone, TypeOK
<1>8. Observed'
  BY DEF Observed, TypeOK, Dead, Chasing
<1> QED
  BY <1>1, <1>2, <1>3, <1>4, <1>5, <1>6, <1>7, <1>8

\* A gate is linked only where none is, and its place is still behind those
\* of dead owners.
LEMMA LinkGateStep ==
  ASSUME IInv, NEW p \in Procs, LinkGate(p)
  PROVE  IInv'
<1> USE TokenFacts DEF IInv, LinkGate, At, Goto, files, locals, MaybeTok, GateAt, Path
<1>1. TypeOK'
  <2>1. [path |-> gate[p], by |-> token[p]] \in [path : Paths, by : Tokens]
    BY DEF TypeOK, Attempts
  <2> QED
    BY <2>1 DEF TypeOK, PCs
<1>2. Attempts'
  BY DEF Attempts, TypeOK
<1>3. Locked'
  BY DEF Locked, TypeOK
<1>4. Stale'
  BY DEF Stale, TypeOK, Dead, Reclaiming, Chasing
<1>5. Gates'
  <2>1. IsFiniteSet(gates)'
    BY FS_AddElement, FS_RemoveElement DEF Gates
  <2>2. (\A g, h \in gates : (g.path = h.path \/ g.by = h.by) => g = h)'
    BY DEF Gates, Attempts
  <2>3. (\A g \in gates : Pid(g.by) \in alive =>
          /\ token[Pid(g.by)] = g.by /\ gate[Pid(g.by)] = g.path
          /\ pc[Pid(g.by)] \in Inside)'
    BY DEF Gates, Attempts, TypeOK, Inside
  <2>4. (\A q \in Procs : pc[q] \in Inside => [path |-> gate[q],
  by |-> token[q]] \in gates)'
    BY DEF Gates, TypeOK, Inside
  <2> QED
    BY <2>1, <2>2, <2>3, <2>4 DEF Gates
<1>6. Chain'
  BY DEF Chain, Place, Stale, TypeOK, Dead, Reclaiming, Chasing
<1>7. Met'
  BY DEF Met, Gone, Stale, TypeOK, Reclaiming, Chasing
<1>8. Observed'
  BY DEF Observed, Attempts, TypeOK, Dead, Chasing
<1> QED
  BY <1>1, <1>2, <1>3, <1>4, <1>5, <1>6, <1>7, <1>8

\* The gate owner that is read is there, or will be gone for good.
LEMMA ReadGateOwnerStep ==
  ASSUME IInv, NEW p \in Procs, ReadGateOwner(p)
  PROVE  IInv'
<1> USE TokenFacts DEF IInv, ReadGateOwner, At, Goto, files, locals, MaybeTok, GateAt,
OwnerAt
<1>1. TypeOK'
  BY DEF TypeOK, PCs
<1>2. Attempts'
  BY DEF Attempts
<1>3. Locked'
  BY DEF Locked
<1>4. Stale'
  BY DEF Stale, Dead, Reclaiming, Chasing
<1>5. Gates'
  BY DEF Gates, Inside
<1>6. Chain'
  BY DEF Chain, Place, Dead, Chasing
<1>7. Met'
  BY DEF Met, Gone, Stale, TypeOK, Reclaiming, Chasing, Observed
<1>8. Observed'
  BY DEF Observed, Dead, Chasing
<1> QED
  BY <1>1, <1>2, <1>3, <1>4, <1>5, <1>6, <1>7, <1>8

\* A gate with a dead owner sends the process on to the place behind it, and
\* the process has not been there.
LEMMA CheckGateOwnerStep ==
  ASSUME IInv, NEW p \in Procs, CheckGateOwner(p)
  PROVE  IInv'
<1> USE TokenFacts DEF IInv, CheckGateOwner, At, Goto, files, locals, MaybeTok, Path
<1>0. /\ gateSeen[p] \in Tokens \ observed[p] /\ UNCHANGED broken
      /\ \/ Goto(p, "cleanup") /\ UNCHANGED <<gate, observed>>
         \/ /\ Dead(gateSeen[p])
            /\ observed' = [observed EXCEPT ![p] = @ \cup {gateSeen[p]}]
            /\ gate' = [gate EXCEPT ![p] = Path(seen[p], gateSeen[p])]
            /\ Goto(p, "gate")
  BY DEF Met
<1>1. TypeOK'
  <2>1. Path(seen[p], gateSeen[p]) \in Paths
    BY DEF TypeOK, Paths
  <2> HIDE DEF Path
  <2> QED
    BY <1>0, <2>1 DEF TypeOK, PCs
<1>2. Attempts'
  BY DEF Attempts, Met, TypeOK
<1>3. Locked'
  BY DEF Locked, TypeOK
<1>4. Stale'
  BY DEF Stale, TypeOK, Dead, Reclaiming, Chasing
<1>5. Gates'
  BY DEF Gates, TypeOK, Inside
<1>6. Chain'
  <2>1. lock = seen[p] /\ Dead(gateSeen[p]) => Place(lock, gateSeen[p])
    BY DEF Met, Gone, Stale, Place, Reclaiming, Chasing
  <2> HIDE DEF Place
  <2>2. \A s, t : Place(s, t)' <=> Place(s, t)
    BY DEF Place, Dead
  <2> QED
    BY <1>0, <2>1, <2>2 DEF Chain, Chasing, TypeOK
<1>7. Met'
  BY DEF Met, Gone, TypeOK, Reclaiming, Chasing
<1>8. Observed'
  <2>1. CASE Goto(p, "cleanup") /\ UNCHANGED <<gate, observed>>
    BY <2>1 DEF Observed, Chasing, Dead
  <2>2. CASE /\ Dead(gateSeen[p])
             /\ observed' = [observed EXCEPT ![p] = @ \cup {gateSeen[p]}]
             /\ gate' = [gate EXCEPT ![p] = Path(seen[p], gateSeen[p])]
             /\ Goto(p, "gate")
    <3>1. \A g \in gates : g.by = gateSeen[p] /\ g.path.stale = seen[p] => g.path = gate[p]
      <4>1. CASE Gone(gateSeen[p], seen[p])
        BY <4>1 DEF Gone
      <4>2. CASE [path |-> gate[p], by |-> gateSeen[p]] \in gates
        BY <4>2 DEF Gates
      <4> QED
        BY <4>1, <4>2 DEF Met
    <3>2. observed'[p] = observed[p] \cup {gateSeen[p]} /\ gate'[p].after = gateSeen[p]
      BY <2>2 DEF TypeOK
    <3>3. \A g \in gates : g.by \in observed'[p] /\ g.path.stale = seen[p] =>
            g.path.after \in ({None} \cup observed'[p]) \ {gateSeen[p]}
      BY <1>0, <3>1, <3>2 DEF Observed, Chasing
    <3>4. \A t \in observed'[p] : Dead(t)
      BY <2>2, <3>2 DEF Observed, Chasing
    <3>5. \A q \in Procs : q # p =>
            observed'[q] = observed[q] /\ gate'[q] = gate[q] /\ pc'[q] = pc[q]
      BY <2>2
    <3> QED
      BY <3>2, <3>3, <3>4, <3>5 DEF Observed, Dead
  <2> QED
    BY <1>0, <2>1, <2>2
<1> QED
  BY <1>1, <1>2, <1>3, <1>4, <1>5, <1>6, <1>7, <1>8

\* Inside the gate the owner is read again: if it is the same, no other
\* process is inside.
LEMMA RecheckStep ==
  ASSUME IInv, NEW p \in Procs, Recheck(p)
  PROVE  IInv'
<1> USE TokenFacts DEF IInv, Recheck, At, Goto, files, locals, MaybeTok
<1>1. TypeOK'
  BY DEF TypeOK, PCs
<1>2. Attempts'
  BY DEF Attempts
<1>3. Locked'
  BY DEF Locked
<1>4. Stale'
  BY DEF Stale, Dead, Reclaiming, Inside
<1>5. Gates'
  BY DEF Gates, Inside
<1>6. Chain'
  BY DEF Chain, Place, Dead, Chasing
<1>7. Met'
  BY DEF Met, Gone, Reclaiming, Inside
<1>8. Observed'
  BY DEF Observed, Dead, Chasing
<1> QED
  BY <1>1, <1>2, <1>3, <1>4, <1>5, <1>6, <1>7, <1>8

\* The comparison of the two files passes only for the file that was found
\* dead.
LEMMA SameFileStep ==
  ASSUME IInv, NEW p \in Procs, SameFile(p)
  PROVE  IInv'
<1> USE TokenFacts DEF IInv, SameFile, At, Goto, files, locals, MaybeTok
<1>0. pc' = [pc EXCEPT ![p] = "unlink"] /\ ~broken'
  <2>1. lock = seen[p] /\ seen[p] \in claims
    BY DEF Locked, Stale, Inside, Reclaiming, Dead
  <2> QED
    BY <2>1 DEF Attempts
<1>1. TypeOK'
  BY DEF TypeOK, PCs
<1>2. Attempts'
  BY <1>0 DEF Attempts
<1>3. Locked'
  BY DEF Locked
<1>4. Stale'
  BY DEF Stale, Dead, Reclaiming, Inside
<1>5. Gates'
  BY <1>0 DEF Gates, Inside
<1>6. Chain'
  BY DEF Chain, Place, Dead, Chasing
<1>7. Met'
  BY DEF Met, Gone, Reclaiming, Chasing, Inside
<1>8. Observed'
  BY DEF Observed, Dead, Chasing
<1> QED
  BY <1>1, <1>2, <1>3, <1>4, <1>5, <1>6, <1>7, <1>8

\* The file unlinked under the gate is one whose owner is dead.
LEMMA UnlinkStep ==
  ASSUME IInv, NEW p \in Procs, Unlink(p)
  PROVE  IInv'
<1> USE TokenFacts DEF IInv, Unlink, At, Goto, files, locals, MaybeTok
<1>0. lock = seen[p] /\ lock # None /\ Dead(lock)
  BY DEF Stale, Dead, Reclaiming, Inside
<1>1. TypeOK'
  BY DEF TypeOK, PCs
<1>2. Attempts'
  BY <1>0 DEF Attempts, TypeOK
<1>3. Locked'
  BY <1>0 DEF Locked, Attempts, Dead
<1>4. Stale'
  <2>1. \A q \in Procs : pc'[q] \notin {"sameFile", "unlink"}
    BY <1>0, OneReclaimer DEF Stale, Inside, TypeOK
  <2> QED
    BY <1>0, <2>1 DEF Stale, Dead, Reclaiming, Inside
<1>5. Gates'
  BY <1>0 DEF Gates, Inside
<1>6. Chain'
  BY DEF Chain, Stale, Dead, Reclaiming, Inside
<1>7. Met'
  BY DEF Met, Gone, Stale, TypeOK, Dead, Reclaiming, Chasing
<1>8. Observed'
  BY DEF Observed, Dead, Chasing
<1> QED
  BY <1>1, <1>2, <1>3, <1>4, <1>5, <1>6, <1>7, <1>8

\* The stale claim goes after the lock that was linked to it.
LEMMA UnlinkClaimStep ==
  ASSUME IInv, NEW p \in Procs, UnlinkClaim(p)
  PROVE  IInv'
<1> USE TokenFacts DEF IInv, UnlinkClaim, At, Goto, files, locals, MaybeTok
<1>1. TypeOK'
  BY DEF TypeOK, PCs
<1>2. Attempts'
  BY DEF Attempts, Stale, Dead, Reclaiming, Inside
<1>3. Locked'
  BY DEF Locked, Stale
<1>4. Stale'
  BY DEF Stale, Dead, Reclaiming, Inside
<1>5. Gates'
  BY DEF Gates, Inside
<1>6. Chain'
  BY DEF Chain, Place, Dead, Chasing
<1>7. Met'
  BY DEF Met, Gone, Reclaiming, Inside
<1>8. Observed'
  BY DEF Observed, Dead, Chasing
<1> QED
  BY <1>1, <1>2, <1>3, <1>4, <1>5, <1>6, <1>7, <1>8

\* The gate is unlinked by the one reclaimer that is behind it.
LEMMA UngateStep ==
  ASSUME IInv, NEW p \in Procs, Ungate(p)
  PROVE  IInv'
<1> USE TokenFacts DEF IInv, Ungate, At, Goto, files, locals, MaybeTok
<1>1. TypeOK'
  BY DEF TypeOK, PCs
<1>2. Attempts'
  BY DEF Attempts
<1>3. Locked'
  BY DEF Locked
<1>4. Stale'
  BY DEF Stale, Dead, Reclaiming, Chasing, Inside
<1>5. Gates'
  <2>1. IsFiniteSet(gates)'
    BY FS_AddElement, FS_RemoveElement DEF Gates
  <2>2. (\A g, h \in gates : (g.path = h.path \/ g.by = h.by) => g = h)'
    BY DEF Gates
  <2>3. (\A g \in gates : Pid(g.by) \in alive =>
          /\ token[Pid(g.by)] = g.by /\ gate[Pid(g.by)] = g.path
          /\ pc[Pid(g.by)] \in Inside)'
    BY DEF Gates, TypeOK
  <2>4. (\A q \in Procs : pc[q] \in Inside => [path |-> gate[q],
  by |-> token[q]] \in gates)'
    BY DEF Gates, Attempts, TypeOK, Inside
  <2> QED
    BY <2>1, <2>2, <2>3, <2>4 DEF Gates
<1>6. Chain'
  BY DEF Chain, Place, Attempts, Dead, Chasing
<1>7. Met'
  <2> SUFFICES ASSUME NEW q \in Procs, pc[q] = "gateAlive", q # p
               PROVE  /\ gateSeen[q] \in Tokens \ observed[q]
                      /\ \/ [path |-> gate[q], by |-> gateSeen[q]] \in gates'
                         \/ Gone(gateSeen[q], seen[q])'
    BY DEF Met
  <2>1. gateSeen[q] \in Tokens \ observed[q]
    BY DEF Met
  <2>2. CASE Gone(gateSeen[q], seen[q])
    BY <2>1, <2>2 DEF Gone, Reclaiming, Chasing, Inside
  <2>3. CASE [path |-> gate[q], by |-> gateSeen[q]] \in gates
    <3>1. CASE gateSeen[q] # token[p]
      BY <2>1, <2>3, <3>1
    <3>2. CASE gateSeen[q] = token[p]
      <4>1. gate[q] = gate[p] /\ seen[q] = seen[p] /\ lock # seen[p]
        BY <2>3, <3>2 DEF Gates, Stale, Attempts, Reclaiming, Chasing
      <4>2. \A g \in gates' : g.by # token[p]
        BY DEF Gates, Attempts
      <4>3. \A o \in Procs : token[o] = token[p] /\ pc[o] # "out" => o = p
        BY DEF Attempts
      <4> QED
        BY <2>1, <3>2, <4>1, <4>2, <4>3 DEF Gone, Reclaiming, Chasing, Inside, TypeOK
    <3> QED
      BY <3>1, <3>2
  <2> QED
    BY <2>1, <2>2, <2>3 DEF Met
<1>8. Observed'
  BY DEF Observed, Dead, Chasing
<1> QED
  BY <1>1, <1>2, <1>3, <1>4, <1>5, <1>6, <1>7, <1>8

\* An attempt that gives up removes the files of its own token.
LEMMA CleanupStep ==
  ASSUME IInv, NEW p \in Procs, Cleanup(p)
  PROVE  IInv'
<1> USE TokenFacts DEF IInv, Cleanup, At, Goto, files, locals, MaybeTok, Forget, Path
<1>1. TypeOK'
  BY DEF TypeOK, PCs, Paths
<1>2. Attempts'
  BY DEF Attempts, TypeOK
<1>3. Locked'
  BY DEF Locked, Attempts
<1>4. Stale'
  BY DEF Stale, Dead, Reclaiming, Chasing, Inside
<1>5. Gates'
  BY DEF Gates, Inside
<1>6. Chain'
  BY DEF Chain, Place, Dead, Chasing
<1>7. Met'
  BY DEF Met, Gone, TypeOK
<1>8. Observed'
  BY DEF Observed, Dead, Chasing
<1> QED
  BY <1>1, <1>2, <1>3, <1>4, <1>5, <1>6, <1>7, <1>8

\* The owner that releases is the one the lock file names.
LEMMA StartReleaseStep ==
  ASSUME IInv, NEW p \in Procs, StartRelease(p)
  PROVE  IInv'
<1> USE TokenFacts DEF IInv, StartRelease, At, Goto, files, locals, MaybeTok
<1>1. TypeOK'
  BY DEF TypeOK, PCs
<1>2. Attempts'
  BY DEF Attempts
<1>3. Locked'
  BY DEF Locked
<1>4. Stale'
  BY DEF Stale, Dead, Reclaiming, Chasing, Inside
<1>5. Gates'
  BY DEF Gates, Inside
<1>6. Chain'
  BY DEF Chain, Stale, Attempts, Locked, Dead, Reclaiming, Chasing
<1>7. Met'
  BY DEF Met, Gone, Reclaiming, Chasing, Inside
<1>8. Observed'
  BY DEF Observed, Dead, Chasing
<1> QED
  BY <1>1, <1>2, <1>3, <1>4, <1>5, <1>6, <1>7, <1>8

\* The lock file unlinked on release is the owner's own.
LEMMA UnlockStep ==
  ASSUME IInv, NEW p \in Procs, Unlock(p)
  PROVE  IInv'
<1> USE TokenFacts DEF IInv, Unlock, At, Goto, files, locals, MaybeTok
<1>1. TypeOK'
  BY DEF TypeOK, PCs
<1>2. Attempts'
  BY DEF Attempts
<1>3. Locked'
  BY DEF Locked, Attempts, TypeOK
<1>4. Stale'
  BY DEF Stale, Attempts, Locked, Dead, Reclaiming, Chasing, Inside
<1>5. Gates'
  BY DEF Gates, Inside
<1>6. Chain'
  BY DEF Chain, Stale, Dead, Reclaiming, Chasing
<1>7. Met'
  BY DEF Met, Gone, Stale, Dead, Reclaiming, Chasing, Inside
<1>8. Observed'
  BY DEF Observed, Dead, Chasing
<1> QED
  BY <1>1, <1>2, <1>3, <1>4, <1>5, <1>6, <1>7, <1>8

\* The last file of a token goes away; nobody refers to it any more.
LEMMA UnclaimStep ==
  ASSUME IInv, NEW p \in Procs, Unclaim(p)
  PROVE  IInv'
<1> USE TokenFacts DEF IInv, Unclaim, At, Goto, files, locals, MaybeTok, Forget, Path
<1>1. TypeOK'
  BY DEF TypeOK, PCs, Paths
<1>2. Attempts'
  BY DEF Attempts, TypeOK
<1>3. Locked'
  BY DEF Locked, Attempts
<1>4. Stale'
  BY DEF Stale, Dead, Reclaiming, Chasing, Inside
<1>5. Gates'
  BY DEF Gates, Inside
<1>6. Chain'
  BY DEF Chain, Place, Dead, Chasing
<1>7. Met'
  BY DEF Met, Gone, TypeOK
<1>8. Observed'
  BY DEF Observed, Dead, Chasing
<1> QED
  BY <1>1, <1>2, <1>3, <1>4, <1>5, <1>6, <1>7, <1>8

\* A process that dies leaves its files; whatever it had in hand is dead with
\* it.
LEMMA CrashStep ==
  ASSUME IInv, NEW p \in Procs, Crash(p)
  PROVE  IInv'
<1> USE TokenFacts DEF IInv, Crash, At, Goto, files, locals, MaybeTok, Forget, Path
<1>1. TypeOK'
  BY DEF TypeOK, PCs, Paths
<1>2. Attempts'
  BY DEF Attempts, TypeOK
<1>3. Locked'
  BY DEF Locked, TypeOK
<1>4. Stale'
  BY DEF Stale, TypeOK, Dead, Reclaiming, Chasing, Inside
<1>5. Gates'
  BY DEF Gates, TypeOK, Inside
<1>6. Chain'
  BY DEF Chain, Place, TypeOK, Dead
<1>7. Met'
  BY DEF Met, Gone, TypeOK
<1>8. Observed'
  BY DEF Observed, TypeOK, Dead
<1> QED
  BY <1>1, <1>2, <1>3, <1>4, <1>5, <1>6, <1>7, <1>8

-----------------------------------------------------------------------------
(* The invariant holds from the start, and no step ends it.                  *)
LEMMA InitIInv == Init => IInv
<1> SUFFICES ASSUME Init PROVE IInv
  OBVIOUS
<1> USE DEF Init
<1>1. TypeOK
  BY DEF TypeOK, PCs, Paths, Path, MaybeTok
<1>2. Attempts /\ Locked /\ Stale
  BY DEF Attempts, Locked, Stale, Reclaiming, Chasing, Inside
<1>3. Gates
  BY FS_EmptySet DEF Gates, Inside
<1>4. Chain /\ Met /\ Observed
  BY DEF Chain, Met, Observed, Chasing
<1> QED
  BY <1>1, <1>2, <1>3, <1>4 DEF IInv

\* Every step keeps the invariant.
LEMMA NextIInv == IInv /\ [Next]_vars => IInv'
<1> SUFFICES ASSUME IInv, [Next]_vars PROVE IInv'
  OBVIOUS
<1>1. CASE Next
  BY <1>1, BeginStep, LinkStep, ReadOwnerStep, CheckOwnerStep, LinkGateStep,
     ReadGateOwnerStep, CheckGateOwnerStep, RecheckStep, SameFileStep, UnlinkStep,
     UnlinkClaimStep, UngateStep, CleanupStep, StartReleaseStep, UnlockStep, UnclaimStep,
     CrashStep DEF Next, Step
<1>2. CASE UNCHANGED vars
  BY <1>2 DEF vars, files, locals, IInv, TypeOK, Attempts, Locked, Stale, Gates, Chain,
     Place, Met, Gone, Observed, Dead
<1> QED
  BY <1>1, <1>2

(* The strengthened invariant, in every reachable state.                     *)
THEOREM Invariance == Spec => []IInv
  BY InitIInv, NextIInv, PTL DEF Spec

(* Whatever processes die, and wherever: every state is well formed, no        *)
(* "inconsistent stale append lock" is ever thrown, no gate owner is met        *)
(* twice, and the unlink of a stale lock finds it (journal-file.ts 197-363).  *)
THEOREM NeverConfused == Spec => []Consistent
<1>1. IInv => Consistent
  BY DEF IInv, Attempts, Consistent, NeverInconsistent
<1> QED
  BY <1>1, Invariance, PTL

-----------------------------------------------------------------------------
(* What a step does to the owner, and to those that use the lock.            *)
LEMMA StepMaps ==
  ASSUME IInv, [Next]_vars
  PROVE  [Owner!Next]_<<IF lock = None THEN None ELSE Pid(lock),
                        {p \in alive : pc[p] = "held"}, alive>>
<1> DEFINE own   == IF lock = None THEN None ELSE Pid(lock)
           using == {p \in alive : pc[p] = "held"}
<1> SUFFICES ASSUME ~(UNCHANGED <<own, using, alive>>) PROVE Owner!Next
  OBVIOUS
<1>1. ASSUME NEW p \in Procs, Link(p) PROVE Owner!Acquire(p)
  BY <1>1, TokenFacts DEF Link, At, Goto, Owner!Acquire, IInv, TypeOK, Attempts
<1>2. ASSUME NEW p \in Procs, StartRelease(p) PROVE Owner!Leave(p)
  BY <1>2 DEF StartRelease, Goto, Owner!Leave, files
<1>3. ASSUME NEW p \in Procs, Unlock(p) PROVE Owner!Free(p)
  BY <1>3, TokenFacts DEF Unlock, At, Goto, Owner!Free, IInv, Attempts, Locked
<1>4. ASSUME NEW p \in Procs, Unlink(p) PROVE Owner!Clear(p)
  BY <1>4, TokenFacts DEF Unlink, At, Goto, Owner!Clear, IInv, TypeOK, Stale, Dead,
     Reclaiming, Inside, MaybeTok
<1>5. ASSUME NEW p \in Procs, Crash(p) PROVE Owner!Crash(p)
  BY <1>5 DEF Crash, Forget, Owner!Crash, files
<1>6. ASSUME NEW p \in Procs,
             \/ Begin(p) \/ ReadOwner(p) \/ CheckOwner(p) \/ LinkGate(p) \/ ReadGateOwner(p)
             \/ CheckGateOwner(p) \/ Recheck(p) \/ SameFile(p) \/ UnlinkClaim(p) \/ Ungate(p)
             \/ Cleanup(p) \/ Unclaim(p)
      PROVE  UNCHANGED <<own, using, alive>>
  <2>1. UNCHANGED <<lock, alive>>
    BY <1>6 DEF Begin, ReadOwner, CheckOwner, LinkGate, ReadGateOwner, CheckGateOwner,
       Recheck, SameFile, UnlinkClaim, Ungate, Cleanup, Unclaim, files
  <2>2. \E to \in PCs \ {"held"} : pc[p] # "held" /\ pc' = [pc EXCEPT ![p] = to]
    BY <1>6 DEF Begin, ReadOwner, CheckOwner, LinkGate, ReadGateOwner, CheckGateOwner,
       Recheck, SameFile, UnlinkClaim, Ungate, Cleanup, Unclaim, Forget, At, Goto, PCs
  <2>3. UNCHANGED using
    BY <2>1, <2>2
  <2> QED
    BY <2>1, <2>3
<1>7. UNCHANGED vars => UNCHANGED <<own, using, alive>>
  BY DEF vars, files
<1> QED
  BY <1>1, <1>2, <1>3, <1>4, <1>5, <1>6, <1>7 DEF Next, Step, Owner!Next

(* The lock files do what acquireExclusiveLock promises: the lock is given     *)
(* when it is free, it is its owner's until that one begins to release it, and  *)
(* nobody but a live process clears it, after the owner's death               *)
(* (journal-file.ts 197-363).                                                *)
THEOREM OwnerIsExclusive == Spec => ImplementsExclusiveOwner
<1>1. Init => Owner!Init
  BY DEF Init, Owner!Init
<1> QED
  BY <1>1, StepMaps, Invariance, PTL DEF Spec, ImplementsExclusiveOwner, Owner!Spec

------------------------------------------------------------------------------
(* TurnQueue and ChatServer.                                                 *)
Queued == {"waiting", "holding", "cancelled"}

Places ==
  /\ \A o \in Ops : place[o] <= tail
  /\ \A o, q \in Ops : place[o] = place[q] /\ place[o] # 0 => o = q
  /\ \A o \in Ops : state[o] \in Queued => place[o] # 0
  /\ \A o \in Ops : state[o] \in {"new", "direct"} => place[o] = 0

Prefix ==
  /\ 0 \in passed
  /\ \A k \in passed : k <= tail
  /\ \A j, k \in Nat : k \in passed /\ j <= k => j \in passed

Owners ==
  /\ \A o \in Ops : place[o] # 0 => (place[o] \in passed <=> state[o] = "over")
  /\ \A o \in Ops : state[o] = "holding" => place[o] - 1 \in passed

Counted == pending = {o \in Ops : state[o] \in Queued}

QueueInv == Queue!TypeOK /\ Places /\ Prefix /\ Owners /\ Counted

-----------------------------------------------------------------------------
LEMMA InitQueue == Queue!Init => QueueInv
BY DEF Queue!Init, QueueInv, Queue!TypeOK, Queue!States, Places, Prefix, Owners, Counted, Queued

(* Resolving the place behind a passed one keeps the passed places a prefix. *)
LEMMA ResolveQueue ==
  ASSUME QueueInv, NEW o \in Ops, state[o] \in {"holding", "cancelled"}, Queue!IsNext(o), Queue!Resolve(o)
  PROVE  QueueInv'
<1> USE DEF QueueInv, Queue!IsNext, Queue!Resolve, Queue!Goto
<1>1. place[o] \in Nat /\ place[o] # 0 /\ place[o] <= tail /\ place[o] \notin passed
  BY DEF Queue!TypeOK, Places, Owners, Queued
<1>2. Queue!TypeOK'
  BY DEF Queue!TypeOK, Queue!States
<1>3. Places'
  BY DEF Queue!TypeOK, Places, Queued
<1>4. Prefix'
  <2>1. 0 \in passed' /\ \A k \in passed' : k <= tail'
    BY <1>1 DEF Prefix
  <2>2. ASSUME NEW j \in Nat, NEW k \in Nat, k \in passed', j <= k PROVE j \in passed'
    <3>1. CASE k \in passed
      BY <2>2, <3>1 DEF Prefix
    <3>2. CASE k = place[o] /\ j = k
      BY <3>2
    <3>3. CASE k = place[o] /\ j # k
      <4>1. j <= place[o] - 1 /\ place[o] - 1 \in Nat
        BY <1>1, <2>2, <3>3
      <4> QED BY <4>1 DEF Prefix
    <3> QED BY <2>2, <3>1, <3>2, <3>3
  <2> QED BY <2>1, <2>2 DEF Prefix
<1>5. Owners'
  <2>1. ASSUME NEW q \in Ops, place'[q] # 0 PROVE place'[q] \in passed' <=> state'[q] = "over"
    BY <1>1, <2>1 DEF Queue!TypeOK, Places, Owners
  <2>2. ASSUME NEW q \in Ops, state'[q] = "holding" PROVE place'[q] - 1 \in passed'
    BY <2>2 DEF Queue!TypeOK, Owners
  <2> QED BY <2>1, <2>2 DEF Owners
<1>6. Counted'
  BY DEF Queue!TypeOK, Counted, Queued
<1> QED BY <1>2, <1>3, <1>4, <1>5, <1>6

LEMMA AcquireQueue == ASSUME QueueInv, NEW o \in Ops, Queue!Acquire(o) PROVE QueueInv'
<1> USE DEF QueueInv, Queue!Acquire, Queue!Goto
<1>1. place[o] = 0 /\ tail \in Nat
  BY DEF Queue!TypeOK, Places
<1>2. Queue!TypeOK'
  BY DEF Queue!TypeOK, Queue!States
<1>3. Places'
  <2>1. \A q \in Ops : q # o => place'[q] = place[q] /\ place[q] \in Nat /\ place[q] <= tail
    BY DEF Queue!TypeOK, Places
  <2>2. place'[o] = tail + 1 /\ state'[o] = "waiting"
    BY DEF Queue!TypeOK
  <2> QED BY <1>1, <2>1, <2>2 DEF Queue!TypeOK, Places, Queued
<1>4. Prefix'
  BY <1>1 DEF Queue!TypeOK, Prefix
<1>5. Owners'
  <2>1. tail + 1 \notin passed
    BY <1>1 DEF Queue!TypeOK, Prefix
  <2> QED BY <1>1, <2>1 DEF Queue!TypeOK, Owners
<1>6. Counted'
  BY DEF Queue!TypeOK, Counted, Queued
<1> QED BY <1>2, <1>3, <1>4, <1>5, <1>6

LEMMA NextQueue == QueueInv /\ [Queue!Next]_(Queue!vars) => QueueInv'
<1> SUFFICES ASSUME QueueInv, [Queue!Next]_(Queue!vars) PROVE QueueInv'
  OBVIOUS
<1> USE DEF QueueInv
<1>1. ASSUME NEW o \in Ops, Queue!Acquire(o) PROVE QueueInv'
  BY <1>1, AcquireQueue
<1>2. ASSUME NEW o \in Ops, Queue!Refuse(o) PROVE QueueInv'
  BY <1>2 DEF Queue!Refuse, Queue!Goto, Queue!TypeOK, Queue!States, Places, Prefix, Owners, Counted, Queued
<1>3. ASSUME NEW o \in Ops, Queue!Enter(o) PROVE QueueInv'
  BY <1>3 DEF Queue!Enter, Queue!IsNext, Queue!Goto, Queue!TypeOK, Queue!States, Places, Prefix, Owners, Counted, Queued
<1>4. ASSUME NEW o \in Ops, Queue!Cancel(o) PROVE QueueInv'
  BY <1>4 DEF Queue!Cancel, Queue!Goto, Queue!TypeOK, Queue!States, Places, Prefix, Owners, Counted, Queued
<1>5. ASSUME NEW o \in Ops, Queue!Pass(o) PROVE QueueInv'
  BY <1>5, ResolveQueue DEF Queue!Pass
<1>6. ASSUME NEW o \in Ops, Queue!Finish(o) PROVE QueueInv'
  BY <1>6, ResolveQueue DEF Queue!Finish, Owners, Queue!IsNext
<1>7. ASSUME NEW o \in Ops, Queue!Direct(o) PROVE QueueInv'
  BY <1>7 DEF Queue!Direct, Queue!Goto, Queue!TypeOK, Queue!States, Places, Prefix, Owners, Counted, Queued
<1>8. ASSUME UNCHANGED Queue!vars PROVE QueueInv'
  BY <1>8 DEF Queue!vars, Queue!TypeOK, Places, Prefix, Owners, Counted
<1> QED BY <1>1, <1>2, <1>3, <1>4, <1>5, <1>6, <1>7, <1>8 DEF Queue!Next

LEMMA OneTurnFromQueue == QueueInv => Queue!OneTurn
<1> SUFFICES ASSUME QueueInv, NEW o \in Ops, NEW q \in Ops,
                    state[o] = "holding", state[q] = "holding", place[o] < place[q]
             PROVE  FALSE
  BY DEF QueueInv, Queue!OneTurn, Queue!TypeOK, Places, Queued
<1>1. place[q] - 1 \in passed /\ place[q] - 1 \in Nat /\ place[o] <= place[q] - 1
  BY DEF QueueInv, Queue!TypeOK, Owners
<1>2. place[o] \in passed
  BY <1>1 DEF QueueInv, Queue!TypeOK, Prefix
<1> QED BY <1>2 DEF QueueInv, Owners, Places, Queued

LEMMA FairFromQueue == ASSUME QueueInv, Queue!Next, NEW o \in Ops PROVE Queue!Fair(o)
<1>1. PICK r \in Ops : Queue!Acquire(r) \/ Queue!Refuse(r) \/ Queue!Enter(r) \/ Queue!Cancel(r) \/ Queue!Pass(r) \/ Queue!Finish(r) \/ Queue!Direct(r)
  BY DEF Queue!Next
<1>2. ASSUME state[o] = "waiting", state'[o] = "holding", NEW q \in Queue!Ahead(o) PROVE state[q] = "over"
  <2>1. Queue!IsNext(o)
    BY <1>1, <1>2 DEF QueueInv, Queue!TypeOK, Queue!Acquire, Queue!Refuse, Queue!Enter, Queue!Cancel, Queue!Pass, Queue!Finish, Queue!Direct, Queue!Resolve, Queue!Goto
  <2>2. q \in Ops /\ place[q] \in Nat /\ place[q] # 0 /\ place[q] <= place[o] - 1 /\ place[o] - 1 \in Nat
    BY <1>2 DEF QueueInv, Queue!TypeOK, Queue!Ahead
  <2>3. place[q] \in passed
    BY <2>1, <2>2 DEF QueueInv, Queue!IsNext, Prefix
  <2> QED BY <2>2, <2>3 DEF QueueInv, Owners
<1>3. ASSUME state[o] = "new", state'[o] = "direct", NEW q \in Ops PROVE state[q] \notin {"waiting", "holding"}
  <2>1. pending = {}
    BY <1>1, <1>3 DEF QueueInv, Queue!TypeOK, Queue!Acquire, Queue!Refuse, Queue!Enter, Queue!Cancel, Queue!Pass, Queue!Finish, Queue!Direct, Queue!Resolve, Queue!Goto
  <2> QED BY <2>1 DEF QueueInv, Counted, Queued
<1> QED BY <1>2, <1>3 DEF Queue!Fair

-----------------------------------------------------------------------------
(* The invariant holds in every reachable state.                             *)
LEMMA SpecQueue == Queue!Spec => []QueueInv
BY InitQueue, NextQueue, PTL DEF Queue!Spec

(* What the server does to the queue is a step of the queue, or none: a        *)
(* request acquires, refuses, enters, cancels, passes or finishes its turn    *)
(* (chat-agent-http.ts 61-175).                                              *)
LEMMA Serves == [Http!ServerNext]_Http!ServerVars => [Queue!Next]_(Queue!vars)
<1> SUFFICES ASSUME NEW o \in Ops,
                    Http!Arrive(o) \/ Http!Body(o) \/ Http!Disconnect(o) \/ Http!Goes(o)
             PROVE  [Queue!Next]_(Queue!vars)
  BY DEF Http!ServerNext, Http!ServerVars, Http!vars, Queue!vars
<1> DEFINE Turned == Queue!Acquire(o) \/ Queue!Refuse(o) \/ Queue!Enter(o) \/ Queue!Cancel(o)
                     \/ Queue!Pass(o) \/ Queue!Finish(o) \/ UNCHANGED Queue!vars
<1>1. /\ Http!Acquire(o) => Queue!Acquire(o)
      /\ Http!Refuse(o) => Queue!Refuse(o)
      /\ Http!Enter(o) => Queue!Enter(o)
      /\ Http!Cancel(o) => Queue!Cancel(o)
      /\ Http!Pass(o) => Queue!Pass(o)
      /\ Http!Finish(o) => Queue!Finish(o)
      /\ UNCHANGED Http!Queued => UNCHANGED Queue!vars
  BY DEF Http!Acquire, Http!Refuse, Http!Enter, Http!Cancel, Http!Pass, Http!Finish, Http!Resolve,
         Http!IsNext, Http!Goto, Http!Queued, Http!vars, Queue!Acquire, Queue!Refuse, Queue!Enter,
         Queue!Cancel, Queue!Pass, Queue!Finish, Queue!Resolve, Queue!IsNext, Queue!Goto, Queue!vars
<1>2. ASSUME Http!Arrive(o) PROVE Turned
  BY <1>1, <1>2 DEF Http!Arrive
<1>3. ASSUME Http!Body(o) PROVE Turned
  BY <1>1, <1>3 DEF Http!Body
<1>4. ASSUME Http!Disconnect(o) PROVE Turned
  BY <1>1, <1>4 DEF Http!Disconnect
<1>5. ASSUME Http!Goes(o) PROVE Turned
  BY <1>1, <1>5 DEF Http!Goes, Http!Context, Http!TurnBegins, Http!TurnEnds, Http!Passes,
                    Http!Answer, Http!Fail
<1> QED BY <1>2, <1>3, <1>4, <1>5 DEF Queue!Next

(* The queue is by itself, behind the server, or left alone.                  *)
LEMMA Queues == MCSpec => Queue!Spec
<1> DEFINE all == <<part, vars, turns, http>>
<1>1. MCInit => Queue!Init
  BY DEF MCInit, Http!ServerInit, Http!Init, Queue!Init
<1>2. [MCNext]_all => [Queue!Next]_(Queue!vars)
  BY Serves DEF MCNext, turns, Queue!vars
<1> QED BY <1>1, <1>2, PTL DEF MCSpec, Queue!Spec

-----------------------------------------------------------------------------
(* However many callers wait, are cancelled or go away, one operation at a     *)
(* time holds the session (acquireTurn, chat-agent.ts 344-372).               *)
THEOREM MutualExclusion == MCSpec => []OneTurn
<1>1. QueueInv => OneTurn
  BY OneTurnFromQueue DEF OneTurn
<1> QED BY <1>1, SpecQueue, Queues, PTL

(* The session is given out in the order in which callers asked for it, and  *)
(* reset() and deleteThread() never run beside a turn.                        *)
THEOREM FirstComeFirstServed == MCSpec => Queue!InTurn
<1>1. QueueInv /\ [Queue!Next]_(Queue!vars) => [\A o \in Ops : Queue!Fair(o)]_(Queue!vars)
  BY FairFromQueue
<1> QED BY <1>1, SpecQueue, Queues, PTL DEF Queue!Spec, Queue!InTurn

-----------------------------------------------------------------------------
(* How often a request was answered, by where its handler is.                 *)
Answered ==
  \A o \in Ops :
    /\ at[o] \in {"new", "body", "context"} => heads[o] = 0
    /\ at[o] = "turn" => heads[o] = IF kind[o] = "stream" THEN 1 ELSE 0
    /\ at[o] = "answer" => o \in well /\ heads[o] = IF kind[o] = "stream" THEN 1 ELSE 0
    /\ said[o] = "200" => o \in well
ServerTypes ==
  /\ at \in [Ops -> {"new", "body", "context", "turn", "answer", "failed", "over"}]
  /\ heads \in [Ops -> {0, 1}] /\ said \in [Ops -> {"nothing", "200", "400", "error"}]

ServerInv == ServerTypes /\ Answered

LEMMA ServerStep == ServerInv /\ [Http!ServerNext]_http => ServerInv'
<1> SUFFICES ASSUME ServerInv, [Http!ServerNext]_http PROVE ServerInv'
  OBVIOUS
<1> USE DEF ServerInv, ServerTypes, Answered, Http!Move, Http!Writes, Http!Says
<1>1. ASSUME NEW o \in Ops, Http!Arrive(o) PROVE ServerInv'
  BY <1>1 DEF Http!Arrive
<1>2. ASSUME NEW o \in Ops, Http!Body(o) PROVE ServerInv'
  BY <1>2 DEF Http!Body
<1>3. ASSUME NEW o \in Ops, Http!Disconnect(o) PROVE ServerInv'
  BY <1>3 DEF Http!Disconnect
<1>4. ASSUME NEW o \in Ops, Http!Context(o) PROVE ServerInv'
  BY <1>4 DEF Http!Context
<1>5. ASSUME NEW o \in Ops, Http!TurnBegins(o) \/ Http!Passes(o) PROVE ServerInv'
  BY <1>5 DEF Http!TurnBegins, Http!Passes, Http!http
<1>6. ASSUME NEW o \in Ops, Http!TurnEnds(o) PROVE ServerInv'
  BY <1>6 DEF Http!TurnEnds
<1>7. ASSUME NEW o \in Ops, Http!Answer(o) PROVE ServerInv'
  BY <1>7 DEF Http!Answer
<1>8. ASSUME NEW o \in Ops, Http!Fail(o) PROVE ServerInv'
  BY <1>8 DEF Http!Fail
<1>9. CASE UNCHANGED http
  BY <1>9 DEF http
<1> QED
  BY <1>1, <1>2, <1>3, <1>4, <1>5, <1>6, <1>7, <1>8, <1>9 DEF Http!ServerNext, Http!Goes

(* Every request gets one status line, and success is reported of a turn that  *)
(* ended well, whoever disconnects when (chat-agent-http.ts 61-175).          *)
THEOREM AnsweredOnce == MCSpec => []Http!OneAnswer
<1> DEFINE all == <<part, vars, turns, http>>
<1>1. MCInit => ServerInv
  BY DEF MCInit, Http!ServerInit, ServerInv, ServerTypes, Answered
<1>2. ServerInv /\ [MCNext]_all => ServerInv'
  BY ServerStep DEF MCNext, http
<1>3. ServerInv => Http!OneAnswer
  <2> SUFFICES ASSUME ServerInv, NEW o \in Ops
               PROVE  heads[o] <= 1 /\ (said[o] = "200" => o \in well)
    BY DEF Http!OneAnswer
  <2>1. heads[o] \in {0, 1}
    BY DEF ServerInv, ServerTypes
  <2> QED BY <2>1 DEF ServerInv, Answered
<1> QED BY <1>1, <1>2, <1>3, PTL DEF MCSpec
=============================================================================
