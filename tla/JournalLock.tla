----------------------------- MODULE JournalLock -----------------------------
(***************************************************************************)
(* The crash-recoverable cross-process lock of src/framework/journal-file  *)
(* .ts (session.ts holds the same code for session streams): a claim file  *)
(* hard-linked onto the lock path, and a chain of reclaim gates that lets  *)
(* one process at a time clear the lock of a dead owner.                   *)
(*                                                                         *)
(* Each system call is a step.  A process may die between any two of them, *)
(* and what it linked stays.  A token names an attempt and its claim file, *)
(* so a path is the token of the inode it links to.  A token may be drawn  *)
(* again once nothing remembers it: randomUUID never repeats one, and      *)
(* nobody could tell.                                                      *)
(***************************************************************************)
EXTENDS Naturals, FiniteSets

CONSTANTS Procs,      \* processes; a restarted one is another process
          Serials,    \* distinguishes the tokens of one process
          MaxCrashes, \* bounds the processes that die
          None        \* no file, no token

ASSUME LockAssumption ==
  /\ IsFiniteSet(Procs) /\ IsFiniteSet(Serials)
  /\ MaxCrashes \in Nat
  /\ None \notin Procs \cup (Procs \X Serials)

Tokens   == Procs \X Serials
Pid(t)   == t[1]
MaybeTok == Tokens \cup {None}

VARIABLES
  alive,     \* processes that process.kill(pid, 0) finds
  lock,      \* the claim linked at the lock path
  claims,    \* claim files present
  gates,     \* reclaim gates present
  pc,        \* per process, the next system call of its attempt
  token,     \* per process, the token of its attempt
  seen,      \* per process, `existing`: the owner it found dead
  gate,      \* per process, reclaimPath
  gateSeen,  \* per process, the gate owner it read last
  observed,  \* per process, observedGateTokens
  broken     \* an "inconsistent" invariant error was thrown

files == <<lock, claims, gates>>
locals == <<token, seen, gate, gateSeen, observed>>
vars == <<alive, files, pc, locals, broken>>

\* reclaimRoot is after = None; the others are reclaimRoot.<dead gate owner>.
Path(stale, after) == [stale |-> stale, after |-> after]
GateAt(path)  == {g \in gates : g.path = path}
OwnerAt(path) == IF GateAt(path) = {} THEN None ELSE (CHOOSE g \in GateAt(path) : TRUE).by
Paths == [stale : MaybeTok, after : MaybeTok]
Dead(t) == t # None /\ Pid(t) \notin alive

PCs == {"out", "link", "owner", "ownerAlive", "gate", "gateOwner", "gateAlive",
        "recheck", "sameFile", "unlink", "unlinkClaim", "ungate", "throw",
        "cleanup", "held", "unlock", "unclaim"}

Init ==
  /\ alive = Procs
  /\ lock = None /\ claims = {} /\ gates = {}
  /\ pc = [p \in Procs |-> "out"]
  /\ token = [p \in Procs |-> None] /\ seen = [p \in Procs |-> None]
  /\ gate = [p \in Procs |-> Path(None, None)] /\ gateSeen = [p \in Procs |-> None]
  /\ observed = [p \in Procs |-> {}]
  /\ broken = FALSE

\* Nothing on disk and no live attempt refers to t.
Unused(t) ==
  /\ t # lock /\ t \notin claims
  /\ \A g \in gates : t \notin {g.by, g.path.stale, g.path.after}
  /\ \A q \in Procs : t \notin observed[q] \cup {seen[q], gateSeen[q], gate[q].stale, gate[q].after}

\* The attempt of p is over: its variables are gone.
Forget(p) ==
  /\ pc' = [pc EXCEPT ![p] = "out"]
  /\ token' = [token EXCEPT ![p] = None] /\ seen' = [seen EXCEPT ![p] = None]
  /\ gate' = [gate EXCEPT ![p] = Path(None, None)] /\ gateSeen' = [gateSeen EXCEPT ![p] = None]
  /\ observed' = [observed EXCEPT ![p] = {}]

At(p, label)  == p \in alive /\ pc[p] = label
Goto(p, label) == pc' = [pc EXCEPT ![p] = label]

-----------------------------------------------------------------------------
(* acquireExclusiveLock.                                                   *)

\* The claim is written, fsynced and closed.
Begin(p) ==
  /\ At(p, "out")
  /\ \E t \in Tokens :
       /\ Pid(t) = p /\ Unused(t)
       /\ token' = [token EXCEPT ![p] = t]
       /\ claims' = claims \cup {t}
  /\ Goto(p, "link")
  /\ UNCHANGED <<alive, lock, gates, seen, gate, gateSeen, observed, broken>>

\* linkSync(claimPath, path): atomic, fails with EEXIST on a taken path.
Link(p) ==
  /\ At(p, "link")
  /\ IF lock = None THEN lock' = token[p] /\ Goto(p, "held")
                    ELSE UNCHANGED lock /\ Goto(p, "owner")
  /\ UNCHANGED <<alive, claims, gates, locals, broken>>

\* readLockOwner(path): undefined when the file is gone.
ReadOwner(p) ==
  /\ At(p, "owner")
  /\ seen' = [seen EXCEPT ![p] = lock]
  /\ Goto(p, IF lock = None THEN "cleanup" ELSE "ownerAlive")
  /\ UNCHANGED <<alive, files, token, gate, gateSeen, observed, broken>>

\* isProcessAlive(existing.pid): a live owner refuses the attempt.
CheckOwner(p) ==
  /\ At(p, "ownerAlive")
  /\ IF Dead(seen[p])
     THEN /\ Goto(p, "gate")
          /\ gate' = [gate EXCEPT ![p] = Path(seen[p], None)]
          /\ observed' = [observed EXCEPT ![p] = {}]
     ELSE Goto(p, "cleanup") /\ UNCHANGED <<gate, observed>>
  /\ UNCHANGED <<alive, files, token, seen, gateSeen, broken>>

-----------------------------------------------------------------------------
(* tryAcquireJournalReclaimGate.                                           *)

\* Seeded fault: a taken gate does not stop anybody.
LinkGateAnyway(p) ==
  /\ At(p, "gate")
  /\ gates' = gates \cup {[path |-> gate[p], by |-> token[p]]} /\ Goto(p, "recheck")
  /\ UNCHANGED <<alive, lock, claims, locals, broken>>

\* linkSync(claimPath, reclaimPath).
LinkGate(p) ==
  /\ At(p, "gate")
  /\ IF GateAt(gate[p]) = {}
     THEN gates' = gates \cup {[path |-> gate[p], by |-> token[p]]} /\ Goto(p, "recheck")
     ELSE UNCHANGED gates /\ Goto(p, "gateOwner")
  /\ UNCHANGED <<alive, lock, claims, locals, broken>>

\* readLockOwner(reclaimPath): undefined refuses the attempt.
ReadGateOwner(p) ==
  /\ At(p, "gateOwner")
  /\ gateSeen' = [gateSeen EXCEPT ![p] = OwnerAt(gate[p])]
  /\ Goto(p, IF OwnerAt(gate[p]) = None THEN "cleanup" ELSE "gateAlive")
  /\ UNCHANGED <<alive, files, token, seen, gate, observed, broken>>

\* Seeded fault: whoever finds the gate of a dead process stays out.
CheckGateOwnerGivesUp(p) ==
  /\ At(p, "gateAlive")
  /\ Goto(p, "cleanup")
  /\ UNCHANGED <<alive, files, locals, broken>>

\* A live gate owner refuses the attempt; a dead one names the next gate.
CheckGateOwner(p) ==
  /\ At(p, "gateAlive")
  /\ IF ~Dead(gateSeen[p])
     THEN Goto(p, "cleanup") /\ UNCHANGED <<gate, observed, broken>>
     ELSE IF gateSeen[p] \in observed[p]
     THEN Goto(p, "cleanup") /\ broken' = TRUE /\ UNCHANGED <<gate, observed>>
     ELSE /\ observed' = [observed EXCEPT ![p] = @ \cup {gateSeen[p]}]
          /\ gate' = [gate EXCEPT ![p] = Path(seen[p], gateSeen[p])]
          /\ Goto(p, "gate") /\ UNCHANGED broken
  /\ UNCHANGED <<alive, files, token, seen, gateSeen>>

-----------------------------------------------------------------------------
(* Inside the gate.                                                        *)

\* readLockOwner(path) again: anything but the same dead owner starts over.
Recheck(p) ==
  /\ At(p, "recheck")
  /\ Goto(p, IF lock = seen[p] THEN "sameFile" ELSE "ungate")
  /\ UNCHANGED <<alive, files, locals, broken>>

\* sameFile(path, staleClaimPath); else the lock must be gone, or the error
\* "inconsistent stale append lock" is thrown.
SameFile(p) ==
  LET same == lock = seen[p] /\ seen[p] \in claims
  IN /\ At(p, "sameFile")
     /\ Goto(p, IF same THEN "unlink" ELSE IF lock = None THEN "ungate" ELSE "throw")
     /\ broken' = (broken \/ (~same /\ lock # None))
     /\ UNCHANGED <<alive, files, locals>>

\* unlinkSync(path): whatever it links to by now; it throws when gone.
Unlink(p) ==
  /\ At(p, "unlink")
  /\ lock' = None
  /\ Goto(p, IF lock = None THEN "throw" ELSE "unlinkClaim")
  /\ broken' = (broken \/ lock = None)
  /\ UNCHANGED <<alive, claims, gates, locals>>

UnlinkClaim(p) ==
  /\ At(p, "unlinkClaim")
  /\ claims' = claims \ {seen[p]}
  /\ Goto(p, "ungate")
  /\ UNCHANGED <<alive, lock, gates, locals, broken>>

\* reclaimGate.release(), then round the loop or on with the error.
Ungate(p) ==
  /\ p \in alive /\ pc[p] \in {"ungate", "throw"}
  /\ gates' = gates \ {[path |-> gate[p], by |-> token[p]]}
  /\ Goto(p, IF pc[p] = "throw" THEN "cleanup" ELSE "link")
  /\ UNCHANGED <<alive, lock, claims, locals, broken>>

\* The catch block of a refused attempt: nothing was linked, drop the claim.
Cleanup(p) ==
  /\ At(p, "cleanup")
  /\ claims' = claims \ {token[p]}
  /\ Forget(p)
  /\ UNCHANGED <<alive, lock, gates, broken>>

-----------------------------------------------------------------------------
(* release() of the acquired lock.                                         *)

\* Seeded fault: the claim is unlinked before the lock.
StartReleaseClaimFirst(p) ==
  /\ At(p, "held")
  /\ claims' = claims \ {token[p]}
  /\ Goto(p, "unlock")
  /\ UNCHANGED <<alive, lock, gates, locals, broken>>

\* sameFile(path, claimPath).
StartRelease(p) ==
  /\ At(p, "held")
  /\ Goto(p, IF lock = token[p] THEN "unlock" ELSE "unclaim")
  /\ UNCHANGED <<alive, files, locals, broken>>

Unlock(p) ==
  /\ At(p, "unlock")
  /\ lock' = None /\ Goto(p, "unclaim")
  /\ UNCHANGED <<alive, claims, gates, locals, broken>>

Unclaim(p) ==
  /\ At(p, "unclaim")
  /\ claims' = claims \ {token[p]}
  /\ Forget(p)
  /\ UNCHANGED <<alive, lock, gates, broken>>

\* The process dies; a dead process has no pid.
Crash(p) ==
  /\ p \in alive /\ Cardinality(Procs \ alive) < MaxCrashes
  /\ alive' = alive \ {p}
  /\ Forget(p)
  /\ UNCHANGED <<files, broken>>

-----------------------------------------------------------------------------
Step(p) ==
  \/ Link(p) \/ ReadOwner(p) \/ CheckOwner(p)
  \/ LinkGate(p) \/ ReadGateOwner(p) \/ CheckGateOwner(p)
  \/ Recheck(p) \/ SameFile(p) \/ Unlink(p) \/ UnlinkClaim(p)
  \/ Ungate(p) \/ Cleanup(p) \/ StartRelease(p) \/ Unlock(p) \/ Unclaim(p)

Next == \E p \in Procs : Begin(p) \/ Step(p) \/ Crash(p)

Spec == Init /\ [][Next]_vars

\* A live process goes on with its system calls, and callers try again.
FairSpec == Spec /\ \A p \in Procs : WF_vars(Step(p)) /\ WF_vars(Begin(p))

-----------------------------------------------------------------------------
(* Properties.                                                             *)

TypeOK ==
  /\ alive \subseteq Procs
  /\ lock \in MaybeTok /\ claims \subseteq Tokens
  /\ gates \subseteq [path : Paths, by : Tokens]
  /\ pc \in [Procs -> PCs]
  /\ token \in [Procs -> MaybeTok] /\ seen \in [Procs -> MaybeTok]
  /\ gate \in [Procs -> Paths] /\ gateSeen \in [Procs -> MaybeTok]
  /\ observed \in [Procs -> SUBSET Tokens]
  /\ broken \in BOOLEAN

\* The "inconsistent" errors are never thrown, nor does the unlink of a
\* stale lock fail: the gate makes the check and the unlink one step.
NeverInconsistent == ~broken

\* Every state is well formed, and so is what is found on disk.
Consistent == TypeOK /\ NeverInconsistent

\* The lock is taken, left and cleared only as ExclusiveOwner allows: nobody
\* clears the lock of a process that is using it.
Owner == INSTANCE ExclusiveOwner WITH
  Nobody <- None,
  owner  <- IF lock = None THEN None ELSE Pid(lock),
  using  <- {p \in alive : pc[p] = "held"}
ImplementsExclusiveOwner == Owner!Spec

\* While callers try again, a dead process does not own the lock for ever.
DeadOwnerCleared ==
  \A t \in Tokens : lock = t /\ Dead(t) ~> lock # t \/ alive = {}
=============================================================================
