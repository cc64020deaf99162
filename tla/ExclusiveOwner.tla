--------------------------- MODULE ExclusiveOwner ---------------------------
(***************************************************************************)
(* What acquireExclusiveLock (src/framework/journal-file.ts, and its twin  *)
(* in session.ts) promises its callers: a process that was given the lock  *)
(* is its only owner until it begins to release it, whatever the others do *)
(* meanwhile; the lock comes free by that release or, once the owner is    *)
(* dead, by a live process clearing it.                                    *)
(***************************************************************************)
CONSTANTS Procs, Nobody

VARIABLES
  owner,  \* the process the lock names
  using,  \* live processes that may act as the owner
  alive

Acquire(p) ==
  /\ owner = Nobody /\ p \in alive
  /\ owner' = p /\ using' = using \cup {p} /\ UNCHANGED alive

\* release() begins, and later the lock comes free.
Leave(p) == p \in using /\ using' = using \ {p} /\ UNCHANGED <<owner, alive>>
Free(p)  == owner = p /\ p \in alive \ using /\ owner' = Nobody /\ UNCHANGED <<using, alive>>

Clear(p) == owner \in Procs \ alive /\ p \in alive /\ owner' = Nobody /\ UNCHANGED <<using, alive>>
Crash(p) == p \in alive /\ alive' = alive \ {p} /\ using' = using \ {p} /\ UNCHANGED owner

Init == owner = Nobody /\ using = {} /\ alive = Procs
Next == \E p \in Procs : Acquire(p) \/ Leave(p) \/ Free(p) \/ Clear(p) \/ Crash(p)
Spec == Init /\ [][Next]_<<owner, using, alive>>
=============================================================================
