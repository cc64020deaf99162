------------------------------ MODULE TurnQueue ------------------------------
(***************************************************************************)
(* Who may touch the session of a chat agent: the chain of promises behind *)
(* acquireTurn(), src/src/framework/chat-agent.ts.  Every turn, reset,      *)
(* deletion, ingestion and the destruction of the agent takes a place; a    *)
(* place is passed when the promise behind it resolves.  A caller whose     *)
(* signal is aborted while it waits keeps its place and passes it as soon   *)
(* as the one in front of it is passed.  reset() and deleteThread() take no *)
(* place: they run at once, when no operation is pending.                   *)
(***************************************************************************)
EXTENDS Integers

CONSTANT Ops  \* the operations callers may ask for

VARIABLES
  state,    \* of an operation: new, waiting, holding, cancelled, over, direct
  place,    \* its place in the chain, 0 while it has none
  tail,     \* the place of turnTail
  passed,   \* the places whose promise is resolved; place 0 always is
  pending   \* the operations pendingTurnOperations counts

vars == <<state, place, tail, passed, pending>>

States == {"new", "waiting", "holding", "cancelled", "over", "direct"}

Init ==
  /\ state = [o \in Ops |-> "new"]
  /\ place = [o \in Ops |-> 0]
  /\ tail = 0
  /\ passed = {0}
  /\ pending = {}

Goto(o, to) == state' = [state EXCEPT ![o] = to]
IsNext(o) == place[o] - 1 \in passed

(* The synchronous part of acquireTurn. *)
Acquire(o) ==
  /\ state[o] = "new" /\ Goto(o, "waiting")
  /\ place' = [place EXCEPT ![o] = tail + 1]
  /\ tail' = tail + 1
  /\ pending' = pending \union {o}
  /\ UNCHANGED passed

(* Its first line throws when the signal is aborted already. *)
Refuse(o) ==
  /\ state[o] = "new" /\ Goto(o, "over")
  /\ UNCHANGED <<place, tail, passed, pending>>

(* waitForTurn resolves. *)
Enter(o) ==
  /\ state[o] = "waiting" /\ IsNext(o) /\ Goto(o, "holding")
  /\ UNCHANGED <<place, tail, passed, pending>>

(* finish(). *)
Resolve(o) ==
  /\ Goto(o, "over")
  /\ passed' = passed \union {place[o]}
  /\ pending' = pending \ {o}
  /\ UNCHANGED <<place, tail>>

(* Seeded fault: a cancelled waiter calls finish() at once. *)
CancelAtOnce(o) == state[o] = "waiting" /\ Resolve(o)

(* Seeded fault: a cancelled waiter never calls finish(). *)
CancelForGood(o) ==
  /\ state[o] = "waiting" /\ Goto(o, "over")
  /\ pending' = pending \ {o}
  /\ UNCHANGED <<place, tail, passed>>

(* The signal is aborted while the caller waits, perhaps when its turn has   *)
(* already come.                                                            *)
Cancel(o) ==
  /\ state[o] = "waiting" /\ Goto(o, "cancelled")
  /\ UNCHANGED <<place, tail, passed, pending>>

(* previous.then(finish, finish). *)
Pass(o) == state[o] = "cancelled" /\ IsNext(o) /\ Resolve(o)

(* The finally block of the operation. *)
Finish(o) == state[o] = "holding" /\ Resolve(o)

(* reset() and deleteThread(). *)
Direct(o) ==
  /\ state[o] = "new" /\ pending = {} /\ Goto(o, "direct")
  /\ UNCHANGED <<place, tail, passed, pending>>

Next ==
  \E o \in Ops :
    Acquire(o) \/ Refuse(o) \/ Enter(o) \/ Cancel(o) \/ Pass(o) \/ Finish(o) \/ Direct(o)

Spec == Init /\ [][Next]_vars

(* Promises settle; an operation ends, because the code bounds providers and *)
(* handlers by deadlines.                                                   *)
Fairness == \A o \in Ops : WF_vars(Enter(o)) /\ WF_vars(Pass(o)) /\ WF_vars(Finish(o))
FairSpec == Spec /\ Fairness

-----------------------------------------------------------------------------
TypeOK ==
  /\ state \in [Ops -> States]
  /\ place \in [Ops -> Nat]
  /\ tail \in Nat
  /\ passed \in SUBSET Nat
  /\ pending \in SUBSET Ops

(* One operation at a time holds the session, also when waiters in front of *)
(* or behind it have been cancelled.                                        *)
OneTurn ==
  \A o, q \in Ops : state[o] = "holding" /\ state[q] = "holding" => o = q

(* The session is given out in the order of asking, and a direct operation  *)
(* never runs while somebody holds it or waits for it.                       *)
Ahead(o) == {q \in Ops : place[q] \in 1..(place[o] - 1)}
Fair(o) ==
  /\ (state[o] = "waiting" /\ state'[o] = "holding") => \A q \in Ahead(o) : state[q] = "over"
  /\ (state[o] = "new" /\ state'[o] = "direct") =>
       \A q \in Ops : state[q] \notin {"waiting", "holding"}
InTurn == [][\A o \in Ops : Fair(o)]_vars

(* A caller that waits gets the session, or is cancelled and then forgotten: *)
(* nobody's cancellation leaves a later caller waiting for ever              *)
(* (chat-agent.ts 362-365).                                                  *)
EveryWaiterServed ==
  \A o \in Ops : state[o] \in {"waiting", "cancelled"} ~> state[o] \in {"holding", "over"}
=============================================================================
