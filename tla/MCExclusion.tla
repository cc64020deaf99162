---------------------------- MODULE MCExclusion ----------------------------
(***************************************************************************)
(* Model-checking instance of the two ways to wait for exclusive use: the    *)
(* lock file between processes and the queue of turns inside one - by itself  *)
(* and behind the HTTP server, whose requests wait in it.  A behaviour         *)
(* exercises one of the three, and `part` says which.                        *)
(***************************************************************************)
EXTENDS JournalLock, TLC

CONSTANTS Ops, Kinds, MaxDisconnects

VARIABLES part, state, place, tail, passed, pending, kind, at, up, watched, aborted, heads, said, well

Queue == INSTANCE TurnQueue
Http == INSTANCE ChatServer

turns == <<state, place, tail, passed, pending>>
http == <<kind, at, up, watched, aborted, heads, said, well>>

MCInit ==
  /\ part \in {"lock", "turns", "http"} /\ Init /\ Http!ServerInit
MCNext ==
  /\ UNCHANGED part
  /\ \/ part = "lock" /\ Next /\ UNCHANGED <<turns, http>>
     \/ part = "turns" /\ Queue!Next /\ UNCHANGED <<vars, http>>
     \/ part = "http" /\ Http!ServerNext /\ UNCHANGED vars

(* The fairness of each module in its own behaviours.                         *)
MCSpec ==
  /\ MCInit /\ [][MCNext]_<<part, vars, turns, http>>
  /\ \A p \in Procs : WF_vars(part = "lock" /\ Step(p)) /\ WF_vars(part = "lock" /\ Begin(p))
  /\ \A o \in Ops : WF_turns(part = "turns" /\ (Queue!Enter(o) \/ Queue!Pass(o) \/ Queue!Finish(o)))
  /\ \A o \in Ops : WF_<<turns, http>>(part = "http" /\ Http!Goes(o))

(* What the four requests of the run are.                                     *)
MixedKinds == {<<"chat", "stream", "reset", "none">>}

-----------------------------------------------------------------------------
(* One turn at a time holds the session (chat-agent.ts 344-372).             *)
OneTurn == Queue!OneTurn

(* No caller waits for ever for its turn (chat-agent.ts 362-365), and every     *)
(* request is answered, once (chat-agent-http.ts 61-175).                    *)
EveryoneServed == Queue!EveryWaiterServed /\ Http!EveryRequestAnswered
=============================================================================
