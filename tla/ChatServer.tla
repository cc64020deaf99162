------------------------------ MODULE ChatServer ------------------------------
(***************************************************************************)
(* A chat agent behind HTTP, src/src/framework/chat-agent-http.ts: every      *)
(* request of createChatAgentHttpServer takes a turn of the agent (module     *)
(* TurnQueue) and is to be answered, unless its client goes away, which it    *)
(* may do at every await.  /chat answers at the end, /chat/stream begins its   *)
(* answer before the turn, /reset takes a turn without a signal.              *)
(***************************************************************************)
EXTENDS TurnQueue, FiniteSets

CONSTANTS
  Kinds,          \* what the requests may be: functions from Ops to chat, stream, reset, none
  MaxDisconnects  \* bound: the clients that go away

VARIABLES
  kind,       \* of a request: chat, stream, reset
  at,         \* where its handler is
  up,         \* the requests whose connection is up
  watched,    \* those whose disconnection aborts the signal (abortOnDisconnect)
  aborted,    \* those whose signal is aborted
  heads,      \* how often writeHead was called for a request
  said,       \* what it was answered: nothing, "200", "400", "error"
  well        \* those whose turn ended well (history variable)

http == <<kind, at, up, watched, aborted, heads, said, well>>

ServerInit ==
  /\ Init
  /\ kind \in Kinds /\ at = [o \in Ops |-> "new"]
  /\ up = Ops /\ watched = {} /\ aborted = {}
  /\ heads = [o \in Ops |-> 0] /\ said = [o \in Ops |-> "nothing"] /\ well = {}

Move(o, to) == at' = [at EXCEPT ![o] = to]
Queued == vars
Writes(o) == heads' = [heads EXCEPT ![o] = @ + 1]
Says(o, what) == said' = [said EXCEPT ![o] = what]

(* The handler is called; a reset waits for its turn at once.                *)
Arrive(o) ==
  /\ at[o] = "new" /\ kind[o] # "none"
  /\ IF kind[o] = "reset" THEN Acquire(o) /\ Move(o, "turn") /\ UNCHANGED watched
     ELSE UNCHANGED Queued /\ Move(o, "body") /\ watched' = watched \union {o}
  /\ UNCHANGED <<kind, up, aborted, heads, said, well>>

(* readBody: the message is there, or missing, or no JSON.                   *)
Body(o) ==
  /\ at[o] = "body" /\ o \in up
  /\ \/ Move(o, "context") /\ UNCHANGED <<watched, heads, said>>
     \/ Move(o, "over") /\ Writes(o) /\ Says(o, "400") /\ watched' = watched \ {o}
     \/ Move(o, "failed") /\ watched' = watched \ {o} /\ UNCHANGED <<heads, said>>
  /\ UNCHANGED <<Queued, kind, up, aborted, well>>

(* resolveExecutionContext has answered: a stream begins its answer, then      *)
(* chat() asks for a turn.                                                   *)
Context(o) ==
  /\ at[o] = "context"
  /\ \/ /\ Move(o, "failed") /\ watched' = watched \ {o}
        /\ UNCHANGED <<Queued, heads>>
     \/ /\ IF kind[o] = "stream" THEN Writes(o) ELSE UNCHANGED heads
        /\ IF o \in aborted THEN Refuse(o) /\ Move(o, "failed") /\ watched' = watched \ {o}
           ELSE Acquire(o) /\ Move(o, "turn") /\ UNCHANGED watched
  /\ UNCHANGED <<kind, up, aborted, said, well>>

TurnBegins(o) == at[o] = "turn" /\ Enter(o) /\ UNCHANGED http

(* The turn ends, well only if its signal was not aborted before.             *)
TurnEnds(o) ==
  /\ at[o] = "turn" /\ Finish(o)
  /\ \/ o \notin aborted /\ Move(o, "answer") /\ well' = well \union {o} /\ UNCHANGED watched
     \/ Move(o, "failed") /\ watched' = watched \ {o} /\ UNCHANGED well
  /\ UNCHANGED <<kind, up, aborted, heads, said>>

(* The place of a request that gave up its turn is passed.                    *)
Passes(o) == Pass(o) /\ UNCHANGED http

(* A watched request aborts with its connection: readBody, or the wait for a   *)
(* turn, is over at once.                                                    *)
Disconnect(o) ==
  /\ at[o] \notin {"new", "over"} /\ o \in up /\ Cardinality(Ops \ up) < MaxDisconnects
  /\ up' = up \ {o}
  /\ aborted' = IF o \in watched THEN aborted \union {o} ELSE aborted
  /\ IF o \in watched /\ (at[o] = "body" \/ state[o] = "waiting")
     THEN /\ Move(o, "failed") /\ watched' = watched \ {o}
          /\ IF at[o] = "body" THEN UNCHANGED Queued ELSE Cancel(o)
     ELSE UNCHANGED <<Queued, at, watched>>
  /\ UNCHANGED <<kind, heads, said, well>>

(* The answer, unless the client is known to be gone.                        *)
Answer(o) ==
  /\ at[o] = "answer" /\ Move(o, "over") /\ watched' = watched \ {o}
  /\ IF o \in aborted THEN UNCHANGED <<heads, said>>
     ELSE /\ Says(o, "200")
          /\ IF kind[o] = "stream" THEN UNCHANGED heads ELSE Writes(o)
  /\ UNCHANGED <<Queued, kind, up, aborted, well>>

(* Seeded fault: a failure is answered with a status although a stream has     *)
(* begun its answer.                                                         *)
FailWithStatus(o) ==
  /\ at[o] = "failed" /\ Move(o, "over")
  /\ IF o \in up THEN Says(o, "error") /\ Writes(o) ELSE UNCHANGED <<heads, said>>
  /\ UNCHANGED <<Queued, kind, up, watched, aborted, well>>

(* Seeded fault: a failure of a stream is not answered.                       *)
FailSilently(o) ==
  /\ at[o] = "failed" /\ Move(o, "over")
  /\ IF o \in up /\ heads[o] = 0 THEN Says(o, "error") /\ Writes(o) ELSE UNCHANGED <<heads, said>>
  /\ UNCHANGED <<Queued, kind, up, watched, aborted, well>>

(* The catch block: an error frame behind what a stream has begun.            *)
Fail(o) ==
  /\ at[o] = "failed" /\ Move(o, "over")
  /\ IF o \in up
     THEN Says(o, "error") /\ IF heads[o] = 0 THEN Writes(o) ELSE UNCHANGED heads
     ELSE UNCHANGED <<heads, said>>
  /\ UNCHANGED <<Queued, kind, up, watched, aborted, well>>

Goes(o) == Context(o) \/ TurnBegins(o) \/ TurnEnds(o) \/ Passes(o) \/ Answer(o) \/ Fail(o)
ServerNext == \E o \in Ops : Arrive(o) \/ Body(o) \/ Disconnect(o) \/ Goes(o)
ServerVars == <<vars, http>>

ServerSpec == ServerInit /\ [][ServerNext]_ServerVars /\ \A o \in Ops : WF_ServerVars(Goes(o))

-----------------------------------------------------------------------------
(* One status line per response, and success is reported of a turn that ended  *)
(* well.                                                                     *)
OneAnswer ==
  \A o \in Ops : heads[o] <= 1 /\ (said[o] = "200" => o \in well)

(* Every request whose message has arrived is answered, whoever else goes away  *)
(* before, behind or during its turn - unless its own client does: a server   *)
(* that owes answers (and gets no more requests for ever) comes to owe none.  *)
Owed ==
  {o \in up : at[o] \notin {"new", "body"} /\ said[o] = "nothing"}
EveryRequestAnswered == [][OneAnswer']_ServerVars /\ (Owed # {} ~> Owed = {})
=============================================================================
