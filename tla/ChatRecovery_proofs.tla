------------------------- MODULE ChatRecovery_proofs ------------------------
(***************************************************************************)
(* The provider continues only from what the model history holds, no turn  *)
(* drops the answer of a call that may have acted, and the journal is      *)
(* never asked for an event its validator refuses, whatever append fails   *)
(* and wherever the process dies.                                          *)
(*                                                                         *)
(* ContinuationRestored is not inductive: a turn puts back its             *)
(* continuation with events of its own, and dies between any two of them.  *)
(* CInv says where the operation stands between two appends (PlaceFits):   *)
(* what it has left to append on its way to a place, and that this, or     *)
(* what catches its failure, or the recovery of the journal as it is       *)
(* (Recovers), ends with what the turn began with. After a crash in the    *)
(* midst of a rollback (torn) it says nothing. EffectsRetained is that     *)
(* account of an event (EventContinues), taken for the step that appends   *)
(* it. What the events do to the rest of the journal is in ChatTurn_proofs *)
(* (IInv, Advances).                                                       *)
(*                                                                         *)
(* JournalStaysWhole, the second half, has an invariant of its own, of the *)
(* same shape: Sound says of a journal that its tools are those that its   *)
(* history awaits answers of, in their order; MeansWell and StandsWell,    *)
(* where the operation stands with it; SoundInv, that this holds of the    *)
(* store and of the process, which may fall behind it by a failed append.  *)
(***************************************************************************)
EXTENDS ChatTurn_proofs

-----------------------------------------------------------------------------
(* The continuation of the provider, and the receipts that a turn may drop.  *)
Covered(J) == IsPrefix(J.adapter, J.hist)
Said(m) == IF m = None THEN <<>> ELSE <<m>>
Told(h) == {c \in Calls : \E i \in DOMAIN h : h[i].role = "tool" /\ h[i].call = c}

(* What a journal says of its continuation: between turns it covers nothing  *)
(* that the history does not hold; in a step, nothing but what was just said. *)
StepContinues(J) ==
  /\ ~J.turn.rolled /\ ~J.turn.mustRoll
  /\ J.step.pending # "nothing" \/ ~J.step.unprojected => J.step.asked
  /\ J.step.unprojected => IsPrefix(J.step.adapterBefore, J.hist) /\ J.tools = <<>>
  /\ J.step.unprojected /\ J.step.pending # "response" => J.adapter = J.step.adapterBefore
  /\ J.step.unprojected /\ J.step.pending = "response" =>
       IsPrefix(J.adapter, J.hist \o Said(J.step.expected))
  /\ ~J.step.unprojected => Covered(J) /\ J.step.pending = "nothing" /\ J.turn.nonUser
Settles(J) == J.turn.rolled \/ J.turn.mustRoll
Continues(J) ==
  /\ J.turn = None => Covered(J)
  /\ J.turn # None => IsPrefix(J.turn.adapterBefore, J.turn.before)
  /\ J.turn # None /\ J.step = None => Settles(J) \/ Covered(J)
  /\ J.turn # None /\ ~J.turn.nonUser => Told(J.hist) \subseteq Told(J.turn.before)
  /\ J.step # None => StepContinues(J)
  /\ J.step = None => J.tools = <<>>
  /\ J.count = 1 => J.adapter = <<>> /\ J.turn = None
  /\ J.dead => J.turn = None

(* A journal whose recovery will put back what its turn began with.          *)
Recovers(J) ==
  J.turn # None =>
    /\ J.turn.rolled => RollsBack(J)
    /\ RollsBack(J) => Told(J.hist) \subseteq Told(J.turn.before)

(* Where a turn is when it goes on, and what it goes back to when it fails.  *)
Between(J) == J.turn # None /\ J.step = None /\ ~Settles(J)
Awaits(J, pending) == J.step # None /\ J.step.unprojected /\ J.step.pending = pending
Echoed(J) == J.step # None /\ ~J.step.unprojected
Unstarted(r) == ~r.started /\ ~r.recovering /\ r.checkpoint = None
Began(r) == [hist |-> r.before, adapter |-> r.adapterBefore]
Fallback(r) == IF r.checkpoint = None THEN Began(r) ELSE r.checkpoint
Holds(r, J) ==
  /\ J.turn # None
  /\ IsPrefix(r.adapterBefore, r.before) /\ IsPrefix(Fallback(r).adapter, Fallback(r).hist)
Running(r, J) ==
  /\ r.started /\ ~r.recovering /\ Holds(r, J)
  /\ Told(J.hist) \subseteq Told(Fallback(r).hist)
Calling(r, J) == r.started /\ r.recovering /\ Holds(r, J) /\ Echoed(J)
Catching(r, J) == Running(r, J) \/ Calling(r, J) \/ (~r.started /\ ~r.recovering)

(* The events an operation is still to append.                               *)
Alone(todo) == todo = <<todo[1]>>
Outside(e) ==
  \/ e.type \in {"session/reset", "session/destroyed"}
  \/ e.type = "message/appended" /\ e.message.role = "user"
Makes(todo, type) == Alone(todo) /\ todo[1].type = type
Passes(todo) == todo = <<StepCompleted("completed")>>

PutsBack(todo, J, kept, end) ==
  \E reason \in Reasons :
    LET back == <<Replaced(kept.hist, reason), Adapter(kept.adapter)>> \o end IN
    \/ todo = back
    \/ todo = Tail(back) /\ J.turn.rolled /\ J.hist = kept.hist
Terminates(todo, J, kept) ==
  \E o \in {"failed", "interrupted"} :
    \/ \E reason \in Reasons :
         todo = <<StepCompleted(o), Replaced(kept.hist, reason), Adapter(kept.adapter), TurnEnded(o)>>
    \/ PutsBack(todo, J, kept, <<TurnEnded(o)>>)
    \/ todo = <<TurnEnded(o)>> /\ Covered(J)

Receives(e) ==
  e.type = "tool/result" \/ (e.type = "message/appended" /\ e.message.role = "tool")
Closing(J) == CloseStep(J) \o RollBackTurn(J) \o CloseTurn(J)
Mends(todo, J) ==
  /\ Recovers(J)
  /\ \/ \E receipts \in Seq({e \in Events : Receives(e)}) : todo = receipts \o Closing(J)
     \/ /\ J.turn # None /\ J.turn.rolled /\ J.hist = J.turn.before
        /\ todo = Restore(J.adapter, J.turn.adapterBefore) \o CloseTurn(J)

(* What is still to be appended on the way to a place, and what is caught    *)
(* when that fails.                                                          *)
Means(r, todo, then, J) ==
  /\ then \in {"budget", "open"} => Unstarted(r) /\ Makes(todo, "history/replaced") /\ todo[1].clear
  /\ then = "idle" => Makes(todo, "history/replaced") /\ J.count = 1
  /\ then = "ended" => Alone(todo) /\ Outside(todo[1])
  /\ then = "opened" => /\ Unstarted(r) /\ Makes(todo, "turn/started")
                        /\ r.before = J.hist /\ r.adapterBefore = J.adapter
  /\ then = "round" => /\ Running(r, J)
                       /\ \/ Alone(todo) /\ Outside(todo[1]) /\ Between(J)
                          \/ Passes(todo) /\ Echoed(J)
  /\ then = "request" => Running(r, J) /\ Makes(todo, "step/started") /\ Between(J)
  /\ then = "model" => Running(r, J) /\ Makes(todo, "model/request-prepared")
  /\ then = "response" =>
       /\ Running(r, J)
       /\ \/ Awaits(J, "request") /\ Makes(todo, "model/response-received")
          \/ /\ Awaits(J, "request") /\ todo = <<Response(todo[1].message), Adapter(todo[2].state)>>
             /\ IsPrefix(todo[2].state, J.hist \o Said(todo[1].message))
          \/ /\ Awaits(J, "response") /\ Makes(todo, "adapter/state")
             /\ IsPrefix(todo[1].state, J.hist \o Said(J.step.expected))
  /\ then \in {"dispatch", "spoken"} =>
       Running(r, J) /\ Makes(todo, "message/appended") /\ todo[1].message.role = "assistant"
  /\ then = "after" =>
       /\ Running(r, J)
       /\ \/ Passes(todo)
          \/ Awaits(J, "response") /\ todo = <<Adapter(J.step.adapterBefore), StepCompleted("completed")>>
  /\ then = "answer" => Calling(r, J) /\ \A i \in DOMAIN todo : Receives(todo[i])
  /\ then = "complete" => Running(r, J) /\ PutsBack(todo, J, Fallback(r), <<>>)
  /\ then = "committed" => Running(r, J) /\ Makes(todo, "turn/ended") /\ Covered(J)
  /\ then = "terminated" => Running(r, J) /\ Terminates(todo, J, Fallback(r))
  /\ then \in {"mended", "import"} => Mends(todo, J)

Targets ==
  {"budget", "open", "idle", "ended", "opened", "round", "request", "model", "response", "dispatch",
   "spoken", "after", "answer", "complete", "committed", "terminated", "mended", "import"}
Catches(r, then, onFail, J) ==
  /\ then \in Targets
  /\ onFail = "catch" => Catching(r, J)
  /\ onFail = "finally" => Running(r, J)
  /\ onFail = "unopened" => then \in {"idle", "import"}
  /\ then \in {"mended", "import"} => onFail \notin {"catch", "finally"}

(* Where the operation stands.                                               *)
Stands(r, at, J) ==
  /\ at \in {"switch", "budget", "open"} => Unstarted(r)
  /\ at \in {"round", "after"} => Running(r, J) /\ Between(J)
  /\ at = "opened" => /\ Unstarted(r) /\ Holds(r, J) /\ Between(J)
                      /\ Told(J.hist) \subseteq Told(r.before)
  /\ at = "request" => Running(r, J)
  /\ at = "model" => Running(r, J) /\ Awaits(J, "request")
  /\ at = "response" => Running(r, J) /\ Awaits(J, "response")
  /\ at \in {"spoken", "dispatch", "answered"} => Running(r, J) /\ Echoed(J)
  /\ at \in {"batch", "answer"} => Calling(r, J)
  /\ at = "complete" => Running(r, J) /\ Covered(J)
  /\ at = "catch" => Catching(r, J)
  /\ at \in {"close", "finally"} => Running(r, J)
  /\ at = "import" => J.turn = None

PlaceFits(r, J) ==
  IF r.at = "script" THEN Means(r, r.todo, r.then, J) /\ Catches(r, r.then, r.onFail, J)
  ELSE Stands(r, r.at, J)

Opening(r) ==
  r.at \in {"down", "unopened", "diverged", "import"} \/ (r.at = "script" /\ r.onFail = "unopened")

Restoring ==
  /\ Continues(disk)
  /\ kernel = disk => PlaceFits(run, disk)
  /\ Opening(run) => Recovers(disk)
CInv == torn \/ Restoring

-----------------------------------------------------------------------------
(* What an event makes of a journal's continuation, turn and step.           *)
Breaks(e) == e.outcome # "completed" /\ (e.recovered => e.rollbackTurn)
AdapterAfter(J, e) ==
  CASE e.type = "adapter/state" -> e.state
    [] e.type = "history/replaced" -> IF e.clear THEN <<>> ELSE J.adapter
    [] e.type = "session/reset" -> <<>>
    [] OTHER -> J.adapter
TurnAfter(J, e, turn) ==
  CASE e.type = "turn/started" -> turn = OpenTurn(J)
    [] e.type = "turn/ended" -> turn = None
    [] e.type = "step/started" ->
         turn = [J.turn EXCEPT !.stepped = TRUE, !.mayRoll = FALSE, !.rolled = FALSE]
    [] e.type = "step/completed" ->
         \E b \in BOOLEAN : turn = [J.turn EXCEPT !.mayRoll = b, !.mustRoll = @ \/ Breaks(e)]
    [] e.type = "message/appended" ->
         turn = IF e.message.role = "user" THEN J.turn ELSE [J.turn EXCEPT !.nonUser = TRUE]
    [] e.type = "history/replaced" ->
         turn = IF J.turn = None THEN None
                ELSE [J.turn EXCEPT !.nonUser = RetainsWork(e.history, J.turn.before),
                                    !.mayRoll = FALSE, !.rolled = TRUE]
    [] OTHER -> turn = J.turn
StepAfter(J, e) ==
  CASE e.type = "step/started" -> OpenStep(J)
    [] e.type = "step/completed" -> None
    [] e.type = "model/request-prepared" ->
         [J.step EXCEPT !.pending = "request", !.asked = TRUE,
                        !.adapterBefore = J.adapter, !.unprojected = TRUE]
    [] e.type = "model/response-received" ->
         [J.step EXCEPT !.pending = "response", !.expected = e.message]
    [] e.type = "message/appended" ->
         IF e.message.role # "assistant" THEN J.step
         ELSE [J.step EXCEPT !.pending = "nothing", !.expected = None, !.unprojected = FALSE]
    [] OTHER -> J.step
DeadAfter(J, e) == IF e.type = "session/destroyed" THEN TRUE ELSE J.dead
Folded(K, J, e) ==
  /\ K.adapter = AdapterAfter(J, e) /\ TurnAfter(J, e, K.turn)
  /\ K.step = StepAfter(J, e) /\ K.dead = DeadAfter(J, e)

\* A message leaves the continuation alone.
LEMMA FoldMessage ==
  ASSUME NEW J \in Journals, NEW e \in Events, Accepts(J, e), e.type = "message/appended"
  PROVE  Folded(Effect(J, e), J, e)
<1>1. e.message \in Messages /\ e.message.role \in {"user", "assistant", "tool"}
  BY EventFields, MessageFields
<1>2. AdapterAfter(J, e) = J.adapter /\ DeadAfter(J, e) = J.dead
  BY DEF AdapterAfter, DeadAfter
<1> DEFINE m == e.message
           A == AfterMessage(J, m)
           x == IF e.external THEN A.external \union {m.text} ELSE A.external
<1>3. Effect(J, e) = [A EXCEPT !.external = x]
  BY DEF Effect
<1> HIDE DEF x
<1>4. CASE m.role = "user"
  <2>1. A = [J EXCEPT !.hist = Append(@, m)]
    BY <1>4 DEF AfterMessage
  <2>2. Effect(J, e) = [[J EXCEPT !.hist = Append(@, m)] EXCEPT !.external = x]
    BY <1>3, <2>1
  <2>3. /\ Effect(J, e).adapter = J.adapter /\ Effect(J, e).turn = J.turn
        /\ Effect(J, e).step = J.step /\ Effect(J, e).dead = J.dead
    BY <2>2 DEF Journals
  <2>4. StepAfter(J, e) = J.step /\ TurnAfter(J, e, J.turn)
    BY <1>4 DEF StepAfter, TurnAfter
  <2>5. QED  BY <1>2, <2>3, <2>4 DEF Folded
<1>5. CASE m.role = "tool"
  <2>1. A = [[J EXCEPT !.hist = Append(@, m)] EXCEPT
              !.turn.nonUser = TRUE, !.tools = RemoveAt(@, Place(J, m.call))]
    BY <1>5 DEF AfterMessage
  <2>2. /\ A.adapter = J.adapter /\ A.turn = [J.turn EXCEPT !.nonUser = TRUE]
        /\ A.step = J.step /\ A.dead = J.dead /\ A = [A EXCEPT !.tools = @]
    BY Zenon, <2>1 DEF Journals
  <2>3. /\ Effect(J, e).adapter = A.adapter /\ Effect(J, e).turn = A.turn
        /\ Effect(J, e).step = A.step /\ Effect(J, e).dead = A.dead
    BY <1>3, <2>1 DEF Journals
  <2>4. StepAfter(J, e) = J.step /\ TurnAfter(J, e, A.turn)
    BY <1>5, <2>2 DEF StepAfter, TurnAfter
  <2>5. QED  BY <1>2, <2>2, <2>3, <2>4 DEF Folded
<1>6. CASE m.role = "assistant"
  <2>1. A = [[J EXCEPT !.hist = Append(@, m)] EXCEPT
              !.turn.nonUser = TRUE, !.step.pending = "nothing", !.step.expected = None,
              !.step.unprojected = FALSE, !.tools = Opens(m)]
    BY <1>6 DEF AfterMessage, Opens
  <2>2. /\ A.adapter = J.adapter /\ A.turn = [J.turn EXCEPT !.nonUser = TRUE] /\ A.dead = J.dead
        /\ A.step = [J.step EXCEPT !.pending = "nothing", !.expected = None, !.unprojected = FALSE]
    BY <2>1 DEF Journals
  <2>3. /\ Effect(J, e).adapter = A.adapter /\ Effect(J, e).turn = A.turn
        /\ Effect(J, e).step = A.step /\ Effect(J, e).dead = A.dead
    BY <1>3, <2>1 DEF Journals
  <2>4. StepAfter(J, e) = A.step /\ TurnAfter(J, e, A.turn)
    BY <1>6, <2>2 DEF StepAfter, TurnAfter
  <2>5. QED  BY <1>2, <2>2, <2>3, <2>4 DEF Folded
<1>7. QED  BY <1>1, <1>4, <1>5, <1>6

\* Turns and steps begin and end.
LEMMA FoldTurn ==
  ASSUME NEW J \in Journals, NEW e \in Events, Accepts(J, e),
         e.type \in {"turn/started", "turn/ended", "step/started", "step/completed"}
  PROVE  Folded(Effect(J, e), J, e)
<1>1. AdapterAfter(J, e) = J.adapter /\ DeadAfter(J, e) = J.dead
  BY Zenon DEF AdapterAfter, DeadAfter
<1>2. CASE e.type = "turn/started"
  <2>1. Effect(J, e) = [J EXCEPT !.turn = OpenTurn(J)]
    BY <1>2 DEF Effect
  <2>2. TurnAfter(J, e, OpenTurn(J)) /\ StepAfter(J, e) = J.step
    BY <1>2 DEF TurnAfter, StepAfter
  <2>3. QED  BY <1>1, <2>1, <2>2 DEF Folded, Journals
<1>3. CASE e.type = "turn/ended"
  <2>1. Effect(J, e) = [J EXCEPT !.turn = None]
    BY <1>3 DEF Effect
  <2>2. TurnAfter(J, e, None) /\ StepAfter(J, e) = J.step
    BY <1>3 DEF TurnAfter, StepAfter
  <2>3. QED  BY <1>1, <2>1, <2>2 DEF Folded, Journals
<1>4. CASE e.type = "step/started"
  <2> DEFINE t == [J.turn EXCEPT !.stepped = TRUE, !.mayRoll = FALSE, !.rolled = FALSE]
  <2>1. Effect(J, e) = [J EXCEPT !.step = OpenStep(J), !.turn = t]
    <3>1. Effect(J, e) = [J EXCEPT !.step = OpenStep(J),
                   !.turn.stepped = TRUE, !.turn.mayRoll = FALSE, !.turn.rolled = FALSE]
      BY <1>4 DEF Effect
    <3>2. QED  BY Zenon, <3>1 DEF Journals
  <2>2. TurnAfter(J, e, t) /\ StepAfter(J, e) = OpenStep(J)
    BY <1>4 DEF TurnAfter, StepAfter
  <2> HIDE DEF t
  <2>3. QED  BY <1>1, <2>1, <2>2 DEF Folded, Journals
<1>5. CASE e.type = "step/completed"
  <2> DEFINE b == (e.outcome = "completed" /\ J.step.pending = "response" /\ J.step.expected = None) \/ Breaks(e)
             t == [J.turn EXCEPT !.mayRoll = b, !.mustRoll = @ \/ Breaks(e)]
  <2>1. Effect(J, e) = [J EXCEPT !.step = None, !.turn = t]
    <3>1. Effect(J, e) = [J EXCEPT !.step = None, !.turn.mayRoll = b, !.turn.mustRoll = @ \/ Breaks(e)]
      BY <1>5 DEF Effect, AfterStep, Breaks
    <3> HIDE DEF b
    <3>2. QED  BY Zenon, <3>1 DEF Journals
  <2>2. TurnAfter(J, e, t) /\ StepAfter(J, e) = None
    <3>1. b \in BOOLEAN
      BY DEF Breaks
    <3> HIDE DEF b
    <3>2. QED  BY Zenon, <1>5, <3>1 DEF TurnAfter, StepAfter
  <2> HIDE DEF t
  <2>3. QED  BY <1>1, <2>1, <2>2 DEF Folded, Journals
<1>6. QED  BY <1>2, <1>3, <1>4, <1>5

\* Calls move on; the model is asked and answers; the continuation is set.
LEMMA FoldOther ==
  ASSUME NEW J \in Journals, NEW e \in Events, Accepts(J, e),
         e.type \in {"tool/call", "tool/execution-started", "tool/result",
                     "model/request-prepared", "model/response-received", "adapter/state"}
  PROVE  Folded(Effect(J, e), J, e)
<1>1. TurnAfter(J, e, J.turn) /\ DeadAfter(J, e) = J.dead
  BY Zenon DEF TurnAfter, DeadAfter
<1>2. CASE e.type \in {"tool/call", "tool/execution-started", "tool/result"}
  <2>1. AdapterAfter(J, e) = J.adapter /\ StepAfter(J, e) = J.step
    BY <1>2 DEF AdapterAfter, StepAfter
  <2>2. PICK c, at, w : Effect(J, e) = SetTool(J, c, at, w)
    BY <1>2 DEF Effect
  <2>3. PICK T : Effect(J, e) = [J EXCEPT !.tools = T]
    BY Zenon, <2>2 DEF SetTool
  <2>4. QED  BY <1>1, <2>1, <2>3 DEF Folded, Journals
<1>3. CASE e.type = "model/request-prepared"
  <2> DEFINE s == [J.step EXCEPT !.pending = "request", !.asked = TRUE,
                        !.adapterBefore = J.adapter, !.unprojected = TRUE]
  <2>1. Effect(J, e) = [J EXCEPT !.step = s]
    <3>1. Effect(J, e) = [J EXCEPT !.step.pending = "request", !.step.asked = TRUE,
                   !.step.adapterBefore = J.adapter, !.step.unprojected = TRUE]
      BY <1>3 DEF Effect
    <3>2. QED  BY Zenon, <3>1 DEF Journals
  <2>2. AdapterAfter(J, e) = J.adapter /\ StepAfter(J, e) = s
    BY <1>3 DEF AdapterAfter, StepAfter
  <2> HIDE DEF s
  <2>3. QED  BY <1>1, <2>1, <2>2 DEF Folded, Journals
<1>4. CASE e.type = "model/response-received"
  <2> DEFINE s == [J.step EXCEPT !.pending = "response", !.expected = e.message]
  <2>1. Effect(J, e) = [J EXCEPT !.step = s]
    <3>1. Effect(J, e) = [J EXCEPT !.step.pending = "response", !.step.expected = e.message]
      BY <1>4 DEF Effect
    <3>2. QED  BY Zenon, <3>1 DEF Journals
  <2>2. AdapterAfter(J, e) = J.adapter /\ StepAfter(J, e) = s
    BY <1>4 DEF AdapterAfter, StepAfter
  <2> HIDE DEF s
  <2>3. QED  BY <1>1, <2>1, <2>2 DEF Folded, Journals
<1>5. CASE e.type = "adapter/state"
  <2>1. Effect(J, e) = [J EXCEPT !.adapter = e.state]
    BY <1>5 DEF Effect
  <2>2. AdapterAfter(J, e) = e.state /\ StepAfter(J, e) = J.step
    BY <1>5 DEF AdapterAfter, StepAfter
  <2>3. QED  BY <1>1, <2>1, <2>2 DEF Folded, Journals
<1>6. QED  BY <1>2, <1>3, <1>4, <1>5

\* A history is replaced, a session reset or destroyed.
LEMMA FoldReplacement ==
  ASSUME NEW J \in Journals, NEW e \in Events, Accepts(J, e),
         e.type \in {"history/replaced", "session/reset", "session/destroyed"}
  PROVE  Folded(Effect(J, e), J, e)
<1>1. StepAfter(J, e) = J.step
  BY DEF StepAfter
<1>2. CASE e.type = "history/replaced"
  <2> DEFINE K == [J EXCEPT !.hist = e.history,
                            !.adapter = IF e.clear THEN <<>> ELSE @,
                            !.thread = IF e.thread = None THEN @ ELSE e.thread]
             t == [J.turn EXCEPT !.nonUser = RetainsWork(e.history, J.turn.before),
                                 !.mayRoll = FALSE, !.rolled = TRUE]
  <2>1. /\ K.adapter = (IF e.clear THEN <<>> ELSE J.adapter) /\ K.turn = J.turn
        /\ K.step = J.step /\ K.dead = J.dead
    BY DEF Journals
  <2>2. AdapterAfter(J, e) = (IF e.clear THEN <<>> ELSE J.adapter) /\ DeadAfter(J, e) = J.dead
    BY <1>2 DEF AdapterAfter, DeadAfter
  <2>3. CASE J.turn = None
    <3>1. Effect(J, e) = K
      BY <1>2, <2>3 DEF Effect, AfterReplacement
    <3>2. TurnAfter(J, e, None)
      BY <1>2, <2>3 DEF TurnAfter
    <3> HIDE DEF K
    <3>3. QED  BY <1>1, <2>1, <2>2, <2>3, <3>1, <3>2 DEF Folded
  <2>4. CASE J.turn # None
    <3>1. Effect(J, e) = [K EXCEPT !.turn = t]
      <4>1. Effect(J, e) = [K EXCEPT !.turn.nonUser = RetainsWork(e.history, J.turn.before),
                              !.turn.mayRoll = FALSE, !.turn.rolled = TRUE]
        BY <1>2, <2>4 DEF Effect, AfterReplacement
      <4>2. QED  BY Zenon, <4>1 DEF Journals
    <3>2. TurnAfter(J, e, t)
      BY <1>2, <2>4 DEF TurnAfter
    <3> HIDE DEF t
    <3>3. /\ Effect(J, e).turn = t /\ Effect(J, e).adapter = K.adapter
          /\ Effect(J, e).step = K.step /\ Effect(J, e).dead = K.dead
      BY <3>1 DEF Journals
    <3> HIDE DEF K
    <3>4. QED  BY <1>1, <2>1, <2>2, <3>2, <3>3 DEF Folded
  <2>5. QED  BY <2>3, <2>4
<1>3. CASE e.type = "session/reset"
  <2>1. Effect(J, e) = [J EXCEPT !.hist = <<>>, !.adapter = <<>>, !.thread = e.thread]
    BY <1>3 DEF Effect
  <2>2. AdapterAfter(J, e) = <<>> /\ TurnAfter(J, e, J.turn) /\ DeadAfter(J, e) = J.dead
    BY <1>3 DEF AdapterAfter, TurnAfter, DeadAfter
  <2>3. QED  BY <1>1, <2>1, <2>2 DEF Folded, Journals
<1>4. CASE e.type = "session/destroyed"
  <2>1. Effect(J, e) = [J EXCEPT !.dead = TRUE]
    BY <1>4 DEF Effect
  <2>2. AdapterAfter(J, e) = J.adapter /\ TurnAfter(J, e, J.turn) /\ DeadAfter(J, e) = TRUE
    BY <1>4 DEF AdapterAfter, TurnAfter, DeadAfter
  <2>3. QED  BY <1>1, <2>1, <2>2 DEF Folded, Journals
<1>5. QED  BY <1>2, <1>3, <1>4

\* What the fold makes of a journal, all of it.
LEMMA Folds ==
  ASSUME NEW J \in Journals, NEW e \in Events, Accepts(J, e), NEW K, K = Advance(J, e)
  PROVE  /\ K \in Journals /\ K.hist = HistAfter(J, e) /\ K.tools = ToolsAfter(J, e)
         /\ Folded(K, J, e) /\ K.count = 2
<1>1. After(K, J, e)
  BY Advances
<1>2. Folded(Effect(J, e), J, e)
  BY EventFields, FoldMessage, FoldTurn, FoldOther, FoldReplacement
<1> DEFINE E == Effect(J, e)
<1>3. After(E, J, e)
  BY EventFields, AdvanceMessage, AdvanceTool, AdvanceReplacement, AdvanceTurn, AdvanceOther
<1>4. E \in Journals /\ K = [E EXCEPT !.count = 2]
  BY <1>3 DEF After, Advance
<1> HIDE DEF E
<1>5. K.adapter = E.adapter /\ K.turn = E.turn /\ K.step = E.step /\ K.dead = E.dead /\ K.count = 2
  BY <1>4 DEF Journals
<1>6. Folded(E, J, e)
  BY <1>2 DEF E
<1>7. QED  BY <1>1, <1>5, <1>6 DEF After, Folded

-----------------------------------------------------------------------------
(* PrefixIs, and the receipts of a history.                                  *)
\* A prefix, one message at a time.
LEMMA PrefixIs ==
  ASSUME NEW S, NEW s \in Seq(S), NEW t \in Seq(S)
  PROVE  IsPrefix(s, t) <=> Len(s) <= Len(t) /\ \A i \in 1..Len(s) : s[i] = t[i]
<1>1. Len(s) \in Nat /\ Len(t) \in Nat /\ DOMAIN s = 1..Len(s) /\ DOMAIN t = 1..Len(t)
  OBVIOUS
<1>2. SubSeq(s, 1, Len(s)) = s
  BY <1>1, SubSeqFull
<1>3. ASSUME Len(s) <= Len(t)
      PROVE  /\ SubSeq(t, 1, Len(s)) \in Seq(S) /\ Len(SubSeq(t, 1, Len(s))) = Len(s)
             /\ \A i \in 1..Len(s) : SubSeq(t, 1, Len(s))[i] = t[i]
  BY <1>1, <1>3
<1>4. ASSUME IsPrefix(s, t)
      PROVE  Len(s) <= Len(t) /\ \A i \in 1..Len(s) : s[i] = t[i]
  BY <1>2, <1>3, <1>4 DEF IsPrefix
<1>5. ASSUME Len(s) <= Len(t), \A i \in 1..Len(s) : s[i] = t[i]
      PROVE  IsPrefix(s, t)
  <2>1. SubSeq(t, 1, Len(s)) = s
    BY <1>1, <1>3, <1>5, SeqEqual
  <2>2. QED  BY <1>2, <1>5, <2>1 DEF IsPrefix
<1>6. QED  BY <1>4, <1>5

\* What has a prefix keeps it when it grows.
LEMMA PrefixGrows ==
  ASSUME NEW S, NEW s \in Seq(S), NEW t \in Seq(S), NEW m \in S
  PROVE  /\ IsPrefix(s, s) /\ IsPrefix(<<>>, s)
         /\ IsPrefix(s, t) => IsPrefix(s, Append(t, m)) /\ IsPrefix(s, t \o <<m>>)
         /\ t \o <<m>> = Append(t, m) /\ t \o <<>> = t
<1>1. <<>> \in Seq(S) /\ Append(t, m) \in Seq(S) /\ t \o <<m>> = Append(t, m) /\ t \o <<>> = t
  BY AppendProperties, AppendIsConcat, ConcatEmptySeq
<1>2. IsPrefix(s, s) /\ IsPrefix(<<>>, s)
  <2>1. ASSUME NEW z \in Seq(S), Len(z) = 0 PROVE IsPrefix(z, s)
    <3>1. Len(z) <= Len(s) /\ \A i \in 1..Len(z) : z[i] = s[i]
      BY <2>1
    <3>2. QED  BY <3>1, PrefixIs
  <2>2. IsPrefix(s, s)
    BY PrefixIs
  <2>3. Len(<<>>) = 0
    OBVIOUS
  <2>4. QED  BY Zenon, <1>1, <2>1, <2>2, <2>3
<1>3. ASSUME IsPrefix(s, t) PROVE IsPrefix(s, Append(t, m))
  <2>1. Len(s) <= Len(t) /\ \A i \in 1..Len(s) : s[i] = t[i]
    BY <1>3, PrefixIs
  <2>2. Len(Append(t, m)) = Len(t) + 1 /\ \A i \in 1..Len(t) : Append(t, m)[i] = t[i]
    BY AppendProperties
  <2>3. Len(s) <= Len(Append(t, m)) /\ \A i \in 1..Len(s) : s[i] = Append(t, m)[i]
    BY <2>1, <2>2
  <2>4. QED  BY Zenon, <1>1, <2>3, PrefixIs
<1>4. QED  BY Zenon, <1>1, <1>2, <1>3

\* The receipts of a history that grows by a message.
LEMMA ToldAppend ==
  ASSUME NEW h \in Histories, NEW m \in Messages
  PROVE  /\ m.role # "tool" => Told(Append(h, m)) = Told(h)
         /\ Told(h) \subseteq Told(Append(h, m))
<1>1. /\ Len(Append(h, m)) = Len(h) + 1 /\ DOMAIN Append(h, m) = 1..(Len(h) + 1)
      /\ \A i \in DOMAIN h : Append(h, m)[i] = h[i]
      /\ Append(h, m)[Len(h) + 1] = m /\ DOMAIN h = 1..Len(h) /\ Len(h) \in Nat
  BY AppendProperties DEF Histories
<1>2. ASSUME NEW c \in Told(h) PROVE c \in Told(Append(h, m))
  BY <1>1, <1>2 DEF Told
<1>3. ASSUME m.role # "tool", NEW c \in Told(Append(h, m)) PROVE c \in Told(h)
  <2>1. PICK i \in DOMAIN Append(h, m) : Append(h, m)[i].role = "tool" /\ Append(h, m)[i].call = c
    BY <1>3 DEF Told
  <2>2. i \in DOMAIN h
    BY <1>1, <1>3, <2>1
  <2>3. QED  BY <1>1, <1>3, <2>1, <2>2 DEF Told
<1>4. QED  BY Zenon, <1>2, <1>3

\* A history that retains no work of a turn has only the receipts from before it.
LEMMA ToldWithoutWork ==
  ASSUME NEW h \in Histories, NEW before \in Histories, ~RetainsWork(h, before)
  PROVE  Told(h) \subseteq Told(before)
<1>0. /\ Len(h) \in Nat /\ Len(before) \in Nat /\ DOMAIN h = 1..Len(h) /\ DOMAIN before = 1..Len(before)
      /\ h \in Seq(Messages) /\ before \in Seq(Messages)
  BY DEF Histories
<1> SUFFICES ASSUME NEW c \in Told(h) PROVE c \in Told(before)
  OBVIOUS
<1>1. PICK i \in DOMAIN h : h[i].role = "tool" /\ h[i].call = c
  BY DEF Told
<1>2. c \in Calls
  BY DEF Told
<1>3. CASE ~IsPrefix(before, h)
  BY <1>1, <1>3 DEF RetainsWork, NonUser
<1>4. CASE IsPrefix(before, h)
  <2>1. Len(before) <= Len(h) /\ \A k \in 1..Len(before) : before[k] = h[k]
    BY <1>0, <1>4, PrefixIs
  <2>2. CASE i <= Len(before)
    <3>1. i \in DOMAIN before /\ before[i] = h[i]
      BY <1>0, <2>1, <2>2
    <3>2. QED  BY <1>1, <1>2, <3>1 DEF Told
  <2>3. CASE i > Len(before)
    <3> DEFINE s == SubSeq(h, Len(before) + 1, Len(h))
    <3>1. ~NonUser(s)
      BY <1>4 DEF RetainsWork
    <3>2. Len(s) = Len(h) - Len(before) /\ DOMAIN s = 1..(Len(h) - Len(before))
          /\ \A k \in 1..(Len(h) - Len(before)) : s[k] = h[Len(before) + k]
      <4> DEFINE a == Len(before) + 1
                 b == Len(h)
      <4>1. a \in Nat /\ b \in Nat /\ a <= b /\ b - a + 1 = Len(h) - Len(before) /\ a >= 1
        BY <1>0, <2>1, <2>3
      <4>2. \A k \in 1..(b - a + 1) : a + k - 1 = Len(before) + k
        BY <1>0, <4>1
      <4> HIDE DEF a, b
      <4>3. /\ Len(SubSeq(h, a, b)) = b - a + 1 /\ DOMAIN SubSeq(h, a, b) = 1..(b - a + 1)
            /\ \A k \in 1..(b - a + 1) : SubSeq(h, a, b)[k] = h[a + k - 1]
        BY <4>1, <1>0
      <4>4. s = SubSeq(h, a, b)
        BY DEF a, b
      <4> HIDE DEF s
      <4>5. QED  BY Zenon, <4>1, <4>2, <4>3, <4>4
    <3>3. i - Len(before) \in DOMAIN s /\ s[i - Len(before)] = h[i]
      <4>1. i - Len(before) \in 1..(Len(h) - Len(before)) /\ Len(before) + (i - Len(before)) = i
        BY <1>0, <2>3
      <4>2. QED  BY <3>2, <4>1
    <3> HIDE DEF s
    <3>4. QED  BY <1>1, <3>1, <3>3 DEF NonUser
  <2>4. QED  BY <1>0, <2>2, <2>3
<1>5. QED  BY <1>3, <1>4

-----------------------------------------------------------------------------
(* An event that leaves the continuation covered, and the receipts told.     *)
EventContinues(J, e) ==
  /\ e.type = "adapter/state" =>
       \/ J.step = None /\ (Settles(J) \/ IsPrefix(e.state, J.hist))
       \/ J.step # None /\ J.step.unprojected /\ e.state = J.step.adapterBefore
       \/ Awaits(J, "response") /\ IsPrefix(e.state, J.hist \o Said(J.step.expected))
  /\ e.type = "history/replaced" =>
       IF J.turn = None THEN e.clear \/ J.adapter = <<>>
       ELSE Told(J.hist) \subseteq Told(e.history)
  /\ e.type = "step/started" => ~Settles(J)
  /\ e.type = "turn/ended" => Covered(J)
  /\ e.type = "step/completed" /\ e.outcome # "completed" /\ ~Breaks(e) => Covered(J)

\* The histories of a journal, its turn and its step, which are no None.
LEMMA JournalHistories ==
  ASSUME NEW J \in Journals
  PROVE  /\ J.hist \in Histories /\ J.adapter \in Histories
         /\ J.turn # None <=> J.turn \in Turns
         /\ J.turn # None => J.turn.before \in Histories /\ J.turn.adapterBefore \in Histories
         /\ J.step # None <=> J.step \in Steps
         /\ J.step # None => /\ J.turn # None /\ J.step.adapterBefore \in Histories
                             /\ J.step.expected \in Messages \cup {None}
BY NoneAssumption DEF Journals, Turns, Steps

\* What an event leaves of a turn that it neither begins nor ends.
TurnGoesOn(J, e, K) ==
  /\ K.turn # None /\ K.turn.before = J.turn.before /\ K.turn.adapterBefore = J.turn.adapterBefore
  /\ K.turn.mustRoll <=> J.turn.mustRoll \/ (e.type = "step/completed" /\ Breaks(e))
  /\ K.turn.rolled <=> e.type = "history/replaced" \/ (e.type # "step/started" /\ J.turn.rolled)
  /\ IF e.type = "history/replaced" THEN K.turn.nonUser <=> RetainsWork(e.history, J.turn.before)
     ELSE K.turn.nonUser <=>
            J.turn.nonUser \/ (e.type = "message/appended" /\ e.message.role # "user")

\* An event neither begins nor ends a turn.
LEMMA TurnKeepsOn ==
  ASSUME NEW J \in Journals, NEW e \in Events, Accepts(J, e), NEW K, K = Advance(J, e),
         e.type \notin {"turn/started", "turn/ended"}
  PROVE  IF J.turn = None THEN K.turn = None ELSE TurnGoesOn(J, e, K)
<1>1. K \in Journals /\ TurnAfter(J, e, K.turn)
  BY Folds DEF Folded
<1>2. CASE J.turn = None
  <2>1. J.step = None
    BY <1>2, JournalHistories
  <2>2. e.type \notin {"step/started", "step/completed"}
        /\ (e.type = "message/appended" => e.message.role = "user")
    BY <1>2, <2>1 DEF Accepts, Lives, Starts, Ends, NeedsStep
  <2>3. K.turn = None
    BY Zenon, <1>1, <1>2, <2>2 DEF TurnAfter
  <2>4. QED  BY <1>2, <2>3
<1>3. CASE J.turn # None
  <2>1. J.turn \in Turns
    BY <1>3, JournalHistories
  <2>2. /\ \A b, x \in BOOLEAN : [J.turn EXCEPT !.mayRoll = b, !.mustRoll = x] \in Turns
        /\ [J.turn EXCEPT !.stepped = TRUE, !.mayRoll = FALSE, !.rolled = FALSE] \in Turns
        /\ [J.turn EXCEPT !.nonUser = TRUE] \in Turns
        /\ \A b \in BOOLEAN : [J.turn EXCEPT !.nonUser = b, !.mayRoll = FALSE, !.rolled = TRUE] \in Turns
    BY Zenon, <2>1 DEF Turns
  <2>a. \A t \in Turns : t # None
    BY NoneAssumption
  <2>3. CASE e.type = "step/started"
    <3>1. K.turn = [J.turn EXCEPT !.stepped = TRUE, !.mayRoll = FALSE, !.rolled = FALSE]
      BY <1>1, <2>3 DEF TurnAfter
    <3>2. K.turn # None
      BY Zenon, <2>2, <2>a, <3>1
    <3>3. QED  BY <1>3, <2>1, <2>3, <3>1, <3>2 DEF TurnGoesOn, Turns
  <2>4. CASE e.type = "step/completed"
    <3>1. PICK b \in BOOLEAN : K.turn = [J.turn EXCEPT !.mayRoll = b, !.mustRoll = @ \/ Breaks(e)]
      BY Zenon, <1>1, <2>4 DEF TurnAfter
    <3> DEFINE x == J.turn.mustRoll \/ Breaks(e)
    <3>2. x \in BOOLEAN /\ K.turn = [J.turn EXCEPT !.mayRoll = b, !.mustRoll = x]
      BY <3>1 DEF Breaks
    <3>3. K.turn # None
      <4> HIDE DEF x
      <4> QED  BY Zenon, <2>2, <2>a, <3>2
    <3>4. K.turn.mustRoll = x /\ K.turn.before = J.turn.before /\ K.turn.rolled = J.turn.rolled
          /\ K.turn.adapterBefore = J.turn.adapterBefore /\ K.turn.nonUser = J.turn.nonUser
      <4> HIDE DEF x
      <4> QED  BY <2>1, <3>2 DEF Turns
    <3>5. QED  BY Zenon, <1>3, <2>1, <2>4, <3>3, <3>4 DEF TurnGoesOn, Turns
  <2>5. CASE e.type = "message/appended"
    <3>1. K.turn = IF e.message.role = "user" THEN J.turn ELSE [J.turn EXCEPT !.nonUser = TRUE]
      BY <1>1, <2>5 DEF TurnAfter
    <3>2. K.turn # None
      BY Zenon, <1>3, <2>2, <2>a, <3>1
    <3>3. QED  BY <1>3, <2>1, <2>5, <3>1, <3>2 DEF TurnGoesOn, Turns
  <2>6. CASE e.type = "history/replaced"
    <3> DEFINE x == RetainsWork(e.history, J.turn.before)
    <3>1. K.turn = [J.turn EXCEPT !.nonUser = x, !.mayRoll = FALSE, !.rolled = TRUE]
      BY <1>1, <1>3, <2>6 DEF TurnAfter
    <3>2. x \in BOOLEAN
      BY DEF RetainsWork, NonUser
    <3> HIDE DEF x
    <3>3. K.turn # None
      BY Zenon, <2>2, <2>a, <3>1, <3>2
    <3>4. K.turn.mustRoll = J.turn.mustRoll /\ K.turn.before = J.turn.before /\ K.turn.rolled
          /\ K.turn.adapterBefore = J.turn.adapterBefore /\ K.turn.nonUser = x
      BY <2>1, <3>1, <3>2 DEF Turns
    <3>5. QED  BY <1>3, <2>1, <2>6, <3>3, <3>4 DEF TurnGoesOn, Turns, x
  <2>7. CASE e.type \notin {"step/started", "step/completed", "message/appended", "history/replaced"}
    <3>1. K.turn = J.turn
      BY Zenon, <1>1, <2>7 DEF TurnAfter
    <3>2. QED  BY <1>3, <2>1, <2>7, <3>1 DEF TurnGoesOn, Turns
  <2>8. QED  BY <2>3, <2>4, <2>5, <2>6, <2>7
<1>4. QED  BY <1>2, <1>3

\* A message that is accepted leaves the continuation covered.
LEMMA ContinuesMessage ==
  ASSUME NEW J \in Journals, NEW e \in Events, Accepts(J, e), Continues(J), EventContinues(J, e),
         e.type = "message/appended", NEW K, K = Advance(J, e)
  PROVE  Continues(K)
<1> DEFINE m == e.message
<1>1. m \in Messages /\ m.role \in {"user", "assistant", "tool"}
  BY EventFields, MessageFields
<1>2. /\ K \in Journals /\ K.hist = Append(J.hist, m) /\ K.adapter = J.adapter /\ K.dead = J.dead
      /\ K.count = 2 /\ K.step = StepAfter(J, e) /\ K.tools = ToolsAfter(J, e)
  BY ZenonT(30), Folds DEF Folded, HistAfter, AdapterAfter, DeadAfter
<1>3. /\ J.hist \in Seq(Messages) /\ J.adapter \in Seq(Messages) /\ J.hist \in Histories
      /\ J.turn # None => J.turn \in Turns
      /\ J.step # None => J.step \in Steps /\ J.turn # None /\ J.step.adapterBefore \in Seq(Messages)
  BY JournalHistories DEF Histories
<1>4. /\ \A h \in Seq(Messages) : IsPrefix(h, J.hist) => IsPrefix(h, K.hist)
      /\ Covered(J) => Covered(K)
  <2>1. ASSUME NEW h \in Seq(Messages), IsPrefix(h, J.hist) PROVE IsPrefix(h, K.hist)
    <3>1. IsPrefix(h, Append(J.hist, m))
      <4> HIDE DEF m
      <4> QED  BY Zenon, <1>1, <1>3, <2>1, PrefixGrows
    <3>2. QED  BY <1>2, <3>1
  <2>2. QED  BY <1>2, <1>3, <2>1 DEF Covered
<1>5. J.dead => J.turn = None
  BY DEF Continues
<1>6. IF J.turn = None THEN K.turn = None ELSE TurnGoesOn(J, e, K)
  BY TurnKeepsOn
<1>7. CASE m.role = "user"
  <2>1. K.step = J.step /\ J.step = None /\ J.tools = <<>> /\ K.tools = J.tools
    BY <1>2, <1>7 DEF StepAfter, Accepts, Lives, ToolsAfter
  <2>2. Told(K.hist) = Told(J.hist)
    BY <1>1, <1>2, <1>3, <1>7, ToldAppend
  <2>3. CASE J.turn = None
    BY <1>2, <1>4, <1>6, <2>1, <2>3 DEF Continues
  <2>4. CASE J.turn # None
    <3>1. /\ K.turn # None /\ K.turn.before = J.turn.before
          /\ K.turn.adapterBefore = J.turn.adapterBefore
          /\ Settles(K) <=> Settles(J)
          /\ K.turn.nonUser <=> J.turn.nonUser
      BY <1>6, <1>7, <2>4 DEF TurnGoesOn, Settles
    <3>2. QED  BY <1>2, <1>4, <2>1, <2>2, <2>4, <3>1 DEF Continues
  <2>5. QED  BY <2>3, <2>4
<1>8. CASE m.role # "user"
  <2>1. J.turn # None /\ J.step # None
    BY <1>8 DEF Accepts, Lives, NeedsStep
  <2>2. /\ K.turn # None /\ K.turn.nonUser /\ (K.turn.rolled <=> J.turn.rolled)
        /\ (K.turn.mustRoll <=> J.turn.mustRoll) /\ K.turn.before = J.turn.before
        /\ K.turn.adapterBefore = J.turn.adapterBefore
    BY <1>6, <1>8, <2>1 DEF TurnGoesOn
  <2>3. StepContinues(J)
    BY <2>1 DEF Continues
  <2>4. CASE m.role = "tool"
    <3>1. K.step = J.step /\ J.tools # <<>>
      BY <1>2, <2>4 DEF StepAfter, Accepts, Correlates, Repeats, IsOpen
    <3>2. ~J.step.unprojected
      BY <2>3, <3>1 DEF StepContinues
    <3>3. StepContinues(K)
      BY <1>4, <2>2, <2>3, <3>1, <3>2 DEF StepContinues
    <3>4. QED  BY <1>2, <2>1, <2>2, <3>1, <3>3 DEF Continues
  <2>5. CASE m.role = "assistant"
    <3>1. K.step = [J.step EXCEPT !.pending = "nothing", !.expected = None, !.unprojected = FALSE]
      BY <1>2, <2>5 DEF StepAfter
    <3>2. Pending(J) = "response" /\ J.step.expected = m /\ J.step.expected # None /\ J.step.pending = "response"
      BY <2>1, <2>5 DEF Accepts, Correlates, Repeats, AwaitsProjection, Projects, Pending, AdapterEvent
    <3>3. J.step.asked /\ (J.step.unprojected => IsPrefix(J.adapter, J.hist \o Said(J.step.expected)))
          /\ J.step.unprojected
      BY <2>3, <3>2 DEF StepContinues
    <3>4. Covered(K)
      <4>1. J.hist \o Said(J.step.expected) = K.hist
        BY <1>1, <1>2, <1>3, <3>2, PrefixGrows DEF Said
      <4>2. QED  BY <1>2, <3>3, <4>1 DEF Covered
    <3>5. /\ ~K.step.unprojected /\ K.step.pending = "nothing" /\ K.step.asked /\ K.step \in Steps
      BY Zenon, <1>3, <2>1, <3>1, <3>3 DEF Steps
    <3>6. StepContinues(K) /\ K.step # None
      BY <1>2, <2>2, <2>3, <3>4, <3>5, JournalHistories DEF StepContinues
    <3>7. QED  BY <1>2, <2>1, <2>2, <3>6 DEF Continues
  <2>6. QED  BY <1>1, <1>8, <2>4, <2>5
<1>9. QED  BY <1>7, <1>8

\* Turns and steps begin and end with the continuation covered.
LEMMA ContinuesTurn ==
  ASSUME NEW J \in Journals, NEW e \in Events, Accepts(J, e), Continues(J), EventContinues(J, e),
         e.type \in {"turn/started", "turn/ended", "step/started", "step/completed"},
         NEW K, K = Advance(J, e)
  PROVE  Continues(K)
<1>1. /\ K \in Journals /\ K.hist = J.hist /\ K.adapter = J.adapter /\ K.dead = J.dead
      /\ K.count = 2 /\ TurnAfter(J, e, K.turn) /\ K.step = StepAfter(J, e) /\ K.tools = J.tools
  <2>1. HistAfter(J, e) = J.hist /\ AdapterAfter(J, e) = J.adapter /\ DeadAfter(J, e) = J.dead
        /\ ToolsAfter(J, e) = J.tools
    BY Zenon DEF HistAfter, AdapterAfter, DeadAfter, ToolsAfter
  <2>2. QED  BY <2>1, Folds DEF Folded
<1>2. J.step # None => J.turn # None
  BY JournalHistories
<1>3. ~J.dead /\ (Covered(K) <=> Covered(J))
  BY <1>1 DEF Accepts, Covered
<1>4. CASE e.type = "turn/started"
  <2>1. J.turn = None /\ J.step = None /\ K.step = None
    BY <1>1, <1>2, <1>4 DEF Accepts, Lives, Starts, StepAfter
  <2>2. K.turn = OpenTurn(J) /\ Covered(J) /\ J.tools = <<>>
    BY <1>1, <1>4, <2>1 DEF TurnAfter, Continues
  <2>3. /\ K.turn.before = J.hist /\ K.turn.adapterBefore = J.adapter /\ ~K.turn.nonUser
    BY <2>2 DEF OpenTurn
  <2>4. IsPrefix(K.turn.adapterBefore, K.turn.before) /\ Told(K.hist) \subseteq Told(K.turn.before)
    BY <1>1, <2>2, <2>3 DEF Covered
  <2>5. K.turn # None
    <3>1. J.hist \in Histories /\ J.adapter \in Histories
      BY JournalHistories
    <3>2. OpenTurn(J) \in Turns
      BY <3>1 DEF OpenTurn, Turns
    <3>3. QED  BY <2>2, <3>2, NoneAssumption
  <2>6. QED  BY <1>1, <1>3, <2>1, <2>2, <2>4, <2>5 DEF Continues
<1>5. CASE e.type = "turn/ended"
  <2>1. J.step = None /\ K.step = None /\ K.turn = None /\ J.tools = <<>>
    BY <1>1, <1>5 DEF Accepts, Lives, Ends, StepAfter, TurnAfter
  <2>2. Covered(J)
    BY <1>5 DEF EventContinues
  <2>3. QED  BY <1>1, <1>3, <2>1, <2>2 DEF Continues
<1>6. CASE e.type = "step/started"
  <2>1. J.turn # None /\ J.step = None /\ K.step = OpenStep(J) /\ TurnGoesOn(J, e, K) /\ ~Settles(J)
    BY <1>1, <1>6, TurnKeepsOn DEF Accepts, Lives, Starts, StepAfter, EventContinues
  <2>2. Covered(J) /\ J.tools = <<>>
    BY <2>1 DEF Continues
  <2>3. /\ K.turn # None /\ ~K.turn.rolled /\ ~K.turn.mustRoll /\ (K.turn.nonUser <=> J.turn.nonUser)
        /\ K.turn.before = J.turn.before /\ K.turn.adapterBefore = J.turn.adapterBefore
    BY <1>6, <2>1 DEF TurnGoesOn, Settles
  <2>4. /\ K.step.pending = "nothing" /\ K.step.unprojected /\ K.step.adapterBefore = J.adapter
    BY <2>1 DEF OpenStep
  <2>5. StepContinues(K)
    BY <1>1, <2>2, <2>3, <2>4 DEF StepContinues, Covered
  <2>6. K.step # None
    <3>1. J.adapter \in Histories
      BY JournalHistories
    <3>2. OpenStep(J) \in Steps
      BY <3>1 DEF OpenStep, Steps
    <3>3. QED  BY <2>1, <3>2, NoneAssumption
  <2>7. QED  BY <1>1, <1>3, <2>1, <2>3, <2>5, <2>6 DEF Continues
<1>7. CASE e.type = "step/completed"
  <2>1. J.step # None /\ J.turn # None /\ K.step = None /\ TurnGoesOn(J, e, K) /\ J.tools = <<>>
    BY <1>1, <1>2, <1>7, TurnKeepsOn DEF Accepts, Lives, Ends, StepAfter
  <2>2. StepContinues(J)
    BY <2>1 DEF Continues
  <2>3. /\ K.turn # None /\ ~K.turn.rolled /\ (K.turn.nonUser <=> J.turn.nonUser)
        /\ K.turn.before = J.turn.before /\ K.turn.adapterBefore = J.turn.adapterBefore
        /\ K.turn.mustRoll <=> Breaks(e)
    BY <1>7, <2>1, <2>2 DEF TurnGoesOn, StepContinues
  <2>4. CASE Breaks(e)
    BY <1>1, <1>3, <2>1, <2>3, <2>4 DEF Continues, Settles
  <2>5. CASE ~Breaks(e)
    <3>1. CASE e.outcome # "completed"
      <4>1. Covered(J)
        BY <1>7, <2>5, <3>1 DEF EventContinues
      <4>2. QED  BY <1>1, <1>3, <2>1, <2>3, <4>1 DEF Continues
    <3>2. CASE e.outcome = "completed"
      <4>1. J.step.pending \in {"nothing", "request", "response"} /\ J.step.pending # "request"
            /\ (J.step.pending = "response" => J.step.expected = None)
        <5>1. J.step \in Steps
          BY <2>1, JournalHistories
        <5>2. J.step.pending \in {"nothing", "request", "response"}
          BY <5>1 DEF Steps
        <5>3. QED
          BY <1>7, <2>1, <3>2, <5>2
          DEF Accepts, Correlates, AwaitsResponse, AwaitsProjection, Projects, Pending, Fails, AdapterEvent
      <4>2. Covered(J)
        <5>1. CASE ~J.step.unprojected
          BY <2>2, <5>1 DEF StepContinues
        <5>2. CASE J.step.unprojected /\ J.step.pending # "response"
          BY <2>2, <5>2 DEF StepContinues, Covered
        <5>3. CASE J.step.unprojected /\ J.step.pending = "response"
          <6>1. J.hist \in Seq(Messages)
            BY JournalHistories DEF Histories
          <6>2. J.hist \o Said(J.step.expected) = J.hist
            BY Zenon, <4>1, <5>3, <6>1, ConcatEmptySeq DEF Said
          <6>3. QED  BY <2>2, <5>3, <6>2 DEF StepContinues, Covered
        <5>4. QED  BY <5>1, <5>2, <5>3
      <4>3. QED  BY <1>1, <1>3, <2>1, <2>3, <4>2 DEF Continues
    <3>3. QED  BY <3>1, <3>2
  <2>6. QED  BY <2>4, <2>5
<1>8. QED  BY <1>4, <1>5, <1>6, <1>7

\* What has a prefix keeps it when the response is said.
LEMMA PrefixSaid ==
  ASSUME NEW s \in Seq(Messages), NEW t \in Seq(Messages), NEW m \in Messages \cup {None}, IsPrefix(s, t)
  PROVE  IsPrefix(s, t \o Said(m))
<1>1. CASE m = None
  <2>1. t \o Said(m) = t
    BY <1>1, ConcatEmptySeq DEF Said
  <2>2. QED  BY <2>1
<1>2. CASE m # None
  <2>1. m \in Messages /\ Said(m) = <<m>>
    BY <1>2 DEF Said
  <2>2. IsPrefix(s, t \o <<m>>)
    BY <2>1, PrefixGrows
  <2>3. QED  BY <2>1, <2>2
<1>3. QED  BY <1>1, <1>2

\* So do the calls of a step, the request and the response, and adapter state.
LEMMA ContinuesOther ==
  ASSUME NEW J \in Journals, NEW e \in Events, Accepts(J, e), Continues(J), EventContinues(J, e),
         e.type \in {"tool/call", "tool/execution-started", "tool/result",
                     "model/request-prepared", "model/response-received", "adapter/state"},
         NEW K, K = Advance(J, e)
  PROVE  Continues(K)
<1>1. /\ K \in Journals /\ K.hist = J.hist /\ K.adapter = AdapterAfter(J, e) /\ K.dead = J.dead
      /\ K.count = 2 /\ K.turn = J.turn /\ K.step = StepAfter(J, e) /\ K.tools = ToolsAfter(J, e)
  <2>1. HistAfter(J, e) = J.hist /\ DeadAfter(J, e) = J.dead
        /\ \A t : TurnAfter(J, e, t) => t = J.turn
    BY Zenon DEF HistAfter, DeadAfter, TurnAfter
  <2>2. QED  BY <2>1, Folds DEF Folded
<1>2. /\ J.step # None => J.turn # None /\ J.step \in Steps
      /\ J.hist \in Seq(Messages) /\ J.adapter \in Seq(Messages)
  BY JournalHistories DEF Histories
<1>3. ~J.dead
  BY DEF Accepts
<1>4. CASE e.type \in {"tool/call", "tool/execution-started", "tool/result"}
  <2>1. K.step = J.step /\ K.adapter = J.adapter /\ J.step # None
    BY <1>1, <1>4 DEF StepAfter, AdapterAfter, Accepts, Lives, NeedsStep
  <2>2. J.tools # <<>>
    <3>1. IsOpen(J, e.call)
      BY Zenon, <1>4 DEF Accepts, Correlates, Dispatches, Concludes
    <3>2. QED  BY <3>1 DEF IsOpen
  <2>3. StepContinues(J)
    BY <2>1 DEF Continues
  <2>4. ~J.step.unprojected /\ Covered(J)
    BY <2>2, <2>3 DEF StepContinues
  <2>5. StepContinues(K)
    BY <1>1, <2>1, <2>3, <2>4 DEF StepContinues, Covered
  <2>6. QED  BY <1>1, <1>2, <1>3, <2>1, <2>5 DEF Continues
<1>5. CASE e.type = "model/request-prepared"
  <2>1. /\ J.step # None /\ ~J.step.asked /\ K.adapter = J.adapter /\ K.tools = J.tools /\ J.tools = <<>>
        /\ K.step = [J.step EXCEPT !.pending = "request", !.asked = TRUE,
                                   !.adapterBefore = J.adapter, !.unprojected = TRUE]
    BY <1>1, <1>5 DEF StepAfter, AdapterAfter, ToolsAfter, Accepts, Correlates, Alternates
  <2>2. StepContinues(J)
    BY <2>1 DEF Continues
  <2>3. J.step.unprojected /\ IsPrefix(J.adapter, J.hist)
    BY <2>1, <2>2 DEF StepContinues
  <2>4. /\ K.step.pending = "request" /\ K.step.asked /\ K.step.adapterBefore = J.adapter
        /\ K.step.unprojected /\ K.step \in Steps
    BY Zenon, <1>2, <2>1, JournalHistories DEF Steps
  <2>5. StepContinues(K)
    BY <1>1, <2>1, <2>2, <2>3, <2>4 DEF StepContinues
  <2>6. K.step # None
    BY <2>4, NoneAssumption
  <2>7. QED  BY <1>1, <1>2, <1>3, <2>1, <2>5, <2>6 DEF Continues
<1>6. CASE e.type = "model/response-received"
  <2>1. /\ J.step # None /\ J.step.pending = "request" /\ K.adapter = J.adapter /\ K.tools = J.tools
        /\ K.step = [J.step EXCEPT !.pending = "response", !.expected = e.message]
    BY <1>1, <1>6 DEF StepAfter, AdapterAfter, ToolsAfter, Accepts, Correlates, Alternates, Pending
  <2>2. StepContinues(J)
    BY <2>1 DEF Continues
  <2>3. J.step.unprojected /\ J.step.asked /\ J.tools = <<>> /\ J.adapter = J.step.adapterBefore
        /\ IsPrefix(J.step.adapterBefore, J.hist)
    BY <2>1, <2>2 DEF StepContinues
  <2>4. /\ K.step.pending = "response" /\ K.step.asked /\ K.step.adapterBefore = J.adapter
        /\ K.step.unprojected /\ K.step.expected = e.message /\ K.step \in Steps
    BY Zenon, <1>2, <1>6, <2>1, <2>3, EventFields DEF Steps
  <2>5. IsPrefix(J.adapter, J.hist \o Said(e.message))
    BY <1>2, <1>6, <2>3, EventFields, PrefixSaid
  <2>6. StepContinues(K)
    BY <1>1, <2>1, <2>2, <2>3, <2>4, <2>5 DEF StepContinues
  <2>7. K.step # None
    BY <2>4, NoneAssumption
  <2>8. QED  BY <1>1, <1>2, <1>3, <2>1, <2>6, <2>7 DEF Continues
<1>7. CASE e.type = "adapter/state"
  <2>1. K.step = J.step /\ K.adapter = e.state /\ K.tools = J.tools /\ J.turn # None
    BY <1>1, <1>7 DEF StepAfter, AdapterAfter, ToolsAfter, Accepts, Lives
  <2>2. CASE J.step = None
    <3>1. Settles(K) \/ Covered(K)
      BY <1>1, <1>7, <2>1, <2>2 DEF EventContinues, Awaits, Settles, Covered
    <3>2. QED  BY <1>1, <1>3, <2>1, <2>2, <3>1 DEF Continues
  <2>3. CASE J.step # None
    <3>1. StepContinues(J)
      BY <2>3 DEF Continues
    <3>2. J.step.unprojected
      BY <1>7, <2>3 DEF EventContinues, Awaits
    <3>3. CASE e.state = J.step.adapterBefore
      <4>1. J.step.pending = "response" => IsPrefix(e.state, J.hist \o Said(J.step.expected))
        <5>1. e.state = J.step.adapterBefore /\ IsPrefix(e.state, J.hist) /\ e.state \in Seq(Messages)
          BY <1>7, <3>1, <3>2, <3>3, EventFields DEF StepContinues, Histories
        <5>2. J.step.expected \in Messages \cup {None}
          BY <2>3, JournalHistories
        <5>3. QED  BY <1>2, <5>1, <5>2, PrefixSaid
      <4>2. StepContinues(K)
        BY <1>1, <2>1, <3>1, <3>2, <3>3, <4>1 DEF StepContinues
      <4>3. QED  BY <1>1, <1>3, <2>1, <2>3, <4>2 DEF Continues
    <3>4. CASE Awaits(J, "response") /\ IsPrefix(e.state, J.hist \o Said(J.step.expected))
      <4>1. StepContinues(K)
        BY <1>1, <2>1, <3>1, <3>4 DEF StepContinues, Awaits
      <4>2. QED  BY <1>1, <1>3, <2>1, <2>3, <4>1 DEF Continues
    <3>5. QED  BY <1>7, <2>3, <3>3, <3>4 DEF EventContinues
  <2>4. QED  BY <2>2, <2>3
<1>8. QED  BY <1>4, <1>5, <1>6, <1>7

\* So do a history that is put back, a reset and the end of a session.
LEMMA ContinuesReplacement ==
  ASSUME NEW J \in Journals, NEW e \in Events, Accepts(J, e), Continues(J), EventContinues(J, e),
         e.type \in {"history/replaced", "session/reset", "session/destroyed"},
         NEW K, K = Advance(J, e)
  PROVE  Continues(K)
<1>1. /\ K \in Journals /\ K.hist = HistAfter(J, e) /\ K.adapter = AdapterAfter(J, e)
      /\ K.dead = DeadAfter(J, e) /\ K.count = 2 /\ TurnAfter(J, e, K.turn)
      /\ K.step = J.step /\ K.tools = J.tools
  BY ZenonT(30), Folds DEF Folded, StepAfter, ToolsAfter
<1>2. J.step = None /\ J.tools = <<>> /\ ~J.dead
  BY DEF Accepts, Lives, Closes, Replaces
<1>3. \A h \in Seq(Messages) : IsPrefix(<<>>, h)
  <2>1. <<>> \in Seq(Messages)
    OBVIOUS
  <2>2. ASSUME NEW h \in Seq(Messages) PROVE IsPrefix(<<>>, h)
    BY Zenon, <2>1, PrefixGrows, MessageEvents
  <2>3. QED  BY <2>2
<1>4. CASE e.type = "history/replaced"
  <2>1. K.hist = e.history /\ K.hist \in Seq(Messages) /\ ~K.dead /\ e.history \in Histories
    BY <1>1, <1>2, <1>4, EventFields DEF HistAfter, DeadAfter, Histories
  <2>2. CASE J.turn = None
    <3>1. K.turn = None /\ K.adapter = <<>>
      BY <1>1, <1>4, <2>2 DEF TurnAfter, AdapterAfter, EventContinues
    <3>2. Covered(K)
      BY <1>3, <2>1, <3>1 DEF Covered
    <3>3. QED  BY <1>1, <1>2, <2>1, <3>1, <3>2 DEF Continues
  <2>3. CASE J.turn # None
    <3>1. TurnGoesOn(J, e, K)
      BY <1>4, <2>3, TurnKeepsOn
    <3>2. /\ K.turn # None /\ K.turn.rolled /\ K.turn.before = J.turn.before
          /\ K.turn.adapterBefore = J.turn.adapterBefore
          /\ K.turn.nonUser <=> RetainsWork(e.history, J.turn.before)
      BY <1>4, <3>1 DEF TurnGoesOn
    <3>3. J.turn.before \in Histories
      BY <2>3, JournalHistories
    <3>4. ~K.turn.nonUser => Told(K.hist) \subseteq Told(K.turn.before)
      BY <2>1, <3>2, <3>3, ToldWithoutWork
    <3>5. QED  BY <1>1, <1>2, <2>1, <2>3, <3>2, <3>4 DEF Continues, Settles
  <2>4. QED  BY <2>2, <2>3
<1>5. CASE e.type = "session/reset"
  <2>1. J.turn = None /\ K.turn = None /\ K.hist = <<>> /\ K.adapter = <<>> /\ ~K.dead
    BY <1>1, <1>2, <1>5 DEF Accepts, Lives, Closes, TurnAfter, HistAfter, AdapterAfter, DeadAfter
  <2>2. Covered(K)
    <3>1. <<>> \in Seq(Messages)
      OBVIOUS
    <3>2. QED  BY Zenon, <1>3, <2>1, <3>1 DEF Covered
  <2>3. QED  BY <1>1, <1>2, <2>1, <2>2 DEF Continues
<1>6. CASE e.type = "session/destroyed"
  <2>1. J.turn = None /\ K.turn = None /\ K.hist = J.hist /\ K.adapter = J.adapter
    BY <1>1, <1>2, <1>6 DEF Accepts, Lives, Closes, TurnAfter, HistAfter, AdapterAfter
  <2>2. Covered(K)
    BY <2>1 DEF Covered, Continues
  <2>3. QED  BY <1>1, <1>2, <2>1, <2>2 DEF Continues
<1>7. QED  BY <1>4, <1>5, <1>6

\* Any event that leaves the continuation covered.
LEMMA StillContinues ==
  ASSUME NEW J \in Journals, NEW e \in Events, Accepts(J, e), Continues(J), EventContinues(J, e)
  PROVE  Continues(Advance(J, e))
BY EventFields, ContinuesMessage, ContinuesTurn, ContinuesOther, ContinuesReplacement

-----------------------------------------------------------------------------
(* What is left to append, after one event more.                             *)
GetsOn(r, todo, then, J, e) ==
  /\ EventContinues(J, e)
  /\ IF Tail(todo) = <<>> THEN Stands(r, then, Advance(J, e))
     ELSE Means(r, Tail(todo), then, Advance(J, e))

\* The head and the tail of a short plan.
LEMMA Short ==
  /\ \A a : Head(<<a>>) = a /\ Tail(<<a>>) = <<>> /\ Alone(<<a>>) /\ <<a>>[1] = a
  /\ \A a, b : Head(<<a, b>>) = a /\ Tail(<<a, b>>) = <<b>>
  /\ \A a, b, c : Head(<<a, b, c>>) = a /\ Tail(<<a, b, c>>) = <<b, c>>
  /\ \A a, b, c, d : Head(<<a, b, c, d>>) = a /\ Tail(<<a, b, c, d>>) = <<b, c, d>>
  /\ \A s : Alone(s) => Head(s) = s[1] /\ Tail(s) = <<>>
<1>1. ASSUME NEW a PROVE Head(<<a>>) = a /\ Tail(<<a>>) = <<>> /\ <<a>>[1] = a
  OBVIOUS
<1>2. ASSUME NEW a, NEW b PROVE Head(<<a, b>>) = a /\ Tail(<<a, b>>) = <<b>>
  OBVIOUS
<1>3. ASSUME NEW a, NEW b, NEW c
      PROVE  Head(<<a, b, c>>) = a /\ Tail(<<a, b, c>>) = <<b, c>>
  OBVIOUS
<1>4. ASSUME NEW a, NEW b, NEW c, NEW d
      PROVE  Head(<<a, b, c, d>>) = a /\ Tail(<<a, b, c, d>>) = <<b, c, d>>
  OBVIOUS
<1>5. ASSUME NEW s, Alone(s) PROVE Head(s) = s[1] /\ Tail(s) = <<>>
  <2>1. PICK a : s = <<a>>
    BY <1>5 DEF Alone
  <2>2. QED  BY <1>1, <2>1
<1>6. ASSUME NEW a PROVE Alone(<<a>>)
  BY <1>1 DEF Alone
<1>7. QED  BY <1>1, <1>2, <1>3, <1>4, <1>5, <1>6

\* An event that leaves a turn under way.
Quietly(e) ==
  /\ e.type \notin {"turn/started", "turn/ended", "history/replaced", "session/reset"}
  /\ e.type = "message/appended" => e.message.role # "tool"

\* A turn that goes on keeps what a failure would go back to.
LEMMA RunsOn ==
  ASSUME NEW J \in Journals, NEW e \in Events, Accepts(J, e), NEW r, Running(r, J), Quietly(e)
  PROVE  Running(r, Advance(J, e))
<1> DEFINE K == Advance(J, e)
<1>1. K.turn # None
  BY TurnKeepsOn DEF Running, Holds, Quietly, TurnGoesOn
<1>2. K.hist = HistAfter(J, e) /\ J.hist \in Histories
  BY Folds, JournalHistories
<1> HIDE DEF K
<1>3. Told(K.hist) = Told(J.hist)
  <2>1. CASE e.type = "message/appended"
    BY <1>2, <2>1, EventFields, ToldAppend DEF HistAfter, Quietly
  <2>2. CASE e.type # "message/appended"
    BY <1>2, <2>2 DEF HistAfter, Quietly
  <2>3. QED  BY <2>1, <2>2
<1>4. Running(r, K)
  BY <1>1, <1>3 DEF Running, Holds
<1>5. QED  BY <1>4 DEF K

\* A round whose calls are being answered.
LEMMA CallsOn ==
  ASSUME NEW J \in Journals, NEW e \in Events, Accepts(J, e), NEW r, Calling(r, J),
         e.type \in {"tool/call", "tool/execution-started"} \/ Receives(e)
  PROVE  Calling(r, Advance(J, e)) /\ EventContinues(J, e)
<1> DEFINE K == Advance(J, e)
<1>0. e.type \in {"tool/call", "tool/execution-started", "tool/result", "message/appended"}
      /\ (e.type = "message/appended" => e.message.role = "tool")
  BY DEF Receives
<1>1. K.turn # None
  BY <1>0, TurnKeepsOn DEF Calling, Holds, TurnGoesOn
<1>2. K.step = J.step
  BY ZenonT(40), <1>0, Folds DEF Folded, StepAfter
<1> HIDE DEF K
<1>3. Calling(r, K)
  BY <1>1, <1>2 DEF Calling, Holds, Echoed
<1>4. EventContinues(J, e)
  BY <1>0 DEF EventContinues
<1>5. QED  BY <1>3, <1>4 DEF K

\* A history is replaced before a turn, or while the journal is new.
LEMMA GetsReady ==
  ASSUME NEW J \in Journals, Continues(J), NEW r, NEW todo, NEW e \in Events, e = Head(todo),
         Accepts(J, e), NEW then \in {"budget", "open", "idle", "ended"}, Means(r, todo, then, J)
  PROVE  GetsOn(r, todo, then, J, e)
<1>1. Alone(todo)
  BY DEF Means, Makes
<1>2. e = todo[1] /\ Tail(todo) = <<>>
  BY <1>1, Short
<1>3. Stands(r, then, Advance(J, e))
  BY DEF Stands, Means
<1>4. EventContinues(J, e)
  <2>1. CASE then \in {"budget", "open"}
    <3>1. e.type = "history/replaced" /\ e.clear
      BY <1>2, <2>1 DEF Means, Makes
    <3>2. J.turn = None
      BY <3>1 DEF Accepts, Lives, Replaces, MayReplace
    <3>3. QED  BY <3>1, <3>2 DEF EventContinues
  <2>2. CASE then = "idle"
    <3>1. e.type = "history/replaced" /\ J.turn = None /\ J.adapter = <<>>
      BY <1>2, <2>2 DEF Means, Makes, Continues
    <3>2. QED  BY <3>1 DEF EventContinues
  <2>3. CASE then = "ended"
    BY <1>2, <2>3 DEF Means, Outside, EventContinues
  <2>4. QED  BY <2>1, <2>2, <2>3
<1>5. QED  BY <1>2, <1>3, <1>4 DEF GetsOn

\* A turn is opened.
LEMMA GetsOpened ==
  ASSUME NEW J \in Journals, Continues(J), NEW r, NEW todo, NEW e \in Events, e = Head(todo),
         Accepts(J, e), Means(r, todo, "opened", J)
  PROVE  GetsOn(r, todo, "opened", J, e)
<1> DEFINE K == Advance(J, e)
<1>1. /\ Unstarted(r) /\ Alone(todo) /\ todo[1].type = "turn/started"
      /\ r.before = J.hist /\ r.adapterBefore = J.adapter
  BY DEF Means, Makes
<1>2. e = todo[1] /\ Tail(todo) = <<>>
  BY <1>1, Short
<1>3. EventContinues(J, e)
  BY <1>1, <1>2 DEF EventContinues
<1>4. J.turn = None /\ J.step = None
  BY <1>1, <1>2, JournalHistories DEF Accepts, Lives, Starts
<1>5. K.turn = OpenTurn(J) /\ K.step = J.step /\ K.hist = J.hist
  <2>1. e.type = "turn/started"
    BY <1>1, <1>2
  <2>2. HistAfter(J, e) = J.hist /\ StepAfter(J, e) = J.step
        /\ \A t : TurnAfter(J, e, t) => t = OpenTurn(J)
    BY Zenon, <2>1 DEF TurnAfter, StepAfter, HistAfter
  <2>3. QED  BY <2>2, Folds DEF Folded
<1>6. K.turn # None
  <2>1. J.hist \in Histories /\ J.adapter \in Histories
    BY JournalHistories
  <2>2. OpenTurn(J) \in Turns
    BY <2>1 DEF OpenTurn, Turns
  <2>3. QED  BY <1>5, <2>2, NoneAssumption
<1>7. ~Settles(K)
  BY <1>5 DEF Settles, OpenTurn
<1> HIDE DEF K
<1>8. IsPrefix(r.adapterBefore, r.before)
  BY <1>1, <1>4 DEF Continues, Covered
<1>9. Stands(r, "opened", K)
  BY <1>1, <1>4, <1>5, <1>6, <1>7, <1>8 DEF Stands, Between, Holds, Fallback, Began, Unstarted
<1>10. QED  BY <1>2, <1>3, <1>9 DEF GetsOn, K

\* A round is over: its step is closed, or the user has spoken.
LEMMA StepIsOver ==
  ASSUME NEW J \in Journals, Continues(J), NEW e \in Events, Accepts(J, e),
         e = StepCompleted("completed")
  PROVE  EventContinues(J, e) /\ Between(Advance(J, e)) /\ Quietly(e)
<1> DEFINE K == Advance(J, e)
<1>1. e.type = "step/completed" /\ e.outcome = "completed" /\ ~Breaks(e)
  BY DEF StepCompleted, Breaks
<1>2. J.step # None /\ J.turn # None
  BY <1>1, JournalHistories DEF Accepts, Lives, Ends
<1>3. K.step = None /\ TurnGoesOn(J, e, K)
  BY Zenon, <1>1, <1>2, Folds, TurnKeepsOn DEF Folded, StepAfter
<1> HIDE DEF K
<1>4. StepContinues(J)
  BY <1>2 DEF Continues
<1>5. Between(K)
  BY <1>1, <1>3, <1>4 DEF Between, TurnGoesOn, Settles, StepContinues
<1>6. EventContinues(J, e) /\ Quietly(e)
  BY <1>1 DEF EventContinues, Quietly
<1>7. QED  BY <1>5, <1>6 DEF K

\* The user's message, or the end of a round, leads to the next round.
LEMMA GetsRound ==
  ASSUME NEW J \in Journals, Continues(J), NEW r, NEW todo, NEW e \in Events, e = Head(todo),
         Accepts(J, e), Means(r, todo, "round", J)
  PROVE  GetsOn(r, todo, "round", J, e)
<1> DEFINE K == Advance(J, e)
<1>1. Running(r, J) /\ J.turn # None
  BY DEF Means, Running, Holds
<1>2. CASE Alone(todo) /\ Outside(todo[1]) /\ Between(J)
  <2>1. e = todo[1] /\ Tail(todo) = <<>>
    BY <1>2, Short
  <2>2. e.type = "message/appended" /\ e.message.role = "user"
    BY <1>1, <1>2, <2>1 DEF Outside, Accepts, Lives, Closes
  <2>3. EventContinues(J, e) /\ Quietly(e)
    BY <2>2 DEF EventContinues, Quietly
  <2>4. Running(r, K)
    BY <1>1, <2>3, RunsOn
  <2>5. K.step = J.step /\ TurnGoesOn(J, e, K)
    BY ZenonT(60), <1>1, <2>2, Folds, TurnKeepsOn DEF Folded, StepAfter
  <2> HIDE DEF K
  <2>6. Between(K)
    BY <1>2, <2>2, <2>5 DEF Between, TurnGoesOn, Settles
  <2>7. Stands(r, "round", K)
    BY <2>4, <2>6 DEF Stands
  <2>8. QED  BY <2>1, <2>3, <2>7 DEF GetsOn, K
<1>3. CASE Passes(todo)
  <2>1. e = StepCompleted("completed") /\ Tail(todo) = <<>>
    BY <1>3, Short DEF Passes
  <2>2. EventContinues(J, e) /\ Between(K) /\ Running(r, K)
    BY <1>1, <2>1, StepIsOver, RunsOn
  <2> HIDE DEF K
  <2>3. Stands(r, "round", K)
    BY <2>2 DEF Stands
  <2>4. QED  BY <2>1, <2>2, <2>3 DEF GetsOn, K
<1>4. QED  BY <1>2, <1>3 DEF Means

\* The last round is over: its answer is said, or its step put back.
LEMMA GetsAfter ==
  ASSUME NEW J \in Journals, Continues(J), NEW r, NEW todo, NEW e \in Events, e = Head(todo),
         Accepts(J, e), Means(r, todo, "after", J)
  PROVE  GetsOn(r, todo, "after", J, e)
<1> DEFINE K == Advance(J, e)
<1>1. Running(r, J) /\ J.turn # None
  BY DEF Means, Running, Holds
<1>2. CASE Passes(todo)
  <2>1. e = StepCompleted("completed") /\ Tail(todo) = <<>>
    BY <1>2, Short DEF Passes
  <2>2. EventContinues(J, e) /\ Between(K) /\ Running(r, K)
    BY <1>1, <2>1, StepIsOver, RunsOn
  <2> HIDE DEF K
  <2>3. Stands(r, "after", K)
    BY <2>2 DEF Stands
  <2>4. QED  BY <2>1, <2>2, <2>3 DEF GetsOn, K
<1>3. CASE Awaits(J, "response")
           /\ todo = <<Adapter(J.step.adapterBefore), StepCompleted("completed")>>
  <2>1. e = Adapter(J.step.adapterBefore) /\ Tail(todo) = <<StepCompleted("completed")>>
    BY <1>3, Short
  <2>2. e.type = "adapter/state" /\ e.state = J.step.adapterBefore
    BY <2>1 DEF Adapter
  <2>3. EventContinues(J, e) /\ Quietly(e)
    BY <1>3, <2>2 DEF EventContinues, Quietly, Awaits
  <2>4. Running(r, K)
    BY <1>1, <2>3, RunsOn
  <2> HIDE DEF K
  <2>5. Means(r, Tail(todo), "after", K) /\ Tail(todo) # <<>>
    <3>1. Passes(Tail(todo))
      BY <2>1 DEF Passes
    <3>2. QED  BY <2>1, <2>4, <3>1 DEF Means
  <2>6. QED  BY <2>3, <2>5 DEF GetsOn, K
<1>4. QED  BY <1>2, <1>3 DEF Means

\* A step is opened, the model is asked and answers.
LEMMA GetsAsked ==
  ASSUME NEW J \in Journals, Continues(J), NEW r, NEW todo, NEW e \in Events, e = Head(todo),
         Accepts(J, e), NEW then \in {"request", "model"}, Means(r, todo, then, J)
  PROVE  GetsOn(r, todo, then, J, e)
<1> DEFINE K == Advance(J, e)
<1>1. Running(r, J) /\ Alone(todo)
      /\ todo[1].type = (IF then = "request" THEN "step/started" ELSE "model/request-prepared")
  BY DEF Means, Makes
<1>2. e = todo[1] /\ Tail(todo) = <<>>
  BY <1>1, Short
<1>3. Quietly(e)
  BY <1>1, <1>2 DEF Quietly
<1>4. Running(r, K)
  BY <1>1, <1>3, RunsOn
<1>5. CASE then = "request"
  <2>1. EventContinues(J, e)
    BY <1>1, <1>2, <1>5 DEF EventContinues, Means, Between
  <2> HIDE DEF K
  <2>2. Stands(r, then, K)
    BY <1>4, <1>5 DEF Stands
  <2>3. QED  BY <1>2, <2>1, <2>2 DEF GetsOn, K
<1>6. CASE then = "model"
  <2>1. EventContinues(J, e)
    BY <1>1, <1>2, <1>6 DEF EventContinues
  <2>2. /\ K \in Journals /\ J.step # None
        /\ K.step = [J.step EXCEPT !.pending = "request", !.asked = TRUE,
                                   !.adapterBefore = J.adapter, !.unprojected = TRUE]
    BY ZenonT(30), <1>1, <1>2, <1>6, Folds DEF Folded, StepAfter, Accepts, Correlates, Alternates
  <2> HIDE DEF K
  <2>3. J.step \in Steps /\ J.adapter \in Histories
    BY <2>2, JournalHistories
  <2>4. K.step \in Steps /\ K.step.pending = "request" /\ K.step.unprojected
    BY Zenon, <2>2, <2>3 DEF Steps
  <2>5. Awaits(K, "request")
    BY <2>4, NoneAssumption DEF Awaits
  <2>6. Stands(r, then, K)
    BY <1>4, <1>6, <2>5 DEF Stands
  <2>7. QED  BY <1>2, <2>1, <2>6 DEF GetsOn, K
<1>7. QED  BY <1>5, <1>6

\* The answer of the model, and the continuation that covers it.
LEMMA GetsResponse ==
  ASSUME NEW J \in Journals, Continues(J), NEW r, NEW todo, NEW e \in Events, e = Head(todo),
         Accepts(J, e), Means(r, todo, "response", J)
  PROVE  GetsOn(r, todo, "response", J, e)
<1> DEFINE K == Advance(J, e)
<1>1. Running(r, J)
  BY DEF Means
<1>2. ASSUME Awaits(J, "request"), e.type = "model/response-received"
      PROVE  /\ EventContinues(J, e) /\ Running(r, K) /\ Awaits(K, "response")
             /\ K.hist = J.hist /\ K.step.expected = e.message
  <2>1. EventContinues(J, e) /\ Quietly(e)
    BY <1>2 DEF EventContinues, Quietly
  <2>2. Running(r, K)
    BY <1>1, <2>1, RunsOn
  <2>3. /\ J.step \in Steps /\ K.hist = J.hist
        /\ K.step = [J.step EXCEPT !.pending = "response", !.expected = e.message]
    <3>1. HistAfter(J, e) = J.hist
          /\ StepAfter(J, e) = [J.step EXCEPT !.pending = "response", !.expected = e.message]
      BY <1>2 DEF StepAfter, HistAfter
    <3>2. QED  BY <1>2, <3>1, Folds, JournalHistories DEF Folded, Awaits
  <2>4. e.message \in Messages \cup {None}
    BY <1>2, EventFields
  <2> HIDE DEF K
  <2>5. /\ K.step \in Steps /\ K.step.pending = "response" /\ K.step.expected = e.message
        /\ K.step.unprojected = J.step.unprojected
    BY Zenon, <2>3, <2>4 DEF Steps
  <2>6. Awaits(K, "response")
    BY <1>2, <2>5, NoneAssumption DEF Awaits
  <2>7. QED  BY <2>1, <2>2, <2>3, <2>5, <2>6
<1>3. CASE Awaits(J, "request") /\ Makes(todo, "model/response-received")
  <2>1. e.type = "model/response-received" /\ Tail(todo) = <<>>
    BY <1>3, Short DEF Makes
  <2>2. EventContinues(J, e) /\ Running(r, K) /\ Awaits(K, "response")
    BY <1>2, <1>3, <2>1
  <2> HIDE DEF K
  <2>3. Stands(r, "response", K)
    BY <2>2 DEF Stands
  <2>4. QED  BY <2>1, <2>2, <2>3 DEF GetsOn, K
<1>4. CASE /\ Awaits(J, "request") /\ todo = <<Response(todo[1].message), Adapter(todo[2].state)>>
           /\ IsPrefix(todo[2].state, J.hist \o Said(todo[1].message))
  <2> DEFINE m == todo[1].message
             x == todo[2].state
  <2>1. e = Response(m) /\ Tail(todo) = <<Adapter(x)>>
    <3> HIDE DEF m, x
    <3>1. todo = <<Response(m), Adapter(x)>>
      BY <1>4 DEF m, x
    <3>2. QED  BY <3>1, Short
  <2>2. e.type = "model/response-received" /\ e.message = m
    <3> HIDE DEF m
    <3> QED  BY <2>1 DEF Response
  <2>3. /\ EventContinues(J, e) /\ Running(r, K) /\ Awaits(K, "response")
        /\ K.hist = J.hist /\ K.step.expected = m
    BY <1>2, <1>4, <2>2
  <2>4. IsPrefix(x, K.hist \o Said(K.step.expected))
    BY <1>4, <2>3
  <2> HIDE DEF K, m, x
  <2>5. Adapter(x).type = "adapter/state" /\ Adapter(x).state = x
    BY DEF Adapter
  <2>6. Means(r, <<Adapter(x)>>, "response", K)
    <3>1. <<Adapter(x)>>[1] = Adapter(x) /\ Makes(<<Adapter(x)>>, "adapter/state")
      BY <2>5, Short DEF Makes
    <3>2. QED  BY <2>3, <2>4, <2>5, <3>1 DEF Means
  <2>7. <<Adapter(x)>> # <<>>
    OBVIOUS
  <2>8. QED  BY Zenon, <2>1, <2>3, <2>6, <2>7 DEF GetsOn, K
<1>5. CASE /\ Awaits(J, "response") /\ Makes(todo, "adapter/state")
           /\ IsPrefix(todo[1].state, J.hist \o Said(J.step.expected))
  <2>1. e = todo[1] /\ e.type = "adapter/state" /\ Tail(todo) = <<>>
    BY <1>5, Short DEF Makes
  <2>2. EventContinues(J, e) /\ Quietly(e)
    BY <1>5, <2>1 DEF EventContinues, Quietly
  <2>3. Running(r, K)
    BY <1>1, <2>2, RunsOn
  <2>4. K.step = J.step
    BY Zenon, <2>1, Folds DEF Folded, StepAfter
  <2> HIDE DEF K
  <2>5. Stands(r, "response", K)
    BY <1>5, <2>3, <2>4 DEF Stands, Awaits
  <2>6. QED  BY <2>1, <2>2, <2>5 DEF GetsOn, K
<1>6. QED  BY <1>3, <1>4, <1>5 DEF Means

\* The answer of the model is appended to the history.
LEMMA GetsSpoken ==
  ASSUME NEW J \in Journals, Continues(J), NEW r, NEW todo, NEW e \in Events, e = Head(todo),
         Accepts(J, e), NEW then \in {"dispatch", "spoken"}, Means(r, todo, then, J)
  PROVE  GetsOn(r, todo, then, J, e)
<1> DEFINE K == Advance(J, e)
<1>1. Running(r, J) /\ Makes(todo, "message/appended") /\ todo[1].message.role = "assistant"
  BY DEF Means
<1>2. /\ e = todo[1] /\ Tail(todo) = <<>>
      /\ e.type = "message/appended" /\ e.message.role = "assistant"
  BY <1>1, Short DEF Makes
<1>3. EventContinues(J, e) /\ Quietly(e)
  BY <1>2 DEF EventContinues, Quietly
<1>4. Running(r, K)
  BY <1>1, <1>3, RunsOn
<1>5. /\ J.step \in Steps
      /\ K.step = [J.step EXCEPT !.pending = "nothing", !.expected = None, !.unprojected = FALSE]
  <2>1. J.step # None
    BY <1>2 DEF Accepts, Lives, NeedsStep
  <2>2. QED  BY ZenonT(30), <1>2, <2>1, Folds, JournalHistories DEF Folded, StepAfter
<1> HIDE DEF K
<1>6. K.step \in Steps /\ ~K.step.unprojected
  BY Zenon, <1>5 DEF Steps
<1>7. Echoed(K)
  BY <1>6, NoneAssumption DEF Echoed
<1>8. Stands(r, then, K)
  BY <1>4, <1>7 DEF Stands
<1>9. QED  BY <1>2, <1>3, <1>8 DEF GetsOn, K

\* The receipts of a round are appended.
LEMMA GetsAnswered ==
  ASSUME NEW J \in Journals, Continues(J), NEW r, NEW todo \in Seq(Events), todo # <<>>,
         NEW e \in Events, e = Head(todo), Accepts(J, e), Means(r, todo, "answer", J)
  PROVE  GetsOn(r, todo, "answer", J, e)
<1> DEFINE K == Advance(J, e)
<1>1. Calling(r, J) /\ \A i \in DOMAIN todo : Receives(todo[i])
  BY DEF Means
<1>2. Receives(e) /\ \A i \in DOMAIN Tail(todo) : Receives(Tail(todo)[i])
  BY <1>1
<1>3. EventContinues(J, e) /\ Calling(r, K)
  BY <1>1, <1>2, CallsOn
<1> HIDE DEF K
<1>4. Stands(r, "answer", K) /\ Means(r, Tail(todo), "answer", K)
  BY <1>2, <1>3 DEF Stands, Means
<1>5. QED  BY <1>3, <1>4 DEF GetsOn, K

-----------------------------------------------------------------------------
(* A turn puts back what it began with, or what it may keep.                 *)

\* An event and one more.
LEMMA Paired ==
  ASSUME NEW a, NEW b
  PROVE  Append(<<a>>, b) = <<a, b>>
<1> DEFINE S == {a, b}
           s == Append(<<a>>, b)
           t == <<a, b>>
<1>1. <<a>> \in Seq(S) /\ b \in S /\ Len(<<a>>) = 1 /\ <<a>>[1] = a
  OBVIOUS
<1>2. s \in Seq(S) /\ Len(s) = 2 /\ s[2] = b /\ \A i \in 1..1 : s[i] = <<a>>[i]
  BY <1>1, AppendProperties
<1>3. t \in Seq(S) /\ Len(t) = 2 /\ t[1] = a /\ t[2] = b
  OBVIOUS
<1> HIDE DEF s, t
<1>4. \A i \in 1..2 : s[i] = t[i]
  BY <1>1, <1>2, <1>3
<1>5. s = t
  BY <1>2, <1>3, <1>4, SeqEqual
<1>6. QED  BY <1>5 DEF s, t

\* Two events and one.
LEMMA Joined ==
  ASSUME NEW a, NEW b, NEW c
  PROVE  <<a, b>> \o <<c>> = <<a, b, c>>
<1> DEFINE S == {a, b, c}
<1>1. <<a, b>> \in Seq(S) /\ c \in S
  OBVIOUS
<1>2. <<a, b>> \o <<c>> = Append(<<a, b>>, c)
  BY <1>1, AppendIsConcat
<1>3. Append(<<a, b>>, c) = <<a, b, c>>
  <2> DEFINE s == Append(<<a, b>>, c)
             t == <<a, b, c>>
  <2>1. Len(<<a, b>>) = 2 /\ <<a, b>>[1] = a /\ <<a, b>>[2] = b
    OBVIOUS
  <2>2. /\ s \in Seq(S) /\ Len(s) = 3 /\ s[3] = c
        /\ \A i \in 1..2 : s[i] = <<a, b>>[i]
    BY <1>1, <2>1, AppendProperties
  <2>3. t \in Seq(S) /\ Len(t) = 3 /\ t[1] = a /\ t[2] = b /\ t[3] = c
    OBVIOUS
  <2> HIDE DEF s, t
  <2>4. \A i \in 1..3 : s[i] = t[i]
    BY <2>1, <2>2, <2>3
  <2>5. s = t
    BY <2>2, <2>3, <2>4, SeqEqual
  <2>6. QED  BY <2>5 DEF s, t
<1>4. QED  BY Zenon, <1>2, <1>3

\* What has been put back covers its own continuation.
LEMMA PuttingBack ==
  ASSUME NEW J \in Journals, Continues(J), NEW r, Running(r, J), NEW todo, NEW e \in Events,
         e = Head(todo), Accepts(J, e), NEW end, end = <<>> \/ \E x : end = <<x>>,
         PutsBack(todo, J, Fallback(r), end)
  PROVE  /\ EventContinues(J, e) /\ Running(r, Advance(J, e))
         /\ \/ PutsBack(Tail(todo), Advance(J, e), Fallback(r), end) /\ Tail(todo) # <<>>
            \/ Tail(todo) = end /\ Covered(Advance(J, e))
<1> DEFINE K == Advance(J, e)
           kept == Fallback(r)
<1>1. /\ J.turn # None /\ J.hist \in Histories
      /\ IsPrefix(kept.adapter, kept.hist) /\ Told(J.hist) \subseteq Told(kept.hist)
  BY JournalHistories DEF Running, Holds
<1>2. PICK reason \in Reasons :
        LET back == <<Replaced(kept.hist, reason), Adapter(kept.adapter)>> \o end IN
        \/ todo = back
        \/ todo = Tail(back) /\ J.turn.rolled /\ J.hist = kept.hist
  BY Zenon DEF PutsBack
<1> DEFINE a == Replaced(kept.hist, reason)
           b == Adapter(kept.adapter)
           back == <<a, b>> \o end
<1>3. /\ a.type = "history/replaced" /\ a.history = kept.hist
      /\ b.type = "adapter/state" /\ b.state = kept.adapter
  BY DEF Replaced, Adapter
<1>4. /\ Head(back) = a /\ Head(Tail(back)) = b /\ Tail(Tail(back)) = end /\ Tail(back) # <<>>
  <2> HIDE DEF a, b
  <2>1. CASE end = <<>>
    BY <2>1, Short
  <2>2. CASE \E x : end = <<x>>
    <3>1. PICK x : end = <<x>>
      BY <2>2
    <3>2. back = <<a, b, x>>
      BY <3>1, Joined
    <3>3. Head(<<a, b, x>>) = a /\ Tail(<<a, b, x>>) = <<b, x>>
      BY Short
    <3>4. Head(<<b, x>>) = b /\ Tail(<<b, x>>) = <<x>>
      BY Short
    <3>5. <<b, x>> # <<>>
      OBVIOUS
    <3> HIDE DEF back
    <3>6. QED  BY <3>1, <3>2, <3>3, <3>4, <3>5
  <2>3. QED  BY Zenon, <2>1, <2>2
<1> HIDE DEF a, b, kept, back, K
<1>5. CASE todo = back
  <2>1. e = a /\ Tail(todo) = Tail(back)
    BY <1>4, <1>5
  <2>2. EventContinues(J, e)
    BY <1>1, <1>3, <2>1 DEF EventContinues
  <2>3. K.hist = kept.hist /\ TurnGoesOn(J, e, K)
    BY <1>1, <1>3, <2>1, Folds, TurnKeepsOn DEF HistAfter, K
  <2>4. K.turn # None /\ K.turn.rolled
    BY <1>3, <2>1, <2>3 DEF TurnGoesOn
  <2>5. Running(r, K)
    BY <2>3, <2>4 DEF Running, Holds, kept
  <2>6. PutsBack(Tail(todo), K, kept, end)
    BY Zenon, <2>1, <2>3, <2>4 DEF PutsBack, back, a, b
  <2>7. QED  BY <1>4, <2>1, <2>2, <2>5, <2>6 DEF K, kept
<1>6. CASE todo = Tail(back) /\ J.turn.rolled /\ J.hist = kept.hist
  <2>1. e = b /\ Tail(todo) = end
    BY <1>4, <1>6
  <2>2. J.step = None
    BY <1>1, <1>6 DEF Continues, StepContinues
  <2>3. EventContinues(J, e) /\ Quietly(e)
    BY Zenon, <1>3, <1>6, <2>1, <2>2 DEF EventContinues, Quietly, Settles
  <2>4. Running(r, K)
    BY <2>3, RunsOn DEF K
  <2>5. K.hist = J.hist /\ K.adapter = kept.adapter
    BY <1>3, <2>1, Folds DEF Folded, AdapterAfter, HistAfter, K
  <2>6. Covered(K)
    BY <1>1, <1>6, <2>5 DEF Covered
  <2>7. QED  BY <2>1, <2>3, <2>4, <2>6 DEF K
<1>7. QED  BY Zenon, <1>2, <1>5, <1>6 DEF back, a, b

\* A turn without an answer is rolled back.
LEMMA GetsComplete ==
  ASSUME NEW J \in Journals, Continues(J), NEW r, NEW todo, NEW e \in Events, e = Head(todo),
         Accepts(J, e), Means(r, todo, "complete", J)
  PROVE  GetsOn(r, todo, "complete", J, e)
<1> DEFINE K == Advance(J, e)
<1>1. Running(r, J) /\ PutsBack(todo, J, Fallback(r), <<>>)
  BY DEF Means
<1>2. /\ EventContinues(J, e) /\ Running(r, K)
      /\ \/ PutsBack(Tail(todo), K, Fallback(r), <<>>) /\ Tail(todo) # <<>>
         \/ Tail(todo) = <<>> /\ Covered(K)
  BY <1>1, PuttingBack
<1> HIDE DEF K
<1>3. Covered(K) => Stands(r, "complete", K)
  BY <1>2 DEF Stands
<1>4. PutsBack(Tail(todo), K, Fallback(r), <<>>) => Means(r, Tail(todo), "complete", K)
  BY <1>2 DEF Means
<1>5. QED  BY <1>2, <1>3, <1>4 DEF GetsOn, K

\* A turn that ends well covers its continuation.
LEMMA GetsCommitted ==
  ASSUME NEW J \in Journals, Continues(J), NEW r, NEW todo, NEW e \in Events, e = Head(todo),
         Accepts(J, e), Means(r, todo, "committed", J)
  PROVE  GetsOn(r, todo, "committed", J, e)
<1>1. e.type = "turn/ended" /\ Tail(todo) = <<>> /\ Covered(J)
  BY Short DEF Means, Makes
<1>2. EventContinues(J, e)
  BY <1>1 DEF EventContinues
<1>3. Stands(r, "committed", Advance(J, e))
  BY DEF Stands
<1>4. QED  BY <1>1, <1>2, <1>3 DEF GetsOn

\* A turn is terminated.
LEMMA GetsTerminated ==
  ASSUME NEW J \in Journals, Continues(J), NEW r, NEW todo, NEW e \in Events, e = Head(todo),
         Accepts(J, e), Means(r, todo, "terminated", J)
  PROVE  /\ GetsOn(r, todo, "terminated", J, e)
         /\ Tail(todo) # <<>> => Running(r, Advance(J, e))
<1> DEFINE K == Advance(J, e)
           kept == Fallback(r)
<1>1. Running(r, J) /\ Terminates(todo, J, kept)
  BY DEF Means
<1>2. PICK o \in {"failed", "interrupted"} :
        \/ \E reason \in Reasons :
             todo = <<StepCompleted(o), Replaced(kept.hist, reason), Adapter(kept.adapter), TurnEnded(o)>>
        \/ PutsBack(todo, J, kept, <<TurnEnded(o)>>)
        \/ todo = <<TurnEnded(o)>> /\ Covered(J)
  BY <1>1 DEF Terminates
<1>3. ASSUME NEW then, then = "terminated" PROVE Stands(r, then, K)
  <2> HIDE DEF K
  <2> QED  BY <1>3 DEF Stands
<1>4. ASSUME Running(r, K), Terminates(Tail(todo), K, kept) PROVE Means(r, Tail(todo), "terminated", K)
  <2> HIDE DEF K
  <2> QED  BY <1>4 DEF Means, kept
<1>5. CASE \E reason \in Reasons :
             todo = <<StepCompleted(o), Replaced(kept.hist, reason), Adapter(kept.adapter), TurnEnded(o)>>
  <2>1. PICK reason \in Reasons :
          todo = <<StepCompleted(o), Replaced(kept.hist, reason), Adapter(kept.adapter), TurnEnded(o)>>
    BY <1>5
  <2> DEFINE a == Replaced(kept.hist, reason)
             b == Adapter(kept.adapter)
             c == TurnEnded(o)
  <2>2. e = StepCompleted(o) /\ Tail(todo) = <<a, b, c>>
    <3> HIDE DEF a, b, c
    <3>1. todo = <<StepCompleted(o), a, b, c>>
      BY <2>1 DEF a, b, c
    <3>2. QED  BY <3>1, Short
  <2> HIDE DEF a, b, c
  <2>3. e.type = "step/completed" /\ Breaks(e)
    BY <2>2 DEF StepCompleted, Breaks
  <2>4. EventContinues(J, e) /\ Quietly(e)
    BY <2>3 DEF EventContinues, Quietly
  <2>5. Running(r, K)
    BY <1>1, <2>4, RunsOn
  <2>6. Terminates(Tail(todo), K, kept) /\ Tail(todo) # <<>>
    <3> HIDE DEF K, kept
    <3>1. Tail(todo) = <<a, b>> \o <<c>>
      BY Zenon, <2>2, Joined
    <3>2. PutsBack(Tail(todo), K, kept, <<c>>)
      BY Zenon, <3>1 DEF PutsBack, a, b
    <3>3. Terminates(Tail(todo), K, kept)
      BY <3>2 DEF Terminates, c
    <3>4. QED  BY <2>2, <3>3
  <2>7. QED  BY <1>4, <2>4, <2>5, <2>6 DEF GetsOn
<1>6. CASE PutsBack(todo, J, kept, <<TurnEnded(o)>>)
  <2>1. /\ EventContinues(J, e) /\ Running(r, K)
        /\ \/ PutsBack(Tail(todo), K, kept, <<TurnEnded(o)>>) /\ Tail(todo) # <<>>
           \/ Tail(todo) = <<TurnEnded(o)>> /\ Covered(K)
    BY Zenon, <1>1, <1>6, PuttingBack
  <2>2. Tail(todo) # <<>>
    BY <2>1
  <2>3. Terminates(Tail(todo), K, kept)
    <3> HIDE DEF K, kept
    <3> QED  BY <2>1 DEF Terminates
  <2>4. QED  BY <1>4, <2>1, <2>2, <2>3 DEF GetsOn
<1>7. CASE todo = <<TurnEnded(o)>> /\ Covered(J)
  <2>1. e = TurnEnded(o) /\ Tail(todo) = <<>>
    BY <1>7, Short
  <2>2. EventContinues(J, e)
    BY <1>7, <2>1 DEF EventContinues, TurnEnded
  <2>3. QED  BY <1>3, <2>1, <2>2 DEF GetsOn
<1>8. QED  BY <1>2, <1>5, <1>6, <1>7

-----------------------------------------------------------------------------
(* Recovery and a mended round: the calls are answered, the step is closed,  *)
(* the turn is put back if it must be, and closed.                           *)

\* The first event of two plans, one after the other.
LEMMA FirstOf ==
  ASSUME NEW S, NEW a \in Seq(S), NEW b \in Seq(S), a # <<>>
  PROVE  Head(a \o b) = Head(a) /\ Tail(a \o b) = Tail(a) \o b /\ a \o b # <<>>
<1>1. Len(a) \in Nat /\ Len(a) > 0 /\ Len(b) \in Nat
  OBVIOUS
<1>2. /\ a \o b \in Seq(S) /\ Len(a \o b) = Len(a) + Len(b)
      /\ \A i \in 1..(Len(a) + Len(b)) : (a \o b)[i] = IF i <= Len(a) THEN a[i] ELSE b[i - Len(a)]
  BY ConcatProperties
<1>3. a \o b # <<>> /\ Head(a \o b) = Head(a)
  BY <1>1, <1>2
<1>4. /\ Tail(a \o b) \in Seq(S) /\ Len(Tail(a \o b)) = Len(a) + Len(b) - 1
      /\ \A i \in 1..(Len(a) + Len(b) - 1) : Tail(a \o b)[i] = (a \o b)[i + 1]
  BY <1>1, <1>2, <1>3, HeadTailProperties
<1>5. /\ Tail(a) \in Seq(S) /\ Len(Tail(a)) = Len(a) - 1
      /\ \A i \in 1..(Len(a) - 1) : Tail(a)[i] = a[i + 1]
  BY <1>1, HeadTailProperties
<1>6. /\ Tail(a) \o b \in Seq(S) /\ Len(Tail(a) \o b) = Len(a) - 1 + Len(b)
      /\ \A i \in 1..(Len(a) - 1 + Len(b)) :
           (Tail(a) \o b)[i] = IF i <= Len(a) - 1 THEN Tail(a)[i] ELSE b[i - (Len(a) - 1)]
  BY <1>5, ConcatProperties
<1>7. \A i \in 1..(Len(a) + Len(b) - 1) : Tail(a \o b)[i] = (Tail(a) \o b)[i]
  <2> SUFFICES ASSUME NEW i \in 1..(Len(a) + Len(b) - 1) PROVE Tail(a \o b)[i] = (Tail(a) \o b)[i]
    OBVIOUS
  <2>1. i \in Nat /\ i + 1 \in 1..(Len(a) + Len(b)) /\ i \in 1..(Len(a) - 1 + Len(b))
    BY <1>1
  <2>2. Tail(a \o b)[i] = IF i + 1 <= Len(a) THEN a[i + 1] ELSE b[i + 1 - Len(a)]
    BY <1>2, <1>4, <2>1
  <2>3. CASE i <= Len(a) - 1
    <3>1. (Tail(a) \o b)[i] = Tail(a)[i] /\ Tail(a)[i] = a[i + 1] /\ i + 1 <= Len(a)
      BY <1>1, <1>5, <1>6, <2>1, <2>3
    <3>2. QED  BY <2>2, <3>1
  <2>4. CASE i > Len(a) - 1
    <3>1. (Tail(a) \o b)[i] = b[i - (Len(a) - 1)] /\ i - (Len(a) - 1) = i + 1 - Len(a)
      BY <1>1, <1>6, <2>1, <2>4
    <3>2. ~(i + 1 <= Len(a))
      BY <1>1, <2>1, <2>4
    <3>3. QED  BY <2>2, <3>1, <3>2
  <2>5. QED  BY <1>1, <2>1, <2>3, <2>4
<1>8. Tail(a \o b) = Tail(a) \o b
  <2> DEFINE s == Tail(a \o b)
             t == Tail(a) \o b
  <2>1. s \in Seq(S) /\ t \in Seq(S) /\ Len(s) = Len(t) /\ Len(s) = Len(a) + Len(b) - 1
    BY <1>1, <1>4, <1>6
  <2>2. \A i \in 1..Len(s) : s[i] = t[i]
    BY <1>7, <2>1
  <2> HIDE DEF s, t
  <2>3. s = t
    BY Zenon, <2>1, <2>2, SeqEqual
  <2>4. QED  BY <2>3 DEF s, t
<1>9. QED  BY <1>3, <1>8

\* The parts of a recovery are events, the first of them receipts.
LEMMA Parts ==
  ASSUME NEW J \in Journals
  PROVE  /\ CloseTools(J) \in Seq({e \in Events : Receives(e)})
         /\ CloseStep(J) \in Seq(Events) /\ RollBackTurn(J) \in Seq(Events)
         /\ CloseTurn(J) \in Seq(Events) /\ Closing(J) \in Seq(Events)
         /\ J.turn # None => Restore(J.adapter, J.turn.adapterBefore) \in Seq(Events)
<1> DEFINE S == {e \in Events : Receives(e)}
<1>1. CloseTools(J) \in Seq(S)
  <2>1. ASSUME NEW t \in Tools PROVE Recovered(t) \in Seq(S)
    <3> DEFINE says == IF t.at = "started" THEN "unknown" ELSE "not executed"
               e == [ToolResult(t.call, says) EXCEPT !.recovered = TRUE]
    <3>1. t.call \in Calls /\ t.says \in Words /\ says \in Words
      BY Zenon DEF Tools, Words
    <3>2. Message(Receipt(t.call, t.says)) \in S /\ Message(Receipt(t.call, says)) \in S
      <4>1. ASSUME NEW w \in Words PROVE Message(Receipt(t.call, w)) \in S
        <5>1. Message(Receipt(t.call, w)) \in Events
          BY Zenon, <3>1, MessageEvents
        <5>2. Receives(Message(Receipt(t.call, w)))
          BY DEF Receives, Message, Receipt
        <5>3. QED  BY <5>1, <5>2
      <4> HIDE DEF S
      <4>2. QED  BY Zenon, <3>1, <4>1
    <3>3. e \in S
      <4>1. e \in Events
        BY Zenon, <3>1, ToolEvents
      <4>2. e.type = "tool/result"
        BY DEF ToolResult
      <4> HIDE DEF e
      <4>3. QED  BY <4>1, <4>2 DEF Receives
    <3>4. Recovered(t) = IF t.at = "result" THEN <<Message(Receipt(t.call, t.says))>>
                         ELSE <<e, Message(Receipt(t.call, says))>>
      BY DEF Recovered
    <3> HIDE DEF says, e, S
    <3>5. QED  BY <3>2, <3>3, <3>4
  <2>2. J.tools \in Seq(Tools) /\ DOMAIN J.tools = 1..Len(J.tools) /\ Len(J.tools) \in Nat
    BY JournalFields
  <2>3. [i \in DOMAIN J.tools |-> Recovered(J.tools[i])] \in Seq(Seq(S))
    <3> HIDE DEF S
    <3>1. \A i \in 1..Len(J.tools) : Recovered(J.tools[i]) \in Seq(S)
      BY <2>1, <2>2
    <3>2. QED  BY <2>2, <3>1
  <2>4. QED  BY <2>3, Flattening DEF CloseTools
<1> HIDE DEF S
<1>2. ASSUME NEW a, NEW b \in Histories PROVE Restore(a, b) \in Seq(Events)
  <2>1. Adapter(b) \in Events
    BY Zenon, SilentEvents
  <2>2. QED  BY <2>1 DEF Restore
<1>3. ContinuationAtTurn(J) \in Histories
  BY JournalFields DEF ContinuationAtTurn, Steps
<1>4. CloseStep(J) \in Seq(Events)
  <2> DEFINE e == [StepCompleted("interrupted") EXCEPT !.recovered = TRUE, !.rollbackTurn = RollsBack(J)]
  <2>1. e \in Events
    <3>1. RollsBack(J) \in BOOLEAN /\ "interrupted" \in Outcomes
      BY DEF RollsBack, Outcomes
    <3>2. QED  BY Zenon, <3>1, SilentEvents
  <2>2. Restore(J.adapter, ContinuationAtTurn(J)) \in Seq(Events)
    BY <1>2, <1>3
  <2>3. CloseStep(J) = IF J.step = None THEN <<>> ELSE Append(Restore(J.adapter, ContinuationAtTurn(J)), e)
    BY DEF CloseStep
  <2> HIDE DEF e
  <2>4. Append(Restore(J.adapter, ContinuationAtTurn(J)), e) \in Seq(Events)
    BY <2>1, <2>2, AppendProperties
  <2>5. QED  BY <2>3, <2>4
<1>5. J.turn # None => J.turn.before \in Histories /\ J.turn.adapterBefore \in Histories
  BY JournalHistories
<1>6. RollBackTurn(J) \in Seq(Events)
  <2>1. CASE ~RollsBack(J)
    BY <2>1 DEF RollBackTurn
  <2>2. CASE RollsBack(J)
    <3>1. J.turn # None
      BY <2>2 DEF RollsBack
    <3> DEFINE e == [Replaced(J.turn.before, "interrupted_turn_rolled_back") EXCEPT !.recovered = TRUE]
               R == Restore(ContinuationAtTurn(J), J.turn.adapterBefore)
    <3>2. e \in Events
      <4>1. "interrupted_turn_rolled_back" \in Reasons
        BY DEF Reasons
      <4>2. QED  BY <1>5, <3>1, <4>1, JournalFields, HistoryEvents
    <3>3. R \in Seq(Events)
      BY <1>2, <1>5, <3>1
    <3>4. RollBackTurn(J) = <<e>> \o R
      BY <2>2 DEF RollBackTurn
    <3> HIDE DEF e, R
    <3>5. <<e>> \in Seq(Events)
      BY <3>2
    <3>6. QED  BY <3>3, <3>4, <3>5, ConcatProperties
  <2>3. QED  BY <2>1, <2>2
<1>7. CloseTurn(J) \in Seq(Events)
  <2>1. TurnEnded("interrupted") \in Events
    BY Zenon, SilentEvents DEF Outcomes
  <2>2. QED  BY <2>1 DEF CloseTurn
<1>8. Closing(J) \in Seq(Events)
  <2>1. CloseStep(J) \o RollBackTurn(J) \in Seq(Events)
    BY <1>4, <1>6, ConcatProperties
  <2>2. QED  BY <1>7, <2>1, ConcatProperties DEF Closing
<1>9. QED  BY <1>1, <1>2, <1>4, <1>5, <1>6, <1>7, <1>8 DEF S

\* What is left when nothing is to be closed, or only the turn.
LEMMA ClosingTurn ==
  ASSUME NEW J \in Journals, J.step = None, ~RollsBack(J)
  PROVE  Closing(J) = CloseTurn(J)
<1>1. CloseStep(J) = <<>> /\ RollBackTurn(J) = <<>>
  BY DEF CloseStep, RollBackTurn
<1>2. <<>> \o CloseTurn(J) = CloseTurn(J)
  BY Parts, ConcatEmptySeq
<1>3. <<>> \o <<>> = <<>>
  OBVIOUS
<1>4. QED  BY <1>1, <1>2, <1>3 DEF Closing

\* A journal that is mended has no open turn.
LEMMA MendsEnds ==
  ASSUME NEW J \in Journals, NEW todo, todo = <<>>, Mends(todo, J)
  PROVE  J.turn = None
<1> SUFFICES ASSUME J.turn # None PROVE FALSE
  OBVIOUS
<1>1. CloseTurn(J) # <<>>
  BY DEF CloseTurn
<1>2. ASSUME NEW a \in Seq(Events), NEW b \in Seq(Events), a \o b = <<>> PROVE b = <<>>
  <2>1. Len(a \o b) = Len(a) + Len(b) /\ Len(a) \in Nat /\ Len(b) \in Nat
    BY ConcatProperties
  <2>2. Len(b) = 0
    BY <1>2, <2>1
  <2>3. QED  BY <2>2
<1>3. ASSUME NEW receipts \in Seq({e \in Events : Receives(e)}) PROVE receipts \in Seq(Events)
  BY <1>3, SeqMonotonic
<1>4. Closing(J) # <<>>
  <2>1. CloseStep(J) \o RollBackTurn(J) \in Seq(Events)
    BY Zenon, Parts, ConcatProperties
  <2>2. QED  BY <1>1, <1>2, <2>1, Parts DEF Closing
<1>5. CASE \E receipts \in Seq({e \in Events : Receives(e)}) : todo = receipts \o Closing(J)
  BY <1>2, <1>3, <1>4, <1>5, Parts
<1>6. CASE todo = Restore(J.adapter, J.turn.adapterBefore) \o CloseTurn(J)
  BY Zenon, <1>1, <1>2, <1>6, Parts
<1>7. QED  BY Zenon, <1>5, <1>6 DEF Mends

\* No receipts are to be given: the rest alone mends.
LEMMA MendsPlain ==
  ASSUME NEW J \in Journals, Recovers(J)
  PROVE  Mends(Closing(J), J)
<1>1. <<>> \o Closing(J) = Closing(J) /\ <<>> \in Seq({e \in Events : Receives(e)})
  BY Parts, ConcatEmptySeq
<1>2. QED  BY Zenon, <1>1 DEF Mends

\* Nothing is open: there is nothing to mend.
LEMMA MendsNothing ==
  ASSUME NEW J \in Journals, J.turn = None, J.step = None
  PROVE  Mends(<<>>, J)
<1>1. ~RollsBack(J) /\ Recovers(J)
  BY DEF RollsBack, Recovers
<1>2. Closing(J) = <<>>
  BY <1>1, ClosingTurn DEF CloseTurn
<1>3. QED  BY <1>1, <1>2, MendsPlain

\* The call that was waiting gets its receipt; nothing else changes.
LEMMA MendsCall ==
  ASSUME NEW J \in Journals, Continues(J), NEW receipts \in Seq({e \in Events : Receives(e)}),
         receipts # <<>>, NEW todo, todo = receipts \o Closing(J), Recovers(J),
         NEW e \in Events, e = Head(todo), Accepts(J, e)
  PROVE  EventContinues(J, e) /\ Mends(Tail(todo), Advance(J, e))
<1> DEFINE K == Advance(J, e)
           S == {x \in Events : Receives(x)}
<1>1. receipts \in Seq(Events)
  BY SeqMonotonic
<1>2. e = Head(receipts) /\ Tail(todo) = Tail(receipts) \o Closing(J)
  BY <1>1, FirstOf, Parts
<1>3. Receives(e) /\ Tail(receipts) \in Seq(S)
  <2>1. Head(receipts) \in S /\ Tail(receipts) \in Seq(S)
    <3> HIDE DEF S
    <3>1. receipts \in Seq(S)
      BY DEF S
    <3>2. QED  BY <3>1, HeadTailProperties
  <2>2. QED  BY <1>2, <2>1
<1>4. e.type \in {"tool/result", "message/appended"}
      /\ (e.type = "message/appended" => e.message.role = "tool")
  BY <1>3 DEF Receives
<1>5. EventContinues(J, e)
  BY <1>4 DEF EventContinues
<1>6. J.step # None /\ J.turn # None /\ J.tools # <<>>
  <2>1. \E c : IsOpen(J, c)
    BY Zenon, <1>4 DEF Accepts, Correlates, Concludes, Repeats
  <2>2. QED  BY <1>4, <2>1 DEF IsOpen, Accepts, Lives, NeedsStep
<1>7. StepContinues(J)
  BY <1>6 DEF Continues
<1>8. ~J.step.unprojected /\ J.turn.nonUser /\ ~J.turn.mustRoll /\ ~J.turn.rolled
  BY <1>6, <1>7 DEF StepContinues
<1>9. K.step = J.step /\ K.adapter = J.adapter
  <2>1. StepAfter(J, e) = J.step
    BY <1>4 DEF StepAfter
  <2>2. AdapterAfter(J, e) = J.adapter
    BY <1>4 DEF AdapterAfter
  <2>3. QED  BY <2>1, <2>2, Folds DEF Folded
<1>10. TurnGoesOn(J, e, K)
  BY <1>4, <1>6, TurnKeepsOn
<1> HIDE DEF K
<1>11. K.turn # None /\ K.turn.nonUser /\ ~K.turn.mustRoll /\ ~K.turn.rolled
  BY <1>4, <1>8, <1>10 DEF TurnGoesOn
<1>12. ~RollsBack(J) /\ ~RollsBack(K)
  BY <1>8, <1>11 DEF RollsBack
<1>13. Closing(K) = Closing(J)
  <2>1. CloseStep(K) = CloseStep(J)
    <3>1. ContinuationAtTurn(K) = ContinuationAtTurn(J)
      BY <1>9 DEF ContinuationAtTurn
    <3>2. RollsBack(K) = RollsBack(J)
      BY <1>12 DEF RollsBack
    <3>3. QED  BY <1>9, <3>1, <3>2 DEF CloseStep
  <2>2. RollBackTurn(K) = RollBackTurn(J)
    BY <1>12 DEF RollBackTurn
  <2>3. CloseTurn(K) = CloseTurn(J)
    BY <1>6, <1>11 DEF CloseTurn
  <2>4. QED  BY <2>1, <2>2, <2>3 DEF Closing
<1>14. Recovers(K)
  BY <1>11, <1>12 DEF Recovers
<1>15. Mends(Tail(todo), K)
  BY Zenon, <1>2, <1>3, <1>13, <1>14 DEF Mends
<1>16. QED  BY <1>5, <1>15 DEF K

\* No receipts are left, and the step is closed.
LEMMA MendsStep ==
  ASSUME NEW J \in Journals, Continues(J), J.step # None, Recovers(J),
         NEW todo, todo = Closing(J), NEW e \in Events, e = Head(todo), Accepts(J, e)
  PROVE  EventContinues(J, e) /\ Tail(todo) = Closing(Advance(J, e)) /\ Recovers(Advance(J, e))
<1> DEFINE K == Advance(J, e)
           C == ContinuationAtTurn(J)
           done == [StepCompleted("interrupted") EXCEPT !.recovered = TRUE, !.rollbackTurn = RollsBack(J)]
           R == RollBackTurn(J)
           T == CloseTurn(J)
<1>1. J.turn # None /\ StepContinues(J)
  BY JournalHistories DEF Continues
<1>2. /\ CloseStep(J) \in Seq(Events) /\ R \in Seq(Events) /\ T \in Seq(Events)
      /\ CloseStep(J) = Append(Restore(J.adapter, C), done) /\ todo = CloseStep(J) \o R \o T
  BY Zenon, Parts DEF CloseStep, Closing
<1>3. done.type = "step/completed" /\ done.outcome = "interrupted" /\ done.recovered
      /\ done.rollbackTurn = RollsBack(J)
  BY DEF StepCompleted
<1>4. C \in Histories /\ C = (IF J.step.unprojected THEN J.step.adapterBefore ELSE J.adapter)
  BY JournalHistories DEF ContinuationAtTurn
<1> HIDE DEF done, R, T, C, K
<1>5. CASE J.adapter # C
  <2>1. CloseStep(J) = <<Adapter(C), done>>
    BY <1>2, <1>5, Paired DEF Restore
  <2>2. Head(CloseStep(J)) = Adapter(C) /\ Tail(CloseStep(J)) = <<done>> /\ CloseStep(J) # <<>>
    BY <2>1, Short
  <2>3. e = Adapter(C) /\ Tail(todo) = <<done>> \o R \o T
    <3>1. /\ CloseStep(J) \o R \in Seq(Events) /\ CloseStep(J) \o R # <<>>
          /\ Head(CloseStep(J) \o R) = Adapter(C) /\ Tail(CloseStep(J) \o R) = <<done>> \o R
      <4>1. CloseStep(J) \o R \in Seq(Events)
        BY <1>2, ConcatProperties
      <4>2. CloseStep(J) \in Seq(Events) /\ R \in Seq(Events)
        BY <1>2
      <4>3. /\ Head(CloseStep(J) \o R) = Head(CloseStep(J)) /\ CloseStep(J) \o R # <<>>
            /\ Tail(CloseStep(J) \o R) = Tail(CloseStep(J)) \o R
        BY <2>2, <4>2, FirstOf
      <4>4. QED  BY Zenon, <2>2, <4>1, <4>3
    <3>2. QED  BY ZenonT(60), <1>2, <3>1, FirstOf
  <2>4. e.type = "adapter/state" /\ e.state = C
    BY <2>3 DEF Adapter
  <2>5. J.step.unprojected /\ e.state = J.step.adapterBefore
    BY <1>4, <1>5, <2>4
  <2>6. EventContinues(J, e)
    BY <2>4, <2>5 DEF EventContinues
  <2>7. K.turn = J.turn /\ K.step = J.step /\ K.adapter = C /\ K.hist = J.hist
    <3>1. /\ HistAfter(J, e) = J.hist /\ StepAfter(J, e) = J.step /\ AdapterAfter(J, e) = C
          /\ \A t : TurnAfter(J, e, t) => t = J.turn
      BY Zenon, <2>4 DEF HistAfter, StepAfter, AdapterAfter, TurnAfter
    <3>2. QED  BY <3>1, Folds DEF Folded, K
  <2>8. ContinuationAtTurn(K) = C /\ RollsBack(K) = RollsBack(J)
    BY <1>4, <2>5, <2>7 DEF ContinuationAtTurn, RollsBack
  <2>9. CloseStep(K) = <<done>>
    BY <2>7, <2>8 DEF CloseStep, Restore, done
  <2>10. RollBackTurn(K) = R /\ CloseTurn(K) = T
    BY <2>7, <2>8 DEF RollBackTurn, CloseTurn, R, T, C
  <2>11. Tail(todo) = Closing(K)
    BY Zenon, <2>3, <2>9, <2>10 DEF Closing
  <2>12. Recovers(K)
    BY <2>7, <2>8 DEF Recovers
  <2>13. QED  BY <2>6, <2>11, <2>12 DEF K
<1>6. CASE J.adapter = C
  <2>1. CloseStep(J) = <<done>>
    BY <1>2, <1>6 DEF Restore
  <2>2. Head(CloseStep(J)) = done /\ Tail(CloseStep(J)) = <<>> /\ CloseStep(J) # <<>>
    BY <2>1, Short
  <2>3. e = done /\ Tail(todo) = <<>> \o R \o T
    <3>1. /\ CloseStep(J) \o R \in Seq(Events) /\ CloseStep(J) \o R # <<>>
          /\ Head(CloseStep(J) \o R) = done /\ Tail(CloseStep(J) \o R) = <<>> \o R
      <4>1. CloseStep(J) \o R \in Seq(Events)
        BY <1>2, ConcatProperties
      <4>2. CloseStep(J) \in Seq(Events) /\ R \in Seq(Events)
        BY <1>2
      <4>3. /\ Head(CloseStep(J) \o R) = Head(CloseStep(J)) /\ CloseStep(J) \o R # <<>>
            /\ Tail(CloseStep(J) \o R) = Tail(CloseStep(J)) \o R
        BY <2>2, <4>2, FirstOf
      <4>4. QED  BY Zenon, <2>2, <4>1, <4>3
    <3>2. QED  BY ZenonT(30), <1>2, <3>1, FirstOf
  <2>4. e.type = "step/completed" /\ (Breaks(e) <=> RollsBack(J))
    BY Zenon, <1>3, <2>3 DEF Breaks, RollsBack
  <2>5. RollsBack(J) \/ Covered(J)
    <3> SUFFICES ASSUME ~RollsBack(J) PROVE Covered(J)
      OBVIOUS
    <3>1. CASE J.step.unprojected
      BY <1>1, <1>4, <1>6, <3>1 DEF StepContinues, Covered
    <3>2. CASE ~J.step.unprojected
      BY <1>1, <3>2 DEF StepContinues
    <3>3. QED  BY <3>1, <3>2
  <2>6. EventContinues(J, e)
    BY <2>4, <2>5 DEF EventContinues
  <2>7. K.step = None /\ K.adapter = J.adapter /\ K.hist = J.hist
    <3>1. HistAfter(J, e) = J.hist /\ StepAfter(J, e) = None /\ AdapterAfter(J, e) = J.adapter
      BY <2>4 DEF HistAfter, StepAfter, AdapterAfter
    <3>2. QED  BY <3>1, Folds DEF Folded, K
  <2>8. /\ K.turn # None /\ K.turn.before = J.turn.before /\ K.turn.adapterBefore = J.turn.adapterBefore
        /\ (K.turn.mustRoll <=> J.turn.mustRoll \/ RollsBack(J)) /\ (K.turn.nonUser <=> J.turn.nonUser)
        /\ (K.turn.rolled <=> J.turn.rolled)
    BY <1>1, <2>4, TurnKeepsOn DEF TurnGoesOn, K
  <2>9. ContinuationAtTurn(K) = C /\ RollsBack(K) = RollsBack(J)
    BY <1>1, <1>6, <2>7, <2>8 DEF ContinuationAtTurn, RollsBack
  <2>10. CloseStep(K) = <<>> /\ RollBackTurn(K) = R /\ CloseTurn(K) = T
    BY <1>1, <2>7, <2>8, <2>9 DEF CloseStep, RollBackTurn, CloseTurn, R, T, C
  <2>11. Tail(todo) = Closing(K)
    BY Zenon, <2>3, <2>10 DEF Closing
  <2>12. Recovers(K)
    BY <1>1, <2>7, <2>8, <2>9 DEF Recovers
  <2>13. QED  BY <2>6, <2>11, <2>12 DEF K
<1>7. QED  BY <1>5, <1>6

\* The step is closed, and the turn is put back or ends.
LEMMA MendsTurn ==
  ASSUME NEW J \in Journals, Continues(J), J.step = None, Recovers(J),
         NEW todo, todo = Closing(J), todo # <<>>, NEW e \in Events, e = Head(todo), Accepts(J, e)
  PROVE  EventContinues(J, e) /\ Mends(Tail(todo), Advance(J, e))
<1> DEFINE K == Advance(J, e)
           T == CloseTurn(J)
<1>1. CASE RollsBack(J)
  <2> DEFINE rep == [Replaced(J.turn.before, "interrupted_turn_rolled_back") EXCEPT !.recovered = TRUE]
             R == Restore(J.adapter, J.turn.adapterBefore)
  <2>1. J.turn # None
    BY <1>1 DEF RollsBack
  <2>2. rep.type = "history/replaced" /\ rep.history = J.turn.before
    BY DEF Replaced
  <2>3. RollBackTurn(J) = <<rep>> \o R
    BY <1>1 DEF RollBackTurn, ContinuationAtTurn
  <2>4. R \in Seq(Events) /\ RollBackTurn(J) \in Seq(Events) /\ T \in Seq(Events)
    BY Zenon, <2>1, Parts
  <2> HIDE DEF rep, R, T, K
  <2>5. rep \in Events
    <3>1. J.turn.before \in Histories /\ J.thread \in Threads
      BY <2>1, JournalHistories, JournalFields
    <3>2. QED  BY Zenon, <3>1, HistoryEvents DEF rep, Reasons
  <2>6. Head(RollBackTurn(J)) = rep /\ Tail(RollBackTurn(J)) = R /\ RollBackTurn(J) # <<>>
    <3>1. <<rep>> \in Seq(Events) /\ <<rep>> # <<>> /\ <<>> \o R = R
      BY <2>4, <2>5, ConcatEmptySeq
    <3>2. Head(<<rep>>) = rep /\ Tail(<<rep>>) = <<>>
      BY Short
    <3>3. QED  BY <2>3, <2>4, <3>1, <3>2, FirstOf
  <2>7. todo = RollBackTurn(J) \o T
    <3>1. CloseStep(J) = <<>> /\ <<>> \o RollBackTurn(J) = RollBackTurn(J)
      BY <2>4, ConcatEmptySeq DEF CloseStep
    <3>2. QED  BY <3>1 DEF Closing, T
  <2>8. e = rep /\ Tail(todo) = R \o T
    BY Zenon, <2>4, <2>6, <2>7, FirstOf
  <2>9. e.type = "history/replaced" /\ e.history = J.turn.before
    BY <2>2, <2>8
  <2>10. EventContinues(J, e)
    BY <1>1, <2>1, <2>9 DEF EventContinues, Recovers
  <2>11. /\ K.hist = J.turn.before /\ K.step = J.step /\ TurnGoesOn(J, e, K)
    <3>1. HistAfter(J, e) = J.turn.before /\ StepAfter(J, e) = J.step
      BY <2>9 DEF HistAfter, StepAfter
    <3>2. TurnGoesOn(J, e, K)
      BY <2>1, <2>9, TurnKeepsOn DEF K
    <3>3. QED  BY <3>1, <3>2, Folds DEF Folded, K
  <2>12. /\ K.turn # None /\ K.turn.rolled /\ K.turn.before = J.turn.before
         /\ K.turn.adapterBefore = J.turn.adapterBefore
         /\ K.turn.nonUser <=> RetainsWork(J.turn.before, J.turn.before)
    BY <2>9, <2>11 DEF TurnGoesOn
  <2>13. K.adapter = J.adapter
    <3>1. ~e.clear
      BY <2>1, <2>9 DEF Accepts, Lives, Replaces, MayReplace
    <3>2. QED  BY <2>9, <3>1, Folds DEF Folded, AdapterAfter, K
  <2>14. ~K.turn.nonUser
    <3> DEFINE h == J.turn.before
    <3>1. h \in Seq(Messages)
      BY <2>1, JournalHistories DEF Histories
    <3>2. IsPrefix(h, h)
      BY <3>1, PrefixIs
    <3>3. SubSeq(h, Len(h) + 1, Len(h)) = <<>>
      BY <3>1
    <3>4. ~NonUser(<<>>)
      BY DEF NonUser
    <3>5. ~RetainsWork(h, h)
      BY Zenon, <3>2, <3>3, <3>4 DEF RetainsWork
    <3>6. QED  BY <2>12, <3>5
  <2>15. Recovers(K)
    BY <2>11, <2>12, <2>14 DEF Recovers, RollsBack
  <2>16. Mends(Tail(todo), K)
    <3>1. CloseTurn(K) = T
      BY <2>1, <2>12 DEF CloseTurn, T
    <3>2. QED  BY <2>8, <2>11, <2>12, <2>13, <2>15, <3>1 DEF Mends, R
  <2>17. QED  BY <2>10, <2>16 DEF K
<1>2. CASE ~RollsBack(J)
  <2>1. todo = CloseTurn(J) /\ J.turn # None
    BY <1>2, ClosingTurn DEF CloseTurn
  <2>2. todo = <<TurnEnded("interrupted")>>
    BY <2>1 DEF CloseTurn
  <2>3. e.type = "turn/ended" /\ Tail(todo) = <<>>
    BY <2>2, Short DEF TurnEnded
  <2>4. Covered(J)
    BY <1>2, <2>1 DEF Continues, Recovers, Settles, RollsBack
  <2>5. EventContinues(J, e)
    BY <2>3, <2>4 DEF EventContinues
  <2>6. K \in Journals /\ K.turn = None /\ K.step = None
    <3>1. StepAfter(J, e) = J.step /\ \A t : TurnAfter(J, e, t) => t = None
      BY Zenon, <2>3 DEF TurnAfter, StepAfter
    <3>2. QED  BY <3>1, Folds DEF Folded
  <2> HIDE DEF K
  <2>7. Mends(<<>>, K)
    BY <2>6, MendsNothing
  <2>8. QED  BY Zenon, <2>3, <2>5, <2>7 DEF K
<1>3. QED  BY <1>1, <1>2

\* The turn is put back: its continuation, then its end.
LEMMA MendsRest ==
  ASSUME NEW J \in Journals, Continues(J), Recovers(J), J.turn # None, J.turn.rolled,
         J.hist = J.turn.before, NEW todo, todo = Restore(J.adapter, J.turn.adapterBefore) \o CloseTurn(J),
         NEW e \in Events, e = Head(todo), Accepts(J, e)
  PROVE  EventContinues(J, e) /\ Mends(Tail(todo), Advance(J, e))
<1> DEFINE K == Advance(J, e)
           x == J.turn.adapterBefore
           end == TurnEnded("interrupted")
<1>1. J.step = None /\ IsPrefix(x, J.hist) /\ CloseTurn(J) = <<end>>
  BY DEF Continues, StepContinues, CloseTurn
<1>2. end \in Events /\ end.type = "turn/ended" /\ Adapter(x) \in Events
  BY Zenon, SilentEvents, JournalHistories DEF Outcomes, TurnEnded
<1> HIDE DEF end, K, x
<1>3. CASE J.adapter # x
  <2>1. /\ <<Adapter(x)>> \in Seq(Events) /\ <<end>> \in Seq(Events) /\ <<Adapter(x)>> # <<>>
        /\ <<>> \o <<end>> = <<end>>
    BY <1>2, ConcatEmptySeq
  <2>2. Head(<<Adapter(x)>>) = Adapter(x) /\ Tail(<<Adapter(x)>>) = <<>>
    BY Short
  <2>3. todo = <<Adapter(x)>> \o <<end>>
    BY <1>1, <1>3 DEF Restore, x
  <2>4. e = Adapter(x) /\ Tail(todo) = <<end>>
    <3>1. /\ Head(<<Adapter(x)>> \o <<end>>) = Head(<<Adapter(x)>>)
          /\ Tail(<<Adapter(x)>> \o <<end>>) = Tail(<<Adapter(x)>>) \o <<end>>
      BY <2>1, FirstOf
    <3>2. QED  BY Zenon, <2>1, <2>2, <2>3, <3>1
  <2>5. e.type = "adapter/state" /\ e.state = x
    BY <2>4 DEF Adapter
  <2>6. EventContinues(J, e)
    BY <1>1, <2>5 DEF EventContinues, Settles
  <2>7. K.turn = J.turn /\ K.adapter = x /\ K.hist = J.hist
    <3>1. /\ HistAfter(J, e) = J.hist /\ AdapterAfter(J, e) = x
          /\ \A t : TurnAfter(J, e, t) => t = J.turn
      BY Zenon, <2>5 DEF HistAfter, AdapterAfter, TurnAfter
    <3>2. QED  BY Zenon, <3>1, Folds DEF Folded, K
  <2>8. Recovers(K)
    BY <2>7 DEF Recovers, RollsBack
  <2>9. Tail(todo) = Restore(K.adapter, K.turn.adapterBefore) \o CloseTurn(K)
    BY <1>1, <2>1, <2>4, <2>7 DEF Restore, CloseTurn, x
  <2>10. Mends(Tail(todo), K)
    BY <2>7, <2>8, <2>9 DEF Mends
  <2>11. QED  BY Zenon, <2>6, <2>10 DEF K
<1>4. CASE J.adapter = x
  <2>1. todo = <<end>>
    <3>1. <<>> \o <<end>> = <<end>>
      BY <1>2, ConcatEmptySeq
    <3>2. QED  BY <1>1, <1>4, <3>1 DEF Restore, x
  <2>2. e.type = "turn/ended" /\ Tail(todo) = <<>>
    BY <1>2, <2>1, Short
  <2>3. Covered(J)
    BY <1>1, <1>4 DEF Covered
  <2>4. EventContinues(J, e)
    BY Zenon, <2>2, <2>3 DEF EventContinues
  <2>5. K \in Journals /\ K.turn = None /\ K.step = None
    <3>1. StepAfter(J, e) = J.step /\ \A t : TurnAfter(J, e, t) => t = None
      BY Zenon, <2>2 DEF TurnAfter, StepAfter
    <3>2. QED  BY <1>1, <3>1, Folds DEF Folded, K
  <2>6. Mends(<<>>, K)
    BY <2>5, MendsNothing
  <2>7. QED  BY Zenon, <2>2, <2>4, <2>6 DEF K
<1>5. QED  BY Zenon, <1>3, <1>4

\* Any event of a recovery.
LEMMA MendsOn ==
  ASSUME NEW J \in Journals, Continues(J), NEW todo, todo # <<>>, Mends(todo, J),
         NEW e \in Events, e = Head(todo), Accepts(J, e)
  PROVE  EventContinues(J, e) /\ Mends(Tail(todo), Advance(J, e))
<1>1. Recovers(J)
  BY DEF Mends
<1>2. CASE \E receipts \in Seq({x \in Events : Receives(x)}) : todo = receipts \o Closing(J)
  <2>1. PICK receipts \in Seq({x \in Events : Receives(x)}) : todo = receipts \o Closing(J)
    BY Zenon, <1>2
  <2>2. CASE receipts # <<>>
    BY Zenon, <1>1, <2>1, <2>2, MendsCall
  <2>3. CASE receipts = <<>>
    <3>1. todo = Closing(J)
      BY <2>1, <2>3, Parts, ConcatEmptySeq
    <3>2. CASE J.step = None
      BY <1>1, <3>1, <3>2, MendsTurn
    <3>3. CASE J.step # None
      <4>1. EventContinues(J, e) /\ Tail(todo) = Closing(Advance(J, e)) /\ Recovers(Advance(J, e))
        BY <1>1, <3>1, <3>3, MendsStep
      <4>2. Advance(J, e) \in Journals
        BY Folds
      <4>3. QED  BY Zenon, <4>1, <4>2, MendsPlain
    <3>4. QED  BY <3>2, <3>3
  <2>4. QED  BY <2>2, <2>3
<1>3. CASE /\ J.turn # None /\ J.turn.rolled /\ J.hist = J.turn.before
           /\ todo = Restore(J.adapter, J.turn.adapterBefore) \o CloseTurn(J)
  BY Zenon, <1>1, <1>3, MendsRest
<1>4. QED  BY Zenon, <1>2, <1>3 DEF Mends

\* What a process that opens a journal appends, mends it.
LEMMA MendsFromPlan ==
  ASSUME NEW J \in Journals, Continues(J), Recovers(J)
  PROVE  Mends(RecoveryPlan(J), J)
<1>1. CASE J.dead
  <2>1. J.turn = None /\ J.step = None
    BY <1>1, JournalHistories DEF Continues
  <2>2. QED  BY <1>1, <2>1, MendsNothing DEF RecoveryPlan
<1>2. CASE ~J.dead
  <2> DEFINE T == CloseTools(J)
             S == {x \in Events : Receives(x)}
  <2>1. T \in Seq(S)
    BY Parts
  <2>2. T \in Seq(Events)
    BY <2>1, SeqMonotonic
  <2>3. RecoveryPlan(J) = ((T \o CloseStep(J)) \o RollBackTurn(J)) \o CloseTurn(J)
    BY <1>2 DEF RecoveryPlan
  <2> HIDE DEF T
  <2>4. /\ CloseStep(J) \in Seq(Events) /\ RollBackTurn(J) \in Seq(Events) /\ CloseTurn(J) \in Seq(Events)
    BY Zenon, Parts
  <2>5. CloseStep(J) \o RollBackTurn(J) \in Seq(Events)
    BY <2>4, ConcatProperties
  <2>6. RecoveryPlan(J) = T \o Closing(J)
    <3>1. (T \o CloseStep(J)) \o RollBackTurn(J) = T \o (CloseStep(J) \o RollBackTurn(J))
      BY SMTT(20), <2>2, <2>4, ConcatAssociative
    <3> DEFINE P == CloseStep(J) \o RollBackTurn(J)
    <3>2. (T \o P) \o CloseTurn(J) = T \o (P \o CloseTurn(J))
      <4> HIDE DEF P
      <4>1. P \in Seq(Events)
        BY <2>5 DEF P
      <4>2. QED  BY SMTT(20), <2>2, <2>4, <4>1, ConcatAssociative
    <3>3. QED  BY <2>3, <3>1, <3>2 DEF Closing
  <2>7. QED  BY Zenon, <2>1, <2>6 DEF Mends
<1>3. QED  BY <1>1, <1>2

-----------------------------------------------------------------------------
(* A script goes on, or fails.                                               *)

\* Wherever a script leads, its next event leaves the continuation covered.
LEMMA MeansOn ==
  ASSUME NEW J \in Journals, Continues(J), NEW r, NEW todo \in Seq(Events), todo # <<>>,
         NEW e \in Events, e = Head(todo), Accepts(J, e), NEW then \in Targets, Means(r, todo, then, J)
  PROVE  GetsOn(r, todo, then, J, e)
<1>1. CASE then \in {"budget", "open", "idle", "ended"}
  BY <1>1, GetsReady
<1>2. CASE then \in {"opened", "round", "after", "response", "answer", "complete", "committed"}
  BY <1>2, GetsOpened, GetsRound, GetsAfter, GetsResponse, GetsAnswered, GetsComplete, GetsCommitted
<1>3. CASE then \in {"request", "model", "dispatch", "spoken"}
  BY <1>3, GetsAsked, GetsSpoken
<1>4. CASE then = "terminated"
  BY <1>4, GetsTerminated
<1>5. CASE then \in {"mended", "import"}
  <2> DEFINE K == Advance(J, e)
  <2>1. Mends(todo, J)
    BY <1>5 DEF Means
  <2>2. K \in Journals
    BY Folds
  <2>3. EventContinues(J, e) /\ Mends(Tail(todo), K)
    BY <2>1, MendsOn
  <2> HIDE DEF K
  <2>4. Tail(todo) = <<>> => K.turn = None
    BY Zenon, <2>2, <2>3, MendsEnds
  <2>5. Tail(todo) = <<>> => Stands(r, then, K)
    BY <1>5, <2>4 DEF Stands
  <2>6. Means(r, Tail(todo), then, K)
    BY <1>5, <2>3 DEF Means
  <2>7. QED  BY <2>3, <2>5, <2>6 DEF GetsOn, K
<1>6. QED  BY <1>1, <1>2, <1>3, <1>4, <1>5 DEF Targets

\* What is caught when the rest of a script fails.
LEMMA CatchesOn ==
  ASSUME NEW r, NEW todo, NEW then, NEW onFail, NEW J, Means(r, todo, then, J),
         Catches(r, then, onFail, J), Tail(todo) # <<>>,
         NEW K, K.count = 2, Means(r, Tail(todo), then, K)
  PROVE  Catches(r, then, onFail, K)
<1>1. then \in Targets /\ (onFail = "unopened" => then \in {"idle", "import"})
      /\ (then \in {"mended", "import"} => onFail \notin {"catch", "finally"})
  BY DEF Catches
<1>2. then \notin {"idle", "ended"}
  BY Short DEF Means, Makes
<1>3. CASE then \in {"mended", "import"}
  BY <1>1, <1>3 DEF Catches
<1>4. CASE then \in {"budget", "open", "opened"}
  <2>1. Unstarted(r)
    BY <1>4 DEF Means
  <2>2. onFail # "finally" /\ Catching(r, K)
    BY <2>1 DEF Unstarted, Catches, Running, Catching
  <2>3. QED  BY <1>1, <1>4, <2>2 DEF Catches
<1>5. CASE then = "answer"
  <2>1. Calling(r, K)
    BY <1>5 DEF Means
  <2>2. onFail # "finally" /\ Catching(r, K)
    BY <2>1 DEF Calling, Catches, Running, Catching
  <2>3. QED  BY <1>1, <1>5, <2>2 DEF Catches
<1>6. CASE then \in {"round", "request", "model", "response", "dispatch", "spoken", "after",
                     "complete", "committed", "terminated"}
  <2>1. Running(r, K)
    BY <1>6 DEF Means
  <2>2. QED  BY <1>1, <1>6, <2>1 DEF Catches, Catching
<1>7. QED  BY <1>1, <1>2, <1>3, <1>4, <1>5, <1>6 DEF Targets

\* Operations that are alike in what a failure goes back to.
Alike(s, r) ==
  /\ s.started = r.started /\ s.recovering = r.recovering /\ s.checkpoint = r.checkpoint
  /\ s.before = r.before /\ s.adapterBefore = r.adapterBefore

\* They stand alike.
LEMMA AlikeFits ==
  ASSUME NEW s, NEW r, Alike(s, r), NEW J
  PROVE  /\ Unstarted(s) <=> Unstarted(r)
         /\ Running(s, J) <=> Running(r, J)
         /\ Calling(s, J) <=> Calling(r, J)
         /\ Fallback(s) = Fallback(r)
         /\ \A at : Stands(s, at, J) <=> Stands(r, at, J)
         /\ \A todo, then : Means(s, todo, then, J) <=> Means(r, todo, then, J)
         /\ \A then, onFail : Catches(s, then, onFail, J) <=> Catches(r, then, onFail, J)
<1>1. Fallback(s) = Fallback(r) /\ (Unstarted(s) <=> Unstarted(r))
  BY DEF Alike, Fallback, Began, Unstarted
<1>2. Holds(s, J) <=> Holds(r, J)
  BY <1>1 DEF Alike, Holds
<1>3. (Running(s, J) <=> Running(r, J)) /\ (Calling(s, J) <=> Calling(r, J))
  BY <1>1, <1>2 DEF Alike, Running, Calling
<1>4. Catching(s, J) <=> Catching(r, J)
  BY <1>3 DEF Alike, Catching
<1>5. s.before = r.before /\ s.adapterBefore = r.adapterBefore
  BY DEF Alike
<1>6. ASSUME NEW at PROVE Stands(s, at, J) <=> Stands(r, at, J)
  BY <1>1, <1>2, <1>3, <1>4, <1>5 DEF Stands
<1>7. ASSUME NEW todo, NEW then PROVE Means(s, todo, then, J) <=> Means(r, todo, then, J)
  BY <1>1, <1>3, <1>5 DEF Means
<1>8. ASSUME NEW then, NEW onFail
      PROVE  Catches(s, then, onFail, J) <=> Catches(r, then, onFail, J)
  BY <1>3, <1>4 DEF Catches
<1>9. QED  BY <1>1, <1>3, <1>6, <1>7, <1>8

\* Where a script begins, or ends.
Sets(r, events, then, onFail, J) ==
  IF events = <<>> THEN Stands(r, then, J)
  ELSE Means(r, events, then, J) /\ Catches(r, then, onFail, J)

\* What is asked where a script begins is asked of the operation that begins it.
LEMMA Scripted ==
  ASSUME NEW r \in Runs, NEW events, NEW then, NEW onFail, then # "script",
         NEW s, s = Script(r, events, then, onFail)
  PROVE  /\ Alike(s, r) /\ \A J : Sets(r, events, then, onFail, J) => PlaceFits(s, J)
         /\ IF events = <<>> THEN s.at = then ELSE s.at = "script" /\ s.onFail = onFail
<1>1. CASE events = <<>>
  <2>1. s = [r EXCEPT !.at = then]
    BY <1>1 DEF Script
  <2>2. Alike(s, r) /\ s.at = then
    BY <2>1 DEF Runs, Alike
  <2>3. \A J : Stands(r, then, J) => PlaceFits(s, J)
    BY <2>2, AlikeFits DEF PlaceFits
  <2>4. QED  BY <1>1, <2>2, <2>3 DEF Sets
<1>2. CASE events # <<>>
  <2>1. s = [r EXCEPT !.at = "script", !.todo = events, !.then = then, !.onFail = onFail]
    BY <1>2 DEF Script
  <2>2. Alike(s, r) /\ s.at = "script" /\ s.todo = events /\ s.then = then /\ s.onFail = onFail
    BY <2>1 DEF Runs, Alike
  <2>3. \A J : Means(r, events, then, J) /\ Catches(r, then, onFail, J) => PlaceFits(s, J)
    BY <2>2, AlikeFits DEF PlaceFits
  <2>4. QED  BY <1>2, <2>2, <2>3 DEF Sets
<1>3. QED  BY <1>1, <1>2

\* What the next event of a script may be, and what becomes of the continuation.
LEMMA NextEvent ==
  ASSUME TypeOK, Restoring, run.at = "script", kernel = disk, Accepts(disk, Head(run.todo))
  PROVE  /\ run \in Runs /\ disk \in Journals /\ Head(run.todo) \in Events
         /\ run.todo \in Seq(Events) /\ run.todo # <<>> /\ run.then # "script"
         /\ GetsOn(run, run.todo, run.then, disk, Head(run.todo))
         /\ EventContinues(disk, Head(run.todo)) /\ Continues(Advance(disk, Head(run.todo)))
         /\ Means(run, run.todo, run.then, disk) /\ Catches(run, run.then, run.onFail, disk)
<1> DEFINE e == Head(run.todo)
<1>1. run \in Runs /\ disk \in Journals /\ run.todo \in Seq(Events) /\ run.todo # <<>>
  BY RunFields DEF TypeOK
<1>2. e \in Events
  BY <1>1, HeadTailProperties
<1>3. /\ Continues(disk) /\ Means(run, run.todo, run.then, disk)
      /\ Catches(run, run.then, run.onFail, disk)
  BY DEF Restoring, PlaceFits
<1>4. run.then \in Targets /\ run.then # "script"
  BY <1>3 DEF Catches, Targets
<1>5. Accepts(disk, e)
  OBVIOUS
<1> HIDE DEF e
<1>6. GetsOn(run, run.todo, run.then, disk, e)
  BY <1>1, <1>2, <1>3, <1>4, <1>5, MeansOn DEF e
<1>7. EventContinues(disk, e)
  BY <1>6 DEF GetsOn
<1>8. Continues(Advance(disk, e))
  BY <1>1, <1>2, <1>3, <1>5, <1>7, StillContinues
<1>9. QED  BY <1>1, <1>2, <1>3, <1>4, <1>6, <1>7, <1>8 DEF e

\* The journal of a process that opens it recovers, event by event.
LEMMA OpeningOn ==
  ASSUME TypeOK, Restoring, run.at = "script", kernel = disk, Accepts(disk, Head(run.todo)),
         run.onFail = "unopened" \/ run.then = "import"
  PROVE  Recovers(Advance(disk, Head(run.todo)))
<1> DEFINE e == Head(run.todo)
           K == Advance(disk, e)
<1>1. /\ run \in Runs /\ disk \in Journals /\ e \in Events /\ run.todo \in Seq(Events) /\ run.todo # <<>>
      /\ Means(run, run.todo, run.then, disk) /\ Catches(run, run.then, run.onFail, disk)
      /\ Continues(disk)
  BY NextEvent DEF Restoring
<1>2. run.then \in {"idle", "import"}
  BY <1>1 DEF Catches
<1>3. CASE run.then = "import"
  <2>1. Mends(run.todo, disk)
    BY <1>1, <1>3 DEF Means
  <2>2. Mends(Tail(run.todo), K)
    BY <1>1, <2>1, MendsOn
  <2> HIDE DEF K
  <2>3. QED  BY Zenon, <2>2 DEF Mends, K
<1>4. CASE run.then = "idle"
  <2>1. Makes(run.todo, "history/replaced") /\ disk.count = 1
    BY <1>1, <1>4 DEF Means
  <2>2. e.type = "history/replaced" /\ disk.turn = None
    BY <1>1, <2>1, Short DEF Makes, Continues
  <2>3. K.turn = None
    BY <1>1, <2>2, TurnKeepsOn
  <2> HIDE DEF K
  <2>4. QED  BY <2>3 DEF Recovers, K
<1>5. QED  BY <1>2, <1>3, <1>4

\* An event of a script is appended, or its failure is caught.
LEMMA ScriptRestores ==
  ASSUME TypeOK, Restoring, ScriptStep
  PROVE  Restoring'
<1> DEFINE e == Head(run.todo)
           K == Advance(disk, e)
<1>1. run.at = "script" /\ run \in Runs /\ disk \in Journals /\ Continues(disk)
  BY DEF ScriptStep, TypeOK, Restoring
<1>2. "script" \notin Failures /\ run.onFail \in Failures
  BY <1>1, RunFields DEF Failures
<1>3. CASE Appended(e) /\ run' = Script(Rest(run), Tail(run.todo), run.then, run.onFail)
  <2>1. kernel = disk /\ Accepts(disk, e) /\ disk' = K /\ kernel' = K
    BY <1>3 DEF Appended
  <2>2. /\ e \in Events /\ run.then # "script" /\ Continues(K) /\ GetsOn(run, run.todo, run.then, disk, e)
        /\ Means(run, run.todo, run.then, disk) /\ Catches(run, run.then, run.onFail, disk)
    BY <1>1, <2>1, NextEvent
  <2>3. K.count = 2
    BY <1>1, <2>1, <2>2, Folds
  <2>a. IF Tail(run.todo) = <<>> THEN Stands(run, run.then, K) ELSE Means(run, Tail(run.todo), run.then, K)
    BY <2>2 DEF GetsOn
  <2>b. run.onFail = "unopened" \/ run.then = "import" => Recovers(K)
    BY <1>1, <2>1, OpeningOn
  <2> HIDE DEF K, e
  <2>4. Sets(run, Tail(run.todo), run.then, run.onFail, K)
    BY <2>2, <2>3, <2>a, CatchesOn DEF Sets
  <2>5. Rest(run) \in Runs /\ Alike(Rest(run), run)
    <3>1. "idle" \in Nexts /\ "idle" \in Failures /\ <<>> \in Seq(Events)
      BY Onward
    <3>2. QED  BY Zenon, <1>1, <3>1 DEF Rest, Runs, Alike
  <2>6. Sets(Rest(run), Tail(run.todo), run.then, run.onFail, K)
    BY Zenon, <2>4, <2>5, AlikeFits DEF Sets
  <2>7. /\ PlaceFits(run', K)
        /\ IF Tail(run.todo) = <<>> THEN run'.at = run.then
           ELSE run'.at = "script" /\ run'.onFail = run.onFail
    <3> DEFINE r == Rest(run)
               s == run'
               todo == Tail(run.todo)
    <3>1. r \in Runs /\ run.then # "script" /\ s = Script(r, todo, run.then, run.onFail)
      BY <1>3, <2>2, <2>5
    <3> HIDE DEF r, s, todo
    <3>2. /\ \A J : Sets(r, todo, run.then, run.onFail, J) => PlaceFits(s, J)
          /\ IF todo = <<>> THEN s.at = run.then ELSE s.at = "script" /\ s.onFail = run.onFail
      BY <3>1, Scripted
    <3>3. Sets(r, todo, run.then, run.onFail, K)
      BY <2>6 DEF r, todo
    <3>4. PlaceFits(s, K)
      BY <3>2, <3>3
    <3>5. QED  BY <3>2, <3>4 DEF s, todo
  <2>8. Opening(run') => Recovers(K)
    <3>1. run.then \in Targets
      BY <2>2 DEF Catches
    <3>2. QED  BY <2>7, <2>b, <3>1 DEF Opening, Targets
  <2>9. QED  BY <2>1, <2>2, <2>7, <2>8 DEF Restoring
<1>4. CASE AppendFails(e) /\ run' = [Rest(run) EXCEPT !.at = run.onFail]
  <2>1. run'.at = run.onFail /\ Alike(run', run)
    BY <1>1, <1>4 DEF Rest, Runs, Alike
  <2>2. ASSUME disk' = disk PROVE Restoring'
    <3>1. kernel' = kernel
      BY <1>4 DEF AppendFails
    <3>2. kernel = disk => PlaceFits(run', disk)
      <4> SUFFICES ASSUME kernel = disk PROVE PlaceFits(run', disk)
        OBVIOUS
      <4>1. Catches(run, run.then, run.onFail, disk)
        BY <1>1 DEF Restoring, PlaceFits
      <4>2. Stands(run, run.onFail, disk)
        BY <1>2, <4>1 DEF Stands, Catches, Failures
      <4>3. QED  BY <1>2, <2>1, <4>2, AlikeFits DEF PlaceFits
    <3>3. Opening(run') => Recovers(disk)
      BY <1>1, <1>2, <2>1 DEF Opening, Restoring, Failures
    <3>4. QED  BY <1>1, <2>2, <3>1, <3>2, <3>3 DEF Restoring
  <2>3. CASE disk' # disk
    <3>1. kernel' = kernel /\ kernel = disk /\ Accepts(disk, e) /\ disk' = K
      BY <1>4, <2>3 DEF AppendFails
    <3>2. Continues(K)
      BY <1>1, <3>1, NextEvent
    <3>3. run.onFail = "unopened" => Recovers(K)
      BY <1>1, <3>1, OpeningOn
    <3> HIDE DEF K
    <3>4. Opening(run') => Recovers(K)
      BY <1>2, <2>1, <3>3 DEF Opening, Failures
    <3>5. QED  BY <2>3, <3>1, <3>2, <3>4 DEF Restoring
  <2>4. QED  BY <2>2, <2>3
<1>5. QED  BY <1>3, <1>4 DEF ScriptStep

-----------------------------------------------------------------------------
(* The steps of an operation that append nothing.                            *)

\* Places at which a turn has nothing to lose.
Loose ==
  {"idle", "ended", "told", "done", "keep", "clear", "delete", "ingest", "destroy", "terminated",
   "mended", "committed"}
Entrances == {"script", "down", "unopened", "diverged", "import"}

\* Nothing is asked of an operation there.
LEMMA LooseStands ==
  ASSUME NEW r, NEW at \in Loose, NEW J
  PROVE  Stands(r, at, J)
BY DEF Stands, Loose

\* Where an operation stands that is about to take a step of its own.
LEMMA Here ==
  ASSUME TypeOK, Restoring, run.at # "script", run.at # "down"
  PROVE  /\ run \in Runs /\ disk \in Journals /\ kernel \in Journals /\ Continues(disk)
         /\ kernel = disk => Stands(run, run.at, disk)
BY DEF TypeOK, Restoring, PlaceFits

\* The operation goes on to another place.
LEMMA StandsOut ==
  ASSUME Restoring, UNCHANGED <<disk, kernel>>, run'.at \notin Entrances,
         kernel = disk => Stands(run', run'.at, disk)
  PROVE  Restoring'
<1>1. disk' = disk /\ kernel' = kernel /\ Continues(disk)
  BY DEF Restoring
<1>2. ~Opening(run')
  BY DEF Opening, Entrances
<1>3. kernel = disk => PlaceFits(run', disk)
  BY DEF PlaceFits, Entrances
<1>4. QED  BY <1>1, <1>2, <1>3 DEF Restoring

\* The operation goes on with events.
LEMMA SetsOut ==
  ASSUME Restoring, UNCHANGED <<disk, kernel>>, NEW r \in Runs, NEW events, NEW then, NEW onFail,
         then \notin Entrances, onFail # "unopened", run' = Script(r, events, then, onFail),
         kernel = disk => Sets(r, events, then, onFail, disk)
  PROVE  Restoring'
<1> DEFINE s == run'
<1>1. disk' = disk /\ kernel' = kernel /\ Continues(disk)
  BY DEF Restoring
<1>2. s = Script(r, events, then, onFail) /\ then # "script"
  BY DEF Entrances
<1> HIDE DEF s
<1>3. /\ \A J : Sets(r, events, then, onFail, J) => PlaceFits(s, J)
      /\ IF events = <<>> THEN s.at = then ELSE s.at = "script" /\ s.onFail = onFail
  BY <1>2, Scripted
<1>4. ~Opening(s)
  BY <1>3 DEF Opening, Entrances
<1>5. kernel = disk => PlaceFits(s, disk)
  BY <1>3
<1>6. QED  BY <1>1, <1>4, <1>5 DEF Restoring, s

\* The operation goes to a place and is otherwise as it was.
LEMMA GoesOut ==
  ASSUME Restoring, UNCHANGED <<disk, kernel>>, NEW r \in Runs, NEW at, at \notin Entrances,
         run' = [r EXCEPT !.at = at], kernel = disk => Stands(r, at, disk)
  PROVE  Restoring'
<1>1. run' = Script(r, <<>>, at, "idle")
  BY DEF Script
<1>2. kernel = disk => Sets(r, <<>>, at, "idle", disk)
  BY DEF Sets
<1>3. QED  BY <1>1, <1>2, SetsOut

\* It goes where nothing is asked of it.
LEMMA GoesLoose ==
  ASSUME Restoring, UNCHANGED <<disk, kernel>>, NEW r \in Runs, NEW at \in Loose,
         run' = [r EXCEPT !.at = at]
  PROVE  Restoring'
<1>1. at \notin Entrances
  BY DEF Loose, Entrances
<1>2. QED  BY <1>1, LooseStands, GoesOut

\* A single event, appended where the turn is.
LEMMA SetsOne ==
  ASSUME NEW r, NEW e, NEW then \in Targets \ {"mended", "import"}, NEW onFail \in {"catch", "ended"},
         NEW J, Means(r, <<e>>, then, J), onFail = "catch" => Catching(r, J)
  PROVE  Sets(r, <<e>>, then, onFail, J)
<1>1. <<e>> # <<>>
  OBVIOUS
<1>2. Catches(r, then, onFail, J)
  BY DEF Catches
<1>3. QED  BY <1>1, <1>2 DEF Sets

\* A thread is switched to, or the history shortened.
LEMMA SwitchThreadRestores ==
  ASSUME TypeOK, Restoring, SwitchThread
  PROVE  Restoring'
<1>1. run \in Runs /\ run.at = "switch" /\ UNCHANGED <<disk, kernel>>
  BY DEF TypeOK, SwitchThread
<1>2. kernel = disk => Unstarted(run)
  BY <1>1, Here DEF Stands
<1>3. CASE Goto("budget")
  <2>1. kernel = disk => Stands(run, "budget", disk)
    BY <1>2 DEF Stands
  <2>2. QED  BY <1>1, <1>3, <2>1, GoesOut DEF Goto, Entrances
<1>4. CASE Goto("ended")
  BY Zenon, <1>1, <1>4, GoesLoose DEF Goto, Loose
<1>5. CASE Do(<<Switched(run.to, MessagesOf(mem[run.to]))>>, "budget", "ended")
  <2> DEFINE e == Switched(run.to, MessagesOf(mem[run.to]))
  <2>1. e.type = "history/replaced" /\ e.clear
    BY DEF Switched, Replaced
  <2>2. run' = Script(run, <<e>>, "budget", "ended")
    BY <1>5 DEF Do
  <2> HIDE DEF e
  <2>3. ASSUME kernel = disk PROVE Sets(run, <<e>>, "budget", "ended", disk)
    <3>1. Means(run, <<e>>, "budget", disk)
      BY <1>2, <2>1, <2>3, Short DEF Means, Makes
    <3>2. QED  BY <3>1, SetsOne DEF Targets
  <2>4. QED  BY <1>1, <2>2, <2>3, SetsOut DEF Entrances
<1>6. QED  BY <1>3, <1>4, <1>5 DEF SwitchThread

\* The history is shortened to its budget.
LEMMA ApplyBudgetRestores ==
  ASSUME TypeOK, Restoring, ApplyBudget
  PROVE  Restoring'
<1>1. run \in Runs /\ run.at = "budget" /\ UNCHANGED <<disk, kernel>>
  BY DEF TypeOK, ApplyBudget, Others
<1>2. kernel = disk => Unstarted(run)
  BY <1>1, Here DEF Stands
<1>3. CASE Goto("open")
  <2>1. kernel = disk => Stands(run, "open", disk)
    BY <1>2 DEF Stands
  <2>2. QED  BY <1>1, <1>3, <2>1, GoesOut DEF Goto, Entrances
<1>4. CASE Do(<<Compacted(Retained(kernel.hist))>>, "open", "ended")
  <2> DEFINE e == Compacted(Retained(kernel.hist))
  <2>1. e.type = "history/replaced" /\ e.clear
    BY DEF Compacted, Replaced
  <2>2. run' = Script(run, <<e>>, "open", "ended")
    BY <1>4 DEF Do
  <2> HIDE DEF e
  <2>3. ASSUME kernel = disk PROVE Sets(run, <<e>>, "open", "ended", disk)
    <3>1. Means(run, <<e>>, "open", disk)
      BY <1>2, <2>1, <2>3, Short DEF Means, Makes
    <3>2. QED  BY <3>1, SetsOne DEF Targets
  <2>4. QED  BY <1>1, <2>2, <2>3, SetsOut DEF Entrances
<1>5. QED  BY <1>3, <1>4 DEF ApplyBudget

\* A turn is begun.
LEMMA OpenTheTurnRestores ==
  ASSUME TypeOK, Restoring, OpenTheTurn
  PROVE  Restoring'
<1> DEFINE r == [run EXCEPT !.before = kernel.hist, !.adapterBefore = kernel.adapter]
<1>1. run \in Runs /\ run.at = "open" /\ UNCHANGED <<disk, kernel>> /\ kernel \in Journals
  BY DEF TypeOK, OpenTheTurn, Others
<1>2. kernel = disk => Unstarted(run)
  BY <1>1, Here DEF Stands
<1>3. kernel.hist \in Histories /\ kernel.adapter \in Histories
  BY <1>1, JournalHistories
<1>4. /\ r \in Runs /\ r.before = kernel.hist /\ r.adapterBefore = kernel.adapter
      /\ (Unstarted(run) => Unstarted(r))
  BY Zenon, <1>1, <1>3 DEF Runs, Unstarted
<1>5. run' = Script(r, <<TurnStarted>>, "opened", "catch")
  BY DEF OpenTheTurn
<1> HIDE DEF r
<1>6. ASSUME kernel = disk PROVE Sets(r, <<TurnStarted>>, "opened", "catch", disk)
  <2>1. TurnStarted.type = "turn/started"
    BY DEF TurnStarted
  <2>2. Unstarted(r)
    BY <1>2, <1>4, <1>6
  <2>3. Means(r, <<TurnStarted>>, "opened", disk)
    BY <1>4, <1>6, <2>1, <2>2, Short DEF Means, Makes
  <2>4. Catching(r, disk)
    BY <2>2 DEF Unstarted, Catching
  <2>5. QED  BY <2>3, <2>4, SetsOne DEF Targets
<1>7. QED  BY <1>1, <1>4, <1>5, <1>6, SetsOut DEF Entrances

\* The user's message is the first of the turn.
LEMMA TheUserSaysRestores ==
  ASSUME TypeOK, Restoring, TheUserSays
  PROVE  Restoring'
<1> DEFINE r == [run EXCEPT !.started = TRUE]
           e == Message(User(left.ops + 1))
<1>1. run \in Runs /\ run.at = "opened" /\ UNCHANGED <<disk, kernel>>
  BY DEF TypeOK, TheUserSays, Others
<1>2. kernel = disk =>
        /\ Unstarted(run) /\ Holds(run, disk) /\ Between(disk)
        /\ Told(disk.hist) \subseteq Told(run.before)
  BY <1>1, Here DEF Stands
<1>3. /\ r \in Runs /\ r.started /\ r.recovering = run.recovering /\ r.checkpoint = run.checkpoint
      /\ r.before = run.before /\ r.adapterBefore = run.adapterBefore
  BY Zenon, <1>1 DEF Runs
<1>4. run' = Script(r, <<e>>, "round", "catch")
  BY DEF TheUserSays
<1>5. e.type = "message/appended" /\ e.message.role = "user"
  BY DEF Message, User
<1> HIDE DEF r, e
<1>6. ASSUME kernel = disk PROVE Sets(r, <<e>>, "round", "catch", disk)
  <2>1. Fallback(r) = Began(r) /\ Fallback(run) = Fallback(r) /\ Began(r).hist = r.before
    BY <1>2, <1>3, <1>6 DEF Fallback, Unstarted, Began
  <2>2. Running(r, disk)
    BY <1>2, <1>3, <1>6, <2>1 DEF Running, Holds, Unstarted
  <2>3. Outside(e)
    BY <1>5 DEF Outside
  <2>4. Means(r, <<e>>, "round", disk)
    BY <1>2, <1>6, <2>2, <2>3, Short DEF Means
  <2>5. QED  BY <2>2, <2>4, SetsOne DEF Targets, Catching
<1>7. QED  BY <1>1, <1>3, <1>4, <1>6, SetsOut DEF Entrances

\* A step is opened.
LEMMA NextRoundRestores ==
  ASSUME TypeOK, Restoring, NextRound
  PROVE  Restoring'
<1>1. run \in Runs /\ run.at = "round" /\ UNCHANGED <<disk, kernel>>
  BY DEF TypeOK, NextRound, Others
<1>2. kernel = disk => Running(run, disk) /\ Between(disk)
  BY <1>1, Here DEF Stands
<1>3. CASE Aborted
  <2>1. kernel = disk => Stands(run, "catch", disk)
    BY <1>2 DEF Stands, Catching
  <2>2. QED  BY <1>1, <1>3, <2>1, GoesOut DEF Aborted, Goto, Entrances
<1>4. CASE Goto("after")
  <2>1. kernel = disk => Stands(run, "after", disk)
    BY <1>2 DEF Stands
  <2>2. QED  BY <1>1, <1>4, <2>1, GoesOut DEF Goto, Entrances
<1>5. CASE run' = Script([run EXCEPT !.rounds = @ + 1], <<StepStarted>>, "request", "catch")
  <2> DEFINE r == [run EXCEPT !.rounds = @ + 1]
  <2>0. run.rounds + 1 \in Int
    BY <1>1, RunFields
  <2>1. r \in Runs /\ Alike(r, run)
    BY Zenon, <1>1, <2>0 DEF Runs, Alike
  <2>2. run' = Script(r, <<StepStarted>>, "request", "catch")
    BY <1>5
  <2> HIDE DEF r
  <2>3. ASSUME kernel = disk PROVE Sets(r, <<StepStarted>>, "request", "catch", disk)
    <3>1. Running(r, disk)
      BY <1>2, <2>1, <2>3, AlikeFits
    <3>2. StepStarted.type = "step/started"
      BY DEF StepStarted
    <3>3. Means(r, <<StepStarted>>, "request", disk)
      BY <1>2, <2>3, <3>1, <3>2, Short DEF Means, Makes
    <3>4. QED  BY <3>1, <3>3, SetsOne DEF Targets, Catching
  <2>4. QED  BY <1>1, <2>1, <2>2, <2>3, SetsOut DEF Entrances
<1>6. QED  BY <1>3, <1>4, <1>5 DEF NextRound

\* The history is prepared for the model.
LEMMA PrepareRequestRestores ==
  ASSUME TypeOK, Restoring, PrepareRequest
  PROVE  Restoring'
<1>1. run \in Runs /\ run.at = "request" /\ UNCHANGED <<disk, kernel>>
  BY DEF TypeOK, PrepareRequest, Others
<1>2. kernel = disk => Running(run, disk)
  BY <1>1, Here DEF Stands
<1>3. CASE Goto("catch")
  <2>1. kernel = disk => Stands(run, "catch", disk)
    BY <1>2 DEF Stands, Catching
  <2>2. QED  BY <1>1, <1>3, <2>1, GoesOut DEF Goto, Entrances
<1>4. CASE Do(<<Request(kernel.hist)>>, "model", "catch")
  <2> DEFINE e == Request(kernel.hist)
  <2>1. e.type = "model/request-prepared"
    BY DEF Request
  <2>2. run' = Script(run, <<e>>, "model", "catch")
    BY <1>4 DEF Do
  <2> HIDE DEF e
  <2>3. ASSUME kernel = disk PROVE Sets(run, <<e>>, "model", "catch", disk)
    <3>1. Means(run, <<e>>, "model", disk)
      BY <1>2, <2>1, <2>3, Short DEF Means, Makes
    <3>2. QED  BY <1>2, <2>3, <3>1, SetsOne DEF Targets, Catching
  <2>4. QED  BY <1>1, <2>2, <2>3, SetsOut DEF Entrances
<1>5. QED  BY <1>3, <1>4 DEF PrepareRequest

\* The model has answered; its continuation covers the request and the answer.
LEMMA RespondRestores ==
  ASSUME TypeOK, Restoring, run.at = "model", UNCHANGED <<disk, kernel>>,
         NEW m \in Messages \cup {None}, Respond(m), m = None \/ m.calls \in Seq(Calls)
  PROVE  Restoring'
<1>1. run \in Runs
  BY DEF TypeOK
<1>2. kernel = disk => Running(run, disk) /\ Awaits(disk, "request")
  BY Here DEF Stands
<1> DEFINE r == [run EXCEPT !.batch = IF m = None THEN <<>> ELSE m.calls, !.answered = (m = Answer)]
<1>3. PICK state \in {kernel.adapter, kernel.hist \o (IF m = None THEN <<>> ELSE <<m>>)} :
        run' = Script(r, <<Response(m)>> \o (IF state = kernel.adapter THEN <<>> ELSE <<Adapter(state)>>),
                      "response", "catch")
  BY Zenon DEF Respond
<1> DEFINE update == IF state = kernel.adapter THEN <<>> ELSE <<Adapter(state)>>
           events == <<Response(m)>> \o update
<1>4. r \in Runs /\ Alike(r, run)
  <2>1. (IF m = None THEN <<>> ELSE m.calls) \in Seq(Calls)
    OBVIOUS
  <2>2. (m = Answer) \in BOOLEAN
    OBVIOUS
  <2>3. QED  BY Zenon, <1>1, <2>1, <2>2 DEF Runs, Alike
<1>5. run' = Script(r, events, "response", "catch")
  BY <1>3
<1> HIDE DEF r
<1>6. ASSUME kernel = disk PROVE Sets(r, events, "response", "catch", disk)
  <2>1. Running(r, disk) /\ Awaits(disk, "request")
    BY <1>2, <1>4, <1>6, AlikeFits
  <2>2. Catches(r, "response", "catch", disk)
    BY <2>1 DEF Catches, Targets, Catching
  <2>3. Means(r, events, "response", disk) /\ events # <<>>
    <3>1. CASE state = kernel.adapter
      <4>1. events = <<Response(m)>>
        BY <3>1
      <4>2. Response(m).type = "model/response-received"
        BY DEF Response
      <4> HIDE DEF events, update
      <4>3. Makes(events, "model/response-received")
        BY <4>1, <4>2, Short DEF Makes
      <4>4. QED  BY <2>1, <4>1, <4>3 DEF Means
    <3>2. CASE state # kernel.adapter
      <4>a. ASSUME NEW a, NEW b
            PROVE  <<a>> \o <<b>> = <<a, b>> /\ <<a, b>>[1] = a /\ <<a, b>>[2] = b
        <5>1. <<a>> \in Seq({a, b}) /\ b \in {a, b} /\ <<a, b>>[1] = a /\ <<a, b>>[2] = b
          OBVIOUS
        <5>2. <<a>> \o <<b>> = Append(<<a>>, b)
          BY <5>1, AppendIsConcat
        <5>3. QED  BY Zenon, <5>1, <5>2, Paired
      <4>1. events = <<Response(m)>> \o <<Adapter(state)>>
        BY <3>2
      <4> HIDE DEF events, update
      <4>2. events = <<Response(m), Adapter(state)>>
        BY <4>1, <4>a
      <4>3. events[1].message = m /\ events[2].state = state
        <5>1. events[1] = Response(m) /\ events[2] = Adapter(state)
          BY <4>2, <4>a
        <5>2. Response(m).message = m /\ Adapter(state).state = state
          BY DEF Response, Adapter
        <5>3. QED  BY <5>1, <5>2
      <4>4. IsPrefix(state, disk.hist \o Said(m))
        <5>1. state = disk.hist \o Said(m)
          BY Zenon, <1>6, <3>2 DEF Said
        <5>2. disk.hist \in Seq(Messages) /\ Said(m) \in Seq(Messages)
          <6>1. disk.hist \in Histories
            BY JournalHistories DEF TypeOK
          <6>2. QED  BY <6>1 DEF Histories, Said
        <5>3. state \in Seq(Messages)
          BY <5>1, <5>2, ConcatProperties
        <5>4. IsPrefix(state, state)
          BY <5>3, PrefixIs
        <5>5. QED  BY <5>1, <5>4
      <4>5. QED  BY <2>1, <4>2, <4>3, <4>4 DEF Means
    <3>3. QED  BY <3>1, <3>2
  <2>4. QED  BY <2>2, <2>3 DEF Sets
<1> HIDE DEF events, update
<1>7. QED  BY <1>4, <1>5, <1>6, SetsOut DEF Entrances

\* The model answers, throws or is aborted.
LEMMA ModelAnswersRestores ==
  ASSUME TypeOK, Restoring, ModelAnswers
  PROVE  Restoring'
<1>1. run \in Runs /\ run.at = "model" /\ UNCHANGED <<disk, kernel>>
  BY DEF TypeOK, ModelAnswers
<1>2. CASE Goto("catch")
  <2>1. kernel = disk => Stands(run, "catch", disk)
    BY <1>1, Here DEF Stands, Catching
  <2>2. QED  BY <1>1, <1>2, <2>1, GoesOut DEF Goto, Entrances
<1>3. CASE \E m \in {Answer, None} : Respond(m)
  <2>1. Answer \in Messages /\ Answer.calls \in Seq(Calls)
    BY DEF Answer, Asks, Messages
  <2>2. QED  BY <1>1, <1>3, <2>1, RespondRestores
<1>4. CASE \E b \in Batches : Respond(Asks(b))
  <2>1. PICK b \in Batches : Respond(Asks(b))
    BY <1>4
  <2>2. left.calls \in Seq(Calls)
    BY DEF TypeOK, Lefts
  <2>3. PICK n \in 1..Len(left.calls) : b = SubSeq(left.calls, 1, n)
    BY <2>1 DEF Batches
  <2>4. b \in Seq(Calls)
    BY <2>2, <2>3
  <2>5. Asks(b) \in Messages /\ Asks(b).calls \in Seq(Calls)
    BY <2>4 DEF Asks, Messages
  <2>6. QED  BY <1>1, <2>1, <2>5, RespondRestores
<1>5. QED  BY <1>2, <1>3, <1>4 DEF ModelAnswers

\* The answer is read and said, or the round that has none is closed.
LEMMA ReadResponseRestores ==
  ASSUME TypeOK, Restoring, ReadResponse
  PROVE  Restoring'
<1>1. run \in Runs /\ run.at = "response" /\ UNCHANGED <<disk, kernel>>
  BY DEF TypeOK, ReadResponse, Others
<1>2. kernel = disk => Running(run, disk) /\ Awaits(disk, "response")
  BY <1>1, Here DEF Stands
<1>3. CASE Aborted \/ Closed
  <2>1. kernel = disk => Stands(run, "catch", disk) /\ Stands(run, "close", disk)
    BY <1>2 DEF Stands, Catching
  <2>2. QED  BY <1>1, <1>3, <2>1, GoesOut DEF Aborted, Closed, Goto, Entrances
<1>4. ASSUME NEW calls, NEW then \in {"dispatch", "spoken"}, Do(<<Message(Asks(calls))>>, then, "catch")
      PROVE  Restoring'
  <2> DEFINE e == Message(Asks(calls))
  <2>1. e.type = "message/appended" /\ e.message.role = "assistant"
    BY DEF Message, Asks
  <2>2. run' = Script(run, <<e>>, then, "catch") /\ then \notin Entrances
    BY <1>4 DEF Do, Entrances
  <2> HIDE DEF e
  <2>3. ASSUME kernel = disk PROVE Sets(run, <<e>>, then, "catch", disk)
    <3>1. Means(run, <<e>>, then, disk)
      BY <1>2, <2>1, <2>3, Short DEF Means, Makes
    <3>2. QED  BY Zenon, <1>2, <2>3, <3>1, SetsOne DEF Targets, Catching
  <2>4. QED  BY <1>1, <2>2, <2>3, SetsOut
<1>5. CASE Do(<<Adapter(kernel.step.adapterBefore), StepCompleted("completed")>>, "after", "catch")
  <2> DEFINE events == <<Adapter(kernel.step.adapterBefore), StepCompleted("completed")>>
  <2>1. run' = Script(run, events, "after", "catch")
    BY <1>5 DEF Do
  <2>2. ASSUME kernel = disk PROVE Sets(run, events, "after", "catch", disk)
    <3>1. Running(run, disk) /\ Awaits(disk, "response")
      BY <1>2, <2>2
    <3>2. Means(run, events, "after", disk)
      BY <2>2, <3>1 DEF Means
    <3>3. Catches(run, "after", "catch", disk)
      BY <3>1 DEF Catches, Targets, Catching
    <3>4. QED  BY <3>2, <3>3 DEF Sets
  <2> HIDE DEF events
  <2>3. QED  BY <1>1, <2>1, <2>2, SetsOut DEF Entrances
<1>6. QED
  <2>1. CASE run.batch # <<>> /\ (Closed \/ Do(<<Message(Asks(run.batch))>>, "dispatch", "catch"))
    BY <1>3, <1>4, <2>1
  <2>2. CASE run.answered /\ Do(<<Message(Answer)>>, "spoken", "catch")
    BY <1>4, <2>2 DEF Answer
  <2>3. QED  BY <1>3, <1>5, <2>1, <2>2 DEF ReadResponse

\* A step that is over is closed.
LEMMA StepClosed ==
  ASSUME NEW r, NEW J, Running(r, J), NEW then \in {"round", "after"}, then = "round" => Echoed(J)
  PROVE  Sets(r, <<StepCompleted("completed")>>, then, "catch", J)
<1>1. Passes(<<StepCompleted("completed")>>)
  BY DEF Passes
<1>2. Means(r, <<StepCompleted("completed")>>, then, J)
  BY <1>1 DEF Means
<1>3. QED  BY Zenon, <1>2, SetsOne DEF Targets, Catching

\* The answer has been said.
LEMMA SpokenRestores ==
  ASSUME TypeOK, Restoring, Spoken
  PROVE  Restoring'
<1>1. run \in Runs /\ run.at = "spoken" /\ UNCHANGED <<disk, kernel>>
  BY DEF TypeOK, Spoken, Others
<1>2. kernel = disk => Running(run, disk) /\ Echoed(disk)
  BY <1>1, Here DEF Stands
<1>3. CASE Aborted \/ Closed
  <2>1. kernel = disk => Stands(run, "catch", disk) /\ Stands(run, "close", disk)
    BY <1>2 DEF Stands, Catching
  <2>2. QED  BY <1>1, <1>3, <2>1, GoesOut DEF Aborted, Closed, Goto, Entrances
<1>4. CASE Do(<<StepCompleted("completed")>>, "after", "catch")
  <2>1. kernel = disk => Sets(run, <<StepCompleted("completed")>>, "after", "catch", disk)
    BY <1>2, StepClosed
  <2>2. QED  BY <1>1, <1>4, <2>1, SetsOut DEF Do, Entrances
<1>5. QED  BY <1>3, <1>4 DEF Spoken

\* The calls of a round are dispatched: from here on a failure mends.
LEMMA DispatchRestores ==
  ASSUME TypeOK, Restoring, Dispatch
  PROVE  Restoring'
<1>1. run \in Runs /\ run.at = "dispatch" /\ UNCHANGED <<disk, kernel>>
  BY DEF TypeOK, Dispatch, Others
<1>2. kernel = disk => Running(run, disk) /\ Echoed(disk)
  BY <1>1, Here DEF Stands
<1>3. /\ run'.at = "batch" /\ run'.recovering /\ run'.started = run.started
      /\ run'.before = run.before /\ run'.adapterBefore = run.adapterBefore
      /\ run'.checkpoint = run.checkpoint
  BY <1>1 DEF Dispatch, Runs
<1>4. ASSUME kernel = disk PROVE Stands(run', "batch", disk)
  <2>1. Fallback(run') = Fallback(run)
    BY <1>3 DEF Fallback, Began
  <2>2. Calling(run', disk)
    BY <1>2, <1>3, <1>4, <2>1 DEF Running, Calling, Holds
  <2>3. QED  BY <2>2 DEF Stands
<1>5. QED  BY <1>1, <1>3, <1>4, StandsOut DEF Entrances

\* Every call of the round has ended, and the model is told of each.
LEMMA BatchSettledRestores ==
  ASSUME TypeOK, Restoring, BatchSettled
  PROVE  Restoring'
<1>1. run \in Runs /\ run.at = "batch" /\ UNCHANGED <<disk, kernel>>
  BY DEF TypeOK, BatchSettled, Others
<1>2. kernel = disk => Calling(run, disk)
  BY <1>1, Here DEF Stands
<1>3. CASE Goto("catch")
  <2>1. kernel = disk => Stands(run, "catch", disk)
    BY <1>2 DEF Stands, Catching
  <2>2. QED  BY <1>1, <1>3, <2>1, GoesOut DEF Goto, Entrances
<1> DEFINE events == [i \in DOMAIN run.batch |->
                        Message(Receipt(run.batch[i], Says(kernel, run.batch[i])))]
<1>4. CASE Do(events, "answer", "catch")
  <2>1. \A i \in DOMAIN events : Receives(events[i])
    <3>1. ASSUME NEW c, NEW w PROVE Receives(Message(Receipt(c, w)))
      BY DEF Receives, Message, Receipt
    <3>2. QED  BY <3>1
  <2>2. run' = Script(run, events, "answer", "catch")
    BY <1>4 DEF Do
  <2> HIDE DEF events
  <2>3. ASSUME kernel = disk PROVE Sets(run, events, "answer", "catch", disk)
    <3>1. Calling(run, disk)
      BY <1>2, <2>3
    <3>2. Stands(run, "answer", disk) /\ Means(run, events, "answer", disk)
      BY <2>1, <3>1 DEF Stands, Means
    <3>3. Catches(run, "answer", "catch", disk)
      BY <3>1 DEF Catches, Targets, Catching
    <3>4. QED  BY <3>2, <3>3 DEF Sets
  <2>4. QED  BY <1>1, <2>2, <2>3, SetsOut DEF Entrances
<1>5. QED  BY <1>3, <1>4 DEF BatchSettled

\* A round whose calls are all answered is kept whatever comes.
LEMMA CheckpointRestores ==
  ASSUME TypeOK, Restoring, Checkpoint
  PROVE  Restoring'
<1>1. run \in Runs /\ run.at = "answer" /\ UNCHANGED <<disk, kernel>> /\ kernel \in Journals
  BY DEF TypeOK, Checkpoint, Others
<1>2. kernel = disk => Calling(run, disk) /\ Continues(disk)
  BY <1>1, Here DEF Stands
<1> DEFINE kept == [hist |-> kernel.hist, adapter |-> kernel.adapter]
<1>3. /\ run'.at = "answered" /\ ~run'.recovering /\ run'.started = run.started
      /\ run'.before = run.before /\ run'.adapterBefore = run.adapterBefore
      /\ run'.checkpoint = kept
  BY <1>1 DEF Checkpoint, Runs
<1>4. kept # None
  <2>1. kept \in Checkpoints
    BY <1>1, JournalHistories DEF Checkpoints
  <2>2. QED  BY <2>1, NoneAssumption
<1>5. ASSUME kernel = disk PROVE Stands(run', "answered", disk)
  <2>1. Fallback(run') = kept /\ kept.hist = disk.hist /\ kept.adapter = disk.adapter
    BY <1>3, <1>4, <1>5 DEF Fallback
  <2>2. Echoed(disk) /\ run.started /\ Holds(run, disk)
    BY <1>2, <1>5 DEF Calling
  <2>3. Covered(disk)
    BY <1>2, <1>5, <2>2 DEF Continues, StepContinues, Echoed
  <2>4. Running(run', disk)
    BY <1>3, <2>1, <2>2, <2>3 DEF Running, Holds, Covered
  <2>5. QED  BY <2>2, <2>4 DEF Stands
<1>6. QED  BY <1>1, <1>3, <1>5, StandsOut DEF Entrances

\* The round is over, or its consumer has left.
LEMMA RoundDoneRestores ==
  ASSUME TypeOK, Restoring, RoundDone
  PROVE  Restoring'
<1>1. run \in Runs /\ run.at = "answered" /\ UNCHANGED <<disk, kernel>>
  BY DEF TypeOK, RoundDone, Others
<1>2. kernel = disk => Running(run, disk) /\ Echoed(disk)
  BY <1>1, Here DEF Stands
<1>3. CASE Aborted \/ Closed
  <2>1. kernel = disk => Stands(run, "catch", disk) /\ Stands(run, "close", disk)
    BY <1>2 DEF Stands, Catching
  <2>2. QED  BY <1>1, <1>3, <2>1, GoesOut DEF Aborted, Closed, Goto, Entrances
<1>4. CASE Do(<<StepCompleted("completed")>>, "round", "catch")
  <2>1. kernel = disk => Sets(run, <<StepCompleted("completed")>>, "round", "catch", disk)
    BY <1>2, StepClosed
  <2>2. QED  BY <1>1, <1>4, <2>1, SetsOut DEF Do, Entrances
<1>5. QED  BY <1>3, <1>4 DEF RoundDone

\* What a turn goes back to is put back whole.
LEMMA PutsWhole ==
  ASSUME NEW r, NEW J, r.checkpoint = None
  PROVE  PutsBack(<<Replaced(r.before, "turn_without_assistant_rolled_back"), Adapter(r.adapterBefore)>>,
                  J, Fallback(r), <<>>)
<1> DEFINE a == Replaced(r.before, "turn_without_assistant_rolled_back")
           b == Adapter(r.adapterBefore)
<1>1. Fallback(r).hist = r.before /\ Fallback(r).adapter = r.adapterBefore
  BY DEF Fallback, Began
<1>2. "turn_without_assistant_rolled_back" \in Reasons
  BY DEF Reasons
<1>3. <<a, b>> \o <<>> = <<a, b>>
  <2>1. <<a, b>> \in Seq({a, b})
    OBVIOUS
  <2>2. QED  BY <2>1, ConcatEmptySeq
<1>4. QED  BY <1>1, <1>2, <1>3 DEF PutsBack

\* An event before three.
LEMMA Before ==
  ASSUME NEW s, NEW a, NEW b, NEW c
  PROVE  <<s>> \o <<a, b, c>> = <<s, a, b, c>>
<1> DEFINE S == {s, a, b, c}
           x == <<s>> \o <<a, b, c>>
           y == <<s, a, b, c>>
<1>1. /\ <<s>> \in Seq(S) /\ Len(<<s>>) = 1 /\ <<s>>[1] = s
      /\ <<a, b, c>> \in Seq(S) /\ Len(<<a, b, c>>) = 3
      /\ <<a, b, c>>[1] = a /\ <<a, b, c>>[2] = b /\ <<a, b, c>>[3] = c
  OBVIOUS
<1>2. /\ y \in Seq(S) /\ Len(y) = 4 /\ y[1] = s /\ y[2] = a /\ y[3] = b /\ y[4] = c
  OBVIOUS
<1> HIDE DEF S, y
<1>3. /\ x \in Seq(S) /\ Len(x) = 1 + 3
      /\ \A i \in 1..(1 + 3) : x[i] = IF i <= 1 THEN <<s>>[i] ELSE <<a, b, c>>[i - 1]
  BY <1>1, ConcatProperties
<1> HIDE DEF x
<1>4. \A i \in 1..4 : x[i] = y[i]
  BY <1>1, <1>2, <1>3
<1>5. x = y
  BY <1>2, <1>3, <1>4, SeqEqual
<1>6. QED  BY <1>5 DEF x, y

\* What terminateTurn appends puts back what the turn may keep.
LEMMA TerminatesWhole ==
  ASSUME NEW o \in {"failed", "interrupted"}, NEW J, kernel = J
  PROVE  Terminates(Terminate(o), J, Fallback(run))
<1> DEFINE kept == Fallback(run)
           reason == IF run.checkpoint = None THEN "turn_failed" ELSE "turn_failed_partial_effects"
           a == Replaced(kept.hist, reason)
           b == Adapter(kept.adapter)
           c == TurnEnded(o)
<1>1. Terminate(o) = (IF kernel.step = None THEN <<>> ELSE <<StepCompleted(o)>>) \o <<a, b, c>>
  <2>1. /\ kept.hist = IF run.checkpoint = None THEN run.before ELSE run.checkpoint.hist
        /\ kept.adapter = IF run.checkpoint = None THEN run.adapterBefore ELSE run.checkpoint.adapter
    BY DEF Fallback, Began
  <2>2. QED  BY <2>1 DEF Terminate
<1>2. reason \in Reasons
  BY DEF Reasons
<1> HIDE DEF a, b, c, reason, kept
<1>3. <<a, b, c>> = <<a, b>> \o <<c>>
  BY Joined
<1>4. CASE kernel.step = None
  <2>1. <<>> \o <<a, b, c>> = <<a, b, c>>
    <3>1. <<a, b, c>> \in Seq({a, b, c})
      OBVIOUS
    <3>2. QED  BY <3>1, ConcatEmptySeq
  <2>2. Terminate(o) = <<a, b>> \o <<c>>
    BY <1>1, <1>3, <1>4, <2>1
  <2>3. PutsBack(Terminate(o), J, kept, <<c>>)
    BY <1>2, <2>2 DEF PutsBack, a, b
  <2>4. QED  BY <2>3 DEF Terminates, kept, c
<1>5. CASE kernel.step # None
  <2> DEFINE s == StepCompleted(o)
  <2>1. <<s>> \o <<a, b, c>> = <<s, a, b, c>>
    <3> HIDE DEF s
    <3> QED  BY Zenon, Before
  <2>2. Terminate(o) = <<s, a, b, c>>
    BY <1>1, <1>5, <2>1
  <2>3. QED  BY <1>2, <2>2 DEF Terminates, a, b, c, kept
<1>6. QED  BY <1>4, <1>5

\* A turn that is terminated.
LEMMA SetsTerminate ==
  ASSUME kernel = disk, Running(run, disk), NEW o \in {"failed", "interrupted"},
         NEW onFail \in {"finally", "told", "ended"}
  PROVE  Sets(run, Terminate(o), "terminated", onFail, disk)
<1> DEFINE events == Terminate(o)
<1>1. Terminates(events, disk, Fallback(run))
  BY TerminatesWhole
<1> HIDE DEF events
<1>2. Means(run, events, "terminated", disk)
  BY <1>1 DEF Means
<1>3. Catches(run, "terminated", onFail, disk)
  BY DEF Catches, Targets
<1>4. Stands(run, "terminated", disk)
  BY DEF Stands
<1>5. QED  BY <1>2, <1>3, <1>4 DEF Sets, events

\* A turn without an answer is rolled back.
LEMMA ConcludeRestores ==
  ASSUME TypeOK, Restoring, Conclude
  PROVE  Restoring'
<1>1. run \in Runs /\ run.at = "after" /\ UNCHANGED <<disk, kernel>>
  BY DEF TypeOK, Conclude, Others
<1>2. kernel = disk => Running(run, disk) /\ Between(disk) /\ Continues(disk)
  BY <1>1, Here DEF Stands
<1>3. CASE Aborted \/ Closed
  <2>1. kernel = disk => Stands(run, "catch", disk) /\ Stands(run, "close", disk)
    BY <1>2 DEF Stands, Catching
  <2>2. QED  BY <1>1, <1>3, <2>1, GoesOut DEF Aborted, Closed, Goto, Entrances
<1>4. CASE Goto("complete")
  <2>1. kernel = disk => Stands(run, "complete", disk)
    BY <1>2 DEF Stands, Between, Continues
  <2>2. QED  BY <1>1, <1>4, <2>1, GoesOut DEF Goto, Entrances
<1> DEFINE events == <<Replaced(run.before, "turn_without_assistant_rolled_back"),
                       Adapter(run.adapterBefore)>>
<1>5. CASE run.checkpoint = None /\ Do(events, "complete", "catch")
  <2>1. \A J : PutsBack(events, J, Fallback(run), <<>>)
    BY <1>5, PutsWhole
  <2>2. events # <<>> /\ run' = Script(run, events, "complete", "catch")
    BY <1>5 DEF Do
  <2> HIDE DEF events
  <2>3. ASSUME kernel = disk PROVE Sets(run, events, "complete", "catch", disk)
    <3>1. Means(run, events, "complete", disk)
      BY <1>2, <2>1, <2>3 DEF Means
    <3>2. Catches(run, "complete", "catch", disk)
      BY <1>2, <2>3 DEF Catches, Targets, Catching
    <3>3. QED  BY <2>2, <3>1, <3>2 DEF Sets
  <2>4. QED  BY <1>1, <2>2, <2>3, SetsOut DEF Entrances
<1>6. QED  BY <1>3, <1>4, <1>5 DEF Conclude

\* The turn is ended.
LEMMA CompleteRestores ==
  ASSUME TypeOK, Restoring, Complete
  PROVE  Restoring'
<1>1. run \in Runs /\ run.at = "complete" /\ UNCHANGED <<disk, kernel>>
  BY DEF TypeOK, Complete, Others
<1>2. kernel = disk => Running(run, disk) /\ Covered(disk)
  BY <1>1, Here DEF Stands
<1>3. CASE Aborted
  <2>1. kernel = disk => Stands(run, "catch", disk)
    BY <1>2 DEF Stands, Catching
  <2>2. QED  BY <1>1, <1>3, <2>1, GoesOut DEF Aborted, Goto, Entrances
<1>4. CASE Do(<<TurnEnded("completed")>>, "committed", "catch")
  <2> DEFINE e == TurnEnded("completed")
  <2>1. e.type = "turn/ended"
    BY DEF TurnEnded
  <2>2. run' = Script(run, <<e>>, "committed", "catch")
    BY <1>4 DEF Do
  <2> HIDE DEF e
  <2>3. ASSUME kernel = disk PROVE Sets(run, <<e>>, "committed", "catch", disk)
    <3>1. Means(run, <<e>>, "committed", disk)
      BY <1>2, <2>1, <2>3, Short DEF Means, Makes
    <3>2. QED  BY Zenon, <1>2, <2>3, <3>1, SetsOne DEF Targets, Catching
  <2>4. QED  BY <1>1, <2>2, <2>3, SetsOut DEF Entrances
<1>5. QED  BY <1>3, <1>4 DEF Complete

\* A turn is over: nothing is asked of what is left of it.
LEMMA OverRestores ==
  ASSUME TypeOK, Restoring, Committed \/ Mended \/ Terminated \/ Return
  PROVE  Restoring'
<1>1. run \in Runs /\ UNCHANGED <<disk, kernel>>
  BY DEF TypeOK, Committed, Mended, Terminated, Return, Others
<1>2. run'.at \in {"done", "told", "idle"}
  <2>1. CASE Committed
    BY <1>1, <2>1 DEF Committed, Runs
  <2>2. CASE Mended
    BY <1>1, <2>2 DEF Mended, Runs
  <2>3. CASE Terminated
    BY <1>1, <2>3 DEF Terminated, Runs
  <2>4. CASE Return
    BY <2>4 DEF Return, Idle
  <2>5. QED  BY <2>1, <2>2, <2>3, <2>4
<1>3. Stands(run', run'.at, disk)
  BY <1>2, LooseStands DEF Loose
<1>4. QED  BY <1>1, <1>2, <1>3, StandsOut DEF Entrances

\* What is caught is mended, terminated or passed on.
LEMMA CatchRestores ==
  ASSUME TypeOK, Restoring, Catch
  PROVE  Restoring'
<1>1. run \in Runs /\ run.at = "catch" /\ UNCHANGED <<disk, kernel>>
  BY DEF TypeOK, Catch, Others
<1>2. kernel = disk => Catching(run, disk) /\ Continues(disk)
  BY <1>1, Here DEF Stands
<1>3. CASE run.recovering
  <2> DEFINE told == [c \in Calls |-> IF run.told[c] = "none" \/ run.call[c] = "recorded"
                                      THEN run.told[c] ELSE "unknown"]
             r == [run EXCEPT !.told = told]
             plan == RecoveryPlan(kernel)
  <2>1. run' = Script(r, plan, "mended", "told")
    BY <1>3 DEF Catch
  <2>2. told \in [Calls -> Words \cup {"none"}]
    BY Zenon, <1>1, RunFields DEF Words
  <2> HIDE DEF told
  <2>3. r \in Runs
    BY Zenon, <1>1, <2>2 DEF Runs
  <2> HIDE DEF r
  <2>4. ASSUME kernel = disk PROVE Sets(r, plan, "mended", "told", disk)
    <3>1. Calling(run, disk)
      BY <1>2, <1>3, <2>4 DEF Catching, Running
    <3>2. Recovers(disk)
      BY <1>2, <2>4, <3>1 DEF Calling, Echoed, Continues, StepContinues, Recovers, RollsBack
    <3>3. Mends(plan, disk)
      BY <1>2, <2>4, <3>2, Here, <1>1, MendsFromPlan
    <3> HIDE DEF plan
    <3>4. Means(r, plan, "mended", disk)
      BY <3>3 DEF Means
    <3>5. Catches(r, "mended", "told", disk) /\ Stands(r, "mended", disk)
      BY DEF Catches, Targets, Stands
    <3>6. QED  BY <3>4, <3>5 DEF Sets
  <2>5. QED  BY <1>1, <2>1, <2>3, <2>4, SetsOut DEF Entrances
<1>4. CASE ~run.recovering /\ Unfinished /\ Do(Terminate("failed"), "terminated", "finally")
  <2>1. ASSUME kernel = disk PROVE Sets(run, Terminate("failed"), "terminated", "finally", disk)
    <3>1. Running(run, disk)
      BY <1>2, <1>4, <2>1 DEF Catching, Calling, Unfinished
    <3>2. QED  BY <2>1, <3>1, SetsTerminate
  <2>2. QED  BY <1>1, <1>4, <2>1, SetsOut DEF Do, Entrances
<1>5. CASE Goto("told")
  BY Zenon, <1>1, <1>5, GoesLoose DEF Goto, Loose
<1>6. QED  BY <1>3, <1>4, <1>5 DEF Catch

\* The turn is terminated once more, or because its consumer has left.
LEMMA TerminatesAgain ==
  ASSUME TypeOK, Restoring, Finally \/ Close
  PROVE  Restoring'
<1>1. run \in Runs /\ run.at \in {"finally", "close"} /\ UNCHANGED <<disk, kernel>>
  BY DEF TypeOK, Finally, Close, Others
<1>2. kernel = disk => Running(run, disk)
  BY <1>1, Here DEF Stands
<1>3. PICK o \in {"failed", "interrupted"}, onFail \in {"told", "ended"} :
        run' = Script(run, Terminate(o), "terminated", onFail)
  BY DEF Finally, Close, Do
<1>4. kernel = disk => Sets(run, Terminate(o), "terminated", onFail, disk)
  BY <1>2, SetsTerminate
<1>5. QED  BY <1>1, <1>3, <1>4, SetsOut DEF Entrances

\* An operation begins.
LEMMA BeginRestores ==
  ASSUME TypeOK, Restoring, NEW at \in {"switch", "keep", "delete", "ingest", "destroy"}, NEW to, Begin(at, to)
  PROVE  Restoring'
<1>1. UNCHANGED <<disk, kernel>> /\ run' = [Idle EXCEPT !.at = at, !.to = to]
  BY DEF Begin
<1>2. run'.at = at /\ Unstarted(run')
  BY <1>1 DEF Idle, Unstarted
<1>3. Stands(run', at, disk)
  BY <1>2 DEF Stands
<1>4. QED  BY <1>1, <1>2, <1>3, StandsOut DEF Entrances

\* An event that comes from outside a turn is the last of its operation.
LEMMA EndsOutside ==
  ASSUME Restoring, run \in Runs, UNCHANGED <<disk, kernel>>, NEW e, Outside(e), Do(<<e>>, "ended", "ended")
  PROVE  Restoring'
<1>1. \A J : Means(run, <<e>>, "ended", J)
  BY Short DEF Means
<1>2. \A J : Sets(run, <<e>>, "ended", "ended", J)
  BY <1>1, SetsOne DEF Targets
<1>3. QED  BY <1>2, SetsOut DEF Do, Entrances

\* Resets, deletions, messages from outside and the end of the session.
LEMMA OutsideRestores ==
  ASSUME TypeOK, Restoring, KeepThread \/ ClearThread \/ DeleteThread \/ IngestMessage \/ DestroySession
  PROVE  Restoring'
<1>1. run \in Runs /\ UNCHANGED <<disk, kernel>>
  BY DEF TypeOK, KeepThread, ClearThread, DeleteThread, IngestMessage, DestroySession, Others
<1>2. CASE Goto("clear") \/ Goto("ended")
  BY <1>1, <1>2, GoesLoose DEF Goto, Loose
<1>3. \A t : Outside(Reset(t))
  BY DEF Outside, Reset
<1>4. Outside(External(User(ExternalText))) /\ Outside(Destroyed)
  BY DEF Outside, External, User, Destroyed
<1>5. CASE KeepThread
  BY <1>2, <1>5 DEF KeepThread
<1>6. CASE ClearThread
  BY <1>1, <1>2, <1>3, <1>6, EndsOutside DEF ClearThread
<1>7. CASE DeleteThread
  BY Zenon, <1>1, <1>2, <1>3, <1>7, EndsOutside DEF DeleteThread
<1>8. CASE IngestMessage
  BY <1>1, <1>2, <1>4, <1>8, EndsOutside DEF IngestMessage
<1>9. CASE DestroySession
  BY <1>1, <1>2, <1>4, <1>9, EndsOutside DEF DestroySession
<1>10. QED  BY <1>5, <1>6, <1>7, <1>8, <1>9

\* A step of a call that appends an event.
LEMMA CallRestores ==
  ASSUME TypeOK, Restoring, run.at = "batch", NEW c, NEW e \in Events,
         e.type \in {"tool/call", "tool/execution-started", "tool/result"},
         NEW ok, NEW told, NEW bad, CallAppend(c, e, ok, told, bad)
  PROVE  Restoring'
<1> DEFINE K == Advance(disk, e)
<1>1. run \in Runs /\ disk \in Journals /\ Continues(disk)
  BY DEF TypeOK, Restoring
<1>2. run'.at = "batch" /\ Alike(run', run)
  BY Zenon, <1>1 DEF CallAppend, Becomes, Runs, Alike
<1>3. ~Opening(run')
  BY <1>2 DEF Opening
<1>4. ASSUME kernel = disk PROVE Calling(run, disk)
  BY <1>4, Here DEF Stands
<1>5. ASSUME kernel = disk, Accepts(disk, e) PROVE Calling(run, K) /\ Continues(K)
  <2>0. e.type \in {"tool/call", "tool/execution-started"} \/ Receives(e)
    BY DEF Receives
  <2>1. Calling(run, K) /\ EventContinues(disk, e)
    BY <1>1, <1>4, <1>5, <2>0, CallsOn
  <2>2. Continues(K)
    BY <1>1, <1>5, <2>1, StillContinues
  <2>3. QED  BY <2>1, <2>2
<1>6. ASSUME NEW J, Calling(run, J) PROVE PlaceFits(run', J)
  BY <1>2, <1>6, AlikeFits DEF PlaceFits, Stands
<1>7. CASE Appended(e)
  <2>1. kernel = disk /\ Accepts(disk, e) /\ disk' = K
    BY <1>7 DEF Appended
  <2>2. Continues(K) /\ PlaceFits(run', K)
    BY <1>5, <1>6, <2>1
  <2> HIDE DEF K
  <2>3. QED  BY <1>3, <2>1, <2>2 DEF Restoring
<1>8. CASE AppendFails(e)
  <2>1. CASE disk' = disk
    <3>1. kernel = disk => PlaceFits(run', disk)
      BY <1>4, <1>6
    <3>2. kernel' = kernel
      BY <1>8 DEF AppendFails
    <3>3. QED  BY <1>1, <1>3, <2>1, <3>1, <3>2 DEF Restoring
  <2>2. CASE disk' # disk
    <3>1. kernel' = kernel /\ kernel = disk /\ Accepts(disk, e) /\ disk' = K
      BY <1>8, <2>2 DEF AppendFails
    <3>2. Continues(K)
      BY <1>5, <3>1
    <3> HIDE DEF K
    <3>3. QED  BY <1>3, <2>2, <3>1, <3>2 DEF Restoring
  <2>3. QED  BY <2>1, <2>2
<1>9. QED  BY <1>7, <1>8 DEF CallAppend

\* A step of a call that appends nothing.
LEMMA CallStands ==
  ASSUME TypeOK, Restoring, run.at = "batch", UNCHANGED <<disk, kernel>>,
         NEW c, NEW state, NEW told, Becomes(c, state, told)
  PROVE  Restoring'
<1>1. run \in Runs
  BY DEF TypeOK
<1>2. run'.at = "batch" /\ Alike(run', run)
  BY <1>1 DEF Becomes, Runs, Alike
<1>3. kernel = disk => Stands(run, "batch", disk)
  BY Here
<1>4. kernel = disk => Stands(run', "batch", disk)
  BY <1>2, <1>3, AlikeFits
<1>5. QED  BY <1>2, <1>4, StandsOut DEF Entrances

\* The steps of the calls of a round.
LEMMA BatchRestores ==
  ASSUME IInv, Restoring, Batch
  PROVE  Restoring'
<1>0. TypeOK
  BY DEF IInv
<1>1. PICK c \in Calls :
        \/ Ask(c) \/ Intend(c) \/ Refuse(c) \/ Break(c) \/ RecordRefusal(c) \/ Enter(c)
        \/ (\E o \in {"done", "failed", "unknown"} : Settle(c, o)) \/ RecordResult(c)
  BY DEF Batch
<1>2. run.at = "batch"
  BY <1>1 DEF Ask, Intend, Refuse, Break, RecordRefusal, Enter, Settle, RecordResult, Call
<1>3. CASE Ask(c)
  <2>0. "unknown" \in Words /\ ToolCall(c).type = "tool/call"
    BY DEF Words, ToolCall
  <2>1. ToolCall(c) \in Events
    BY Zenon, <2>0, ToolEvents
  <2>2. QED  BY <1>0, <1>2, <1>3, <2>0, <2>1, CallRestores DEF Ask
<1>4. CASE Intend(c)
  <2>0. "unknown" \in Words /\ ToolStarted(c).type = "tool/execution-started"
    BY DEF Words, ToolStarted
  <2>1. ToolStarted(c) \in Events
    BY Zenon, <2>0, ToolEvents
  <2>2. QED  BY <1>0, <1>2, <1>4, <2>0, <2>1, CallRestores DEF Intend
<1>5. CASE Refuse(c) \/ Break(c) \/ Enter(c) \/ \E o \in {"done", "failed", "unknown"} : Settle(c, o)
  BY <1>0, <1>2, <1>5, CallStands DEF Refuse, Break, Enter, Settle, Others
<1>6. ASSUME NEW w \in Words PROVE ToolResult(c, w) \in Events /\ ToolResult(c, w).type = "tool/result"
  BY Zenon, ToolEvents DEF ToolResult
<1>7. CASE RecordRefusal(c)
  <2>1. "rejected" \in Words
    BY DEF Words
  <2>2. QED  BY <1>0, <1>2, <1>6, <1>7, <2>1, CallRestores DEF RecordRefusal
<1>8. CASE RecordResult(c)
  <2>1. PICK says \in {effect[c], "unknown"} : CallAppend(c, ToolResult(c, says), "recorded", says, "thrown")
    BY <1>8 DEF RecordResult
  <2>2. effect[c] \in {"done", "failed", "unknown"}
    BY <1>8 DEF IInv, Accounted, RecordResult, Call
  <2>3. says \in Words
    BY Zenon, <2>2 DEF Words
  <2>4. QED  BY <1>0, <1>2, <1>6, <2>1, <2>3, CallRestores
<1>9. QED  BY <1>1, <1>3, <1>4, <1>5, <1>7, <1>8

\* A process opens the journal, to recover it.
LEMMA OpenRestores ==
  ASSUME TypeOK, Restoring, Open
  PROVE  Restoring'
<1> DEFINE plan == RecoveryPlan(disk)
           s == run'
<1>1. /\ disk \in Journals /\ kernel' = disk /\ disk' = disk /\ run.at = "down"
      /\ s = Script(Idle, plan, "import", "unopened") /\ Idle \in Runs
  BY ChatAssumption, Blank DEF TypeOK, Open
<1>2. Continues(disk) /\ Recovers(disk)
  BY <1>1 DEF Restoring, Opening
<1>3. Mends(plan, disk)
  BY <1>1, <1>2, MendsFromPlan
<1> HIDE DEF plan, s
<1>4. Sets(Idle, plan, "import", "unopened", disk)
  <2>1. CASE plan = <<>>
    BY <1>1, <1>3, <2>1, MendsEnds DEF Sets, Stands
  <2>2. CASE plan # <<>>
    <3>1. Means(Idle, plan, "import", disk) /\ Catches(Idle, "import", "unopened", disk)
      BY <1>3 DEF Means, Catches, Targets
    <3>2. QED  BY <2>2, <3>1 DEF Sets
  <2>3. QED  BY <2>1, <2>2
<1>5. PlaceFits(s, disk)
  BY <1>1, <1>4, Scripted
<1>6. QED  BY <1>1, <1>2, <1>5 DEF Restoring, s

\* What the conversation store holds is taken into a new journal.
LEMMA ImportRestores ==
  ASSUME TypeOK, Restoring, Import
  PROVE  Restoring'
<1>1. run \in Runs /\ run.at = "import" /\ UNCHANGED <<disk, kernel>> /\ Continues(disk) /\ Recovers(disk)
  BY DEF TypeOK, Import, Restoring, Opening
<1>2. CASE Goto("idle")
  BY Zenon, <1>1, <1>2, GoesLoose DEF Goto, Loose
<1>3. CASE Goto("diverged")
  <2>1. run'.at = "diverged"
    BY <1>1, <1>3 DEF Goto, Runs
  <2>2. PlaceFits(run', disk)
    BY <2>1 DEF PlaceFits, Stands
  <2>3. QED  BY <1>1, <2>2 DEF Restoring
<1> DEFINE e == Replaced(mem[kernel.thread], "conversation_memory_imported")
           s == run'
<1>4. CASE kernel.count = 1 /\ Do(<<e>>, "idle", "unopened")
  <2>1. e.type = "history/replaced"
    BY DEF Replaced
  <2>2. s = Script(run, <<e>>, "idle", "unopened")
    BY <1>4 DEF Do
  <2> HIDE DEF e, s
  <2>3. ASSUME kernel = disk PROVE Sets(run, <<e>>, "idle", "unopened", disk)
    <3>1. Means(run, <<e>>, "idle", disk)
      BY <1>4, <2>1, <2>3, Short DEF Means, Makes
    <3>2. Catches(run, "idle", "unopened", disk) /\ <<e>> # <<>>
      BY DEF Catches, Targets
    <3>3. QED  BY <3>1, <3>2 DEF Sets
  <2>4. kernel = disk => PlaceFits(s, disk)
    BY <1>1, <2>2, <2>3, Scripted
  <2>5. QED  BY <1>1, <2>4 DEF Restoring, s
<1>5. QED  BY <1>2, <1>3, <1>4 DEF Import

\* The process is gone; what it leaves can be recovered, unless a crash fell
\* between the rollback of a turn and its end.
LEMMA GoneRestores ==
  ASSUME TypeOK, Restoring, Unopened \/ Crash, ~torn'
  PROVE  Restoring'
<1>1. run' = Down /\ disk' = disk /\ Continues(disk)
  BY DEF Unopened, Crash, Restoring
<1>2. Recovers(disk)
  <2>1. CASE Unopened
    BY <2>1 DEF Unopened, Restoring, Opening
  <2>2. CASE Crash
    BY Zenon, <1>1, <2>2 DEF Crash, Torn, Recovers, RollsBack, Continues
  <2>3. QED  BY <2>1, <2>2
<1>3. run'.at = "down"
  BY <1>1 DEF Down, Idle
<1>4. PlaceFits(run', disk)
  BY <1>3 DEF PlaceFits, Stands
<1>5. QED  BY <1>1, <1>2, <1>4 DEF Restoring

\* Every step restores what it has to.
LEMMA StepRestores ==
  ASSUME IInv, Restoring, Step, ~torn'
  PROVE  Restoring'
<1>0. TypeOK
  BY DEF IInv
<1>1. CASE ScriptStep
  BY <1>0, <1>1, ScriptRestores
<1>2. CASE Turn
  <2>1. CASE SwitchThread \/ ApplyBudget \/ OpenTheTurn \/ TheUserSays \/ NextRound \/ PrepareRequest
    BY <1>0, <2>1, SwitchThreadRestores, ApplyBudgetRestores, OpenTheTurnRestores, TheUserSaysRestores,
       NextRoundRestores, PrepareRequestRestores
  <2>2. CASE ModelAnswers \/ ReadResponse \/ Spoken \/ Dispatch \/ BatchSettled \/ Checkpoint \/ RoundDone
    BY <1>0, <2>2, ModelAnswersRestores, ReadResponseRestores, SpokenRestores, DispatchRestores,
       BatchSettledRestores, CheckpointRestores, RoundDoneRestores
  <2>3. CASE Conclude \/ Complete \/ Catch
    BY <1>0, <2>3, ConcludeRestores, CompleteRestores, CatchRestores
  <2>4. CASE Committed \/ Mended \/ Terminated \/ Return \/ Finally \/ Close
    BY <1>0, <2>4, OverRestores, TerminatesAgain
  <2>5. QED  BY <1>2, <2>1, <2>2, <2>3, <2>4 DEF Turn
<1>3. CASE Batch
  BY <1>3, BatchRestores
<1>4. CASE \/ \E t \in left.threads : Chat(t) \/ ResetTo(t) \/ Delete(t)
           \/ Ingest \/ Destroy
  BY <1>0, <1>4, BeginRestores DEF Chat, ResetTo, Delete, Ingest, Destroy
<1>5. CASE \E t \in left.threads : OtherWriter(t)
  <2>1. run' = run /\ disk' = disk /\ kernel' = kernel
    BY <1>5 DEF OtherWriter
  <2>2. QED  BY <2>1 DEF Restoring
<1>6. CASE KeepThread \/ ClearThread \/ DeleteThread \/ IngestMessage \/ DestroySession
  BY <1>0, <1>6, OutsideRestores
<1>7. CASE Open \/ Import
  BY <1>0, <1>7, OpenRestores, ImportRestores
<1>8. CASE Unopened
  BY <1>0, <1>8, GoneRestores
<1>9. QED  BY <1>1, <1>2, <1>3, <1>4, <1>5, <1>6, <1>7, <1>8 DEF Step

\* What the invariant asks of the continuation is inductive.
LEMMA NextRestores == IInv /\ CInv /\ [Next]_vars => CInv'
<1> SUFFICES ASSUME IInv, CInv, [Next]_vars, ~torn' PROVE Restoring'
  BY DEF CInv
<1>1. ~torn /\ Restoring
  <2>1. torn => torn'
    BY Zenon DEF Next, Crash, vars
  <2>2. QED  BY <2>1 DEF CInv
<1>2. CASE Step
  BY <1>1, <1>2, StepRestores
<1>3. CASE Crash
  BY <1>1, <1>3, GoneRestores DEF IInv
<1>4. CASE UNCHANGED vars
  <2>1. disk' = disk /\ kernel' = kernel /\ run' = run
    BY <1>4 DEF vars
  <2>2. QED  BY <1>1, <2>1 DEF Restoring
<1>5. QED  BY <1>2, <1>3, <1>4 DEF Next

\* A new session has nothing to restore.
LEMMA BeginsCovered == Init => CInv
<1> SUFFICES ASSUME Init PROVE Restoring
  BY DEF CInv
<1>1. /\ disk.hist = <<>> /\ disk.adapter = <<>> /\ disk.turn = None /\ disk.step = None
      /\ disk.tools = <<>>
  BY DEF Init, Fresh
<1>2. Covered(disk)
  <2>1. ASSUME NEW s \in Seq(Messages) PROVE IsPrefix(s, s)
    BY PrefixIs
  <2>2. <<>> \in Seq(Messages)
    OBVIOUS
  <2>3. IsPrefix(<<>>, <<>>)
    BY Zenon, <2>1, <2>2
  <2>4. QED  BY <1>1, <2>3 DEF Covered
<1>3. Continues(disk) /\ Recovers(disk)
  BY <1>1, <1>2 DEF Continues, Recovers
<1>4. run.at = "down"
  BY DEF Init, Down, Idle
<1>5. PlaceFits(run, disk)
  BY <1>4 DEF PlaceFits, Stands
<1>6. QED  BY <1>3, <1>5 DEF Restoring

-----------------------------------------------------------------------------
(* The theorems.                                                             *)

\* While a turn is open no event takes the receipt of a call away.
LEMMA ToldOn ==
  ASSUME NEW J \in Journals, NEW e \in Events, Accepts(J, e), EventContinues(J, e), J.turn # None
  PROVE  Told(J.hist) \subseteq Told(Advance(J, e).hist)
<1> DEFINE K == Advance(J, e)
<1>1. K.hist = HistAfter(J, e) /\ J.hist \in Histories
  BY Folds, JournalHistories
<1> HIDE DEF K
<1>2. CASE e.type = "message/appended"
  BY <1>1, <1>2, EventFields, ToldAppend DEF HistAfter, K
<1>3. CASE e.type = "history/replaced"
  BY <1>1, <1>3 DEF HistAfter, EventContinues, K
<1>4. e.type # "session/reset"
  BY DEF Accepts, Lives, Closes
<1>5. CASE e.type \notin {"message/appended", "history/replaced"}
  BY <1>1, <1>4, <1>5 DEF HistAfter, K
<1>6. QED  BY <1>2, <1>3, <1>5

\* The journal changes by an event that keeps what the continuation covers.
LEMMA DiskMoves ==
  ASSUME IInv, Restoring, Step, disk' # disk
  PROVE  \E e \in Events : Accepts(disk, e) /\ EventContinues(disk, e) /\ disk' = Advance(disk, e)
<1>0. TypeOK /\ disk \in Journals
  BY DEF IInv, TypeOK
<1>1. CASE ScriptStep
  <2> DEFINE e == Head(run.todo)
  <2>1. run.at = "script" /\ kernel = disk /\ Accepts(disk, e) /\ disk' = Advance(disk, e)
    BY <1>1 DEF ScriptStep, Appended, AppendFails
  <2>2. e \in Events /\ EventContinues(disk, e)
    BY <1>0, <2>1, NextEvent
  <2> HIDE DEF e
  <2>3. QED  BY <2>1, <2>2
<1>2. ASSUME run.at = "batch", NEW c, NEW e \in Events,
             e.type \in {"tool/call", "tool/execution-started", "tool/result"},
             NEW ok, NEW told, NEW bad, CallAppend(c, e, ok, told, bad)
      PROVE  Accepts(disk, e) /\ EventContinues(disk, e) /\ disk' = Advance(disk, e)
  <2>1. kernel = disk /\ Accepts(disk, e) /\ disk' = Advance(disk, e)
    BY <1>2 DEF CallAppend, Appended, AppendFails
  <2>2. Calling(run, disk)
    BY <1>0, <1>2, <2>1, Here DEF Stands
  <2>3. e.type \in {"tool/call", "tool/execution-started"} \/ Receives(e)
    BY <1>2 DEF Receives
  <2>4. QED  BY <1>0, <2>1, <2>2, <2>3, CallsOn
<1>3. CASE Batch
  <2>1. PICK c \in Calls :
          \/ Ask(c) \/ Intend(c) \/ Refuse(c) \/ Break(c) \/ RecordRefusal(c) \/ Enter(c)
          \/ (\E o \in {"done", "failed", "unknown"} : Settle(c, o)) \/ RecordResult(c)
    BY <1>3 DEF Batch
  <2>2. run.at = "batch"
    BY <2>1 DEF Ask, Intend, Refuse, Break, RecordRefusal, Enter, Settle, RecordResult, Call
  <2>3. \/ Ask(c) \/ Intend(c) \/ RecordRefusal(c) \/ RecordResult(c)
    BY <2>1 DEF Refuse, Break, Enter, Settle, Others
  <2>4. /\ "unknown" \in Words /\ "rejected" \in Words /\ ToolCall(c).type = "tool/call"
        /\ ToolStarted(c).type = "tool/execution-started"
    BY DEF Words, ToolCall, ToolStarted
  <2>5. /\ ToolCall(c) \in Events /\ ToolStarted(c) \in Events
        /\ \A w \in Words : ToolResult(c, w) \in Events
    BY Zenon, <2>4, ToolEvents
  <2>6. \A w : ToolResult(c, w).type = "tool/result"
    BY DEF ToolResult
  <2>7. CASE Ask(c)
    BY <1>2, <2>2, <2>4, <2>5, <2>7 DEF Ask
  <2>8. CASE Intend(c)
    BY <1>2, <2>2, <2>4, <2>5, <2>8 DEF Intend
  <2>9. CASE RecordRefusal(c)
    BY <1>2, <2>2, <2>4, <2>5, <2>6, <2>9 DEF RecordRefusal
  <2>10. CASE RecordResult(c)
    <3>1. PICK says \in {effect[c], "unknown"} : CallAppend(c, ToolResult(c, says), "recorded", says, "thrown")
      BY <2>10 DEF RecordResult
    <3>2. effect[c] \in {"done", "failed", "unknown"}
      BY <2>10 DEF IInv, Accounted, RecordResult, Call
    <3>3. says \in Words
      BY Zenon, <3>2 DEF Words
    <3>4. QED  BY <1>2, <2>2, <2>5, <2>6, <3>1, <3>3
  <2>11. QED  BY <2>3, <2>7, <2>8, <2>9, <2>10
<1>4. ~Turn
  BY DEF Turn, SwitchThread, ApplyBudget, OpenTheTurn, TheUserSays, NextRound, PrepareRequest,
         ModelAnswers, ReadResponse, Spoken, Dispatch, BatchSettled, Checkpoint, RoundDone, Conclude,
         Complete, Committed, Catch, Mended, Terminated, Finally, Close, Return, Others
<1>5. ASSUME NEW t PROVE ~(Chat(t) \/ ResetTo(t) \/ Delete(t) \/ OtherWriter(t) \/ Ingest \/ Destroy)
  BY DEF Chat, ResetTo, Delete, OtherWriter, Ingest, Destroy, Begin
<1>6. ~(\/ KeepThread \/ ClearThread \/ DeleteThread \/ IngestMessage \/ DestroySession
        \/ Open \/ Import \/ Unopened)
  BY DEF KeepThread, ClearThread, DeleteThread, IngestMessage, DestroySession, Open, Import, Unopened,
         Others
<1>7. QED  BY <1>1, <1>3, <1>4, <1>5, <1>6 DEF Step

(* But for a crash between the rollback of a turn and its end, the provider  *)
(* never continues from what the model history does not hold, whatever       *)
(* append fails and wherever else the process dies (chat-agent.ts 1043).     *)
THEOREM ContinuationIsRestored == Spec => []ContinuationRestored
<1>1. CInv => ContinuationRestored
  BY DEF CInv, Restoring, Continues, Covered, ContinuationRestored, ContinuationCovered
<1>2. QED  BY <1>1, Begins, NextKeeps, BeginsCovered, NextRestores, PTL DEF Spec

(* But for the same crash, the answer of a call that may have acted stays in *)
(* the history of its turn, however the turn fails or is recovered.          *)
THEOREM EffectsAreRetained == Spec => EffectsRetained
<1>1. IInv /\ CInv /\ [Next]_vars =>
        [Ending /\ ~torn => Tried(disk) \subseteq Tried(disk')]_vars
  <2> SUFFICES ASSUME IInv, CInv, Next, Ending, ~torn
               PROVE  Tried(disk) \subseteq Tried(disk')
    BY DEF vars
  <2>1. Restoring /\ disk \in Journals /\ disk.turn # None
    BY DEF CInv, IInv, TypeOK, Ending
  <2>2. Told(disk.hist) \subseteq Told(disk'.hist)
    <3>1. CASE disk' = disk
      BY <3>1
    <3>2. CASE disk' # disk
      <4>1. Step
        BY <3>2 DEF Next, Crash
      <4>2. PICK e \in Events :
              Accepts(disk, e) /\ EventContinues(disk, e) /\ disk' = Advance(disk, e)
        BY <2>1, <3>2, <4>1, DiskMoves
      <4>3. QED  BY <2>1, <4>2, ToldOn
    <3>3. QED  BY <3>1, <3>2
  <2>3. /\ \A c \in Calls : c \in Tried(disk) <=> effect[c] # "no" /\ c \in Told(disk.hist)
        /\ \A c \in Calls : c \in Tried(disk') <=> effect[c] # "no" /\ c \in Told(disk'.hist)
    BY DEF Tried, Told
  <2>4. Tried(disk) \subseteq Calls
    BY DEF Tried
  <2>5. QED  BY <2>2, <2>3, <2>4
<1>2. QED
  BY <1>1, Begins, NextKeeps, BeginsCovered, NextRestores, PTL DEF Spec, EffectsRetained

-----------------------------------------------------------------------------
(* The journal is never asked for an event that its validator refuses, and   *)
(* every call in the history is answered right behind it.                    *)

(* What stands n-th in a history once its tools have answered is the answer  *)
(* of c.  Whole: so it is for every call of the history, in the order of the *)
(* calls.  Replied: without an answer still owed.                            *)
Reply(h, tools, n, c) ==
  IF n \in DOMAIN h THEN h[n].role = "tool" /\ h[n].call = c
  ELSE n - Len(h) \in DOMAIN tools /\ tools[n - Len(h)].call = c
WholeFrom(h, tools, from) ==
  \A i \in DOMAIN h : i > from /\ h[i].role = "assistant" =>
    \A k \in DOMAIN h[i].calls : Reply(h, tools, i + k, h[i].calls[k])
Whole(h, tools) == WholeFrom(h, tools, 0)
Replied(h) == Whole(h, <<>>)

(* A journal that owes its history the answers of its tools, in their order, *)
(* and whose turn can be put back or ended from wherever it stands.          *)
Laden(J) == J.hist # <<>> /\ (J.turn # None => J.turn.nonUser /\ ~J.turn.mustRoll)
Sound(J) ==
  /\ Whole(J.hist, J.tools)
  /\ J.turn # None => Replied(J.turn.before) /\ ~J.dead
  /\ J.step = None => J.tools = <<>>
  /\ J.step # None => ~J.turn.mustRoll
  /\ J.tools # <<>> => J.step.pending = "nothing" /\ Laden(J)
  /\ \A i, j \in DOMAIN J.tools : J.tools[i].call = J.tools[j].call => i = j
  /\ J.step = None /\ RollsBack(J) => J.turn.mayRoll \/ ~J.turn.stepped \/ J.turn.rolled
  /\ J.count = 1 => J.hist = <<>>

(* Where a turn stands in its step.                                          *)
Rested(J) == J.turn # None /\ J.step = None /\ ~J.turn.mustRoll
Stepping(J, pending) == J.step # None /\ J.tools = <<>> /\ J.step.pending = pending
Worked(J) == Stepping(J, "nothing") /\ J.turn.nonUser
Mute(J) == Stepping(J, "response") /\ J.step.expected = None

(* What goes on in a turn, and may be terminated.                            *)
Going(r, J) ==
  /\ r.started /\ J.turn # None
  /\ Replied(r.before) /\ (r.checkpoint # None => Replied(r.checkpoint.hist))
Stops(r, J) == Going(r, J) /\ J.tools = <<>>
Reads(r, m) ==
  /\ IsInjective(r.batch) /\ (r.answered => r.batch = <<>>)
  /\ m = IF r.answered THEN Answer ELSE IF r.batch = <<>> THEN None ELSE Asks(r.batch)
Serves(r, J) ==
  /\ Going(r, J) /\ J.step # None /\ J.step.pending = "nothing" /\ J.turn.nonUser
  /\ Len(J.tools) = Len(r.batch) /\ \A i \in DOMAIN r.batch : J.tools[i].call = r.batch[i]
Receipts(J) == [i \in DOMAIN J.tools |-> Message(Receipt(J.tools[i].call, J.tools[i].says))]

(* Where an operation that has no event of its own to append finds its turn. *)
Aside == {"idle", "switch", "budget", "open", "opened", "keep", "clear", "delete", "ingest",
          "destroy", "import"}
StandsWell(r, at, J) ==
  /\ at \in Aside => ~r.started /\ ~r.recovering /\ r.checkpoint = None
  /\ at = "opened" => Rested(J) /\ Replied(r.before)
  /\ at = "round" => Going(r, J) /\ Rested(J)
  /\ at = "request" => Going(r, J) /\ Stepping(J, "nothing") /\ ~J.step.asked
  /\ at = "model" => Going(r, J) /\ Stepping(J, "request")
  /\ at = "response" => Going(r, J) /\ Stepping(J, "response") /\ Reads(r, J.step.expected)
  /\ at \in {"spoken", "answer", "answered"} => Going(r, J) /\ Worked(J)
  /\ at \in {"dispatch", "batch"} => Serves(r, J)
  /\ at = "batch" => /\ r.recovering
                     /\ \A i \in DOMAIN r.batch :
                          r.call[r.batch[i]] = "recorded" => J.tools[i].at = "result"
  /\ at \in {"after", "complete"} => Going(r, J) /\ J.step = None
  /\ at \in {"committed", "mended", "terminated"} => r.started /\ J.turn = None
  /\ at = "catch" => IF r.recovering THEN r.started ELSE r.started => Stops(r, J)
  /\ at \in {"close", "finally"} => Stops(r, J)
  /\ at = "import" => J.turn = None

(* What the events that an operation has still to append do: put back the    *)
(* end of a turn, end a turn that failed, mend the journal of another        *)
(* process, or, for every place they lead to, what MeansWell says of it.     *)
Restores(todo) ==
  \E h \in Histories, a \in Histories, reason \in InternalRollbacks :
    Replied(h) /\ (todo = <<Replaced(h, reason), Adapter(a)>> \/ todo = <<Adapter(a)>>)
Unwinds(todo, J) ==
  \E o \in {"failed", "interrupted"}, h \in Histories, a \in Histories, reason \in InternalRollbacks :
    /\ Replied(h)
    /\ IF J.step # None
       THEN todo = <<StepCompleted(o), Replaced(h, reason), Adapter(a), TurnEnded(o)>>
       ELSE todo \in {<<Replaced(h, reason), Adapter(a), TurnEnded(o)>>,
                      <<Adapter(a), TurnEnded(o)>>, <<TurnEnded(o)>>}
Mending(todo, J) ==
  \/ todo = CloseTools(J) \o Closing(J)
  \/ /\ J.turn # None /\ J.step = None
     /\ todo = Restore(J.adapter, J.turn.adapterBefore) \o CloseTurn(J)
MeansWell(r, todo, then, J) ==
  /\ then \in {"budget", "open", "ended", "opened", "idle", "import"} =>
       ~r.started /\ ~r.recovering /\ r.checkpoint = None
  /\ then \in {"budget", "open"} =>
       /\ Makes(todo, "history/replaced") /\ ~todo[1].recovered /\ todo[1].clear
       /\ J.turn = None => Replied(todo[1].history)
  /\ then = "idle" =>
       Makes(todo, "history/replaced") /\ ~todo[1].recovered /\ Replied(todo[1].history) /\ J.turn = None
       /\ J.hist = <<>>
  /\ then = "ended" => Alone(todo) /\ Outside(todo[1])
  /\ then = "opened" => todo = <<TurnStarted>> /\ r.before = J.hist
  /\ then = "round" =>
       /\ Going(r, J)
       /\ \/ Alone(todo) /\ Outside(todo[1]) /\ todo[1].type = "message/appended" /\ Rested(J)
          \/ Passes(todo) /\ Worked(J)
  /\ then = "request" => Going(r, J) /\ todo = <<StepStarted>> /\ Rested(J)
  /\ then = "model" => Going(r, J) /\ todo = <<Request(J.hist)>> /\ Stepping(J, "nothing") /\ ~J.step.asked
  /\ then = "response" =>
       /\ Going(r, J)
       /\ \/ /\ Stepping(J, "request") /\ Reads(r, todo[1].message) /\ todo[1].type = "model/response-received"
             /\ Alone(todo) \/ todo = <<todo[1], Adapter(todo[2].state)>>
          \/ Makes(todo, "adapter/state") /\ Stepping(J, "response") /\ Reads(r, J.step.expected)
  /\ then = "dispatch" =>
       /\ Going(r, J) /\ todo = <<Message(Asks(r.batch))>> /\ IsInjective(r.batch)
       /\ Stepping(J, "response") /\ J.step.expected = Asks(r.batch)
  /\ then = "spoken" =>
       Going(r, J) /\ todo = <<Message(Answer)>> /\ Stepping(J, "response") /\ J.step.expected = Answer
  /\ then = "after" =>
       /\ Going(r, J)
       /\ \/ Passes(todo) /\ (Worked(J) \/ Mute(J))
          \/ Mute(J) /\ todo = <<Adapter(todo[1].state), StepCompleted("completed")>>
  /\ then = "answer" =>
       /\ Going(r, J) /\ r.recovering /\ todo = Receipts(J)
       /\ J.step # None /\ J.step.pending = "nothing" /\ J.turn.nonUser
       /\ \A i \in DOMAIN J.tools : J.tools[i].at = "result"
  /\ then = "complete" => Going(r, J) /\ J.step = None /\ Restores(todo)
  /\ then = "committed" => Going(r, J) /\ J.step = None /\ Makes(todo, "turn/ended")
  /\ then = "terminated" => Stops(r, J) /\ Unwinds(todo, J)
  /\ then = "mended" => r.started
  /\ then \in {"mended", "import"} => Mending(todo, J)

(* Where a run of appends can lead, and what its failure leads to.           *)
InTurn == {"opened", "round", "request", "model", "response", "dispatch", "spoken", "after", "answer",
           "complete", "committed"}
Lands(then, onFail) ==
  \/ onFail = "catch" /\ then \in InTurn
  \/ onFail = "finally" /\ then = "terminated"
  \/ onFail \in {"told", "ended"} /\ then \in {"terminated", "mended", "budget", "open", "ended"}
  \/ onFail = "unopened" /\ then \in {"import", "idle"}

PlaceSound(r, J) ==
  IF r.at = "script" THEN MeansWell(r, r.todo, r.then, J) /\ Lands(r.then, r.onFail)
  ELSE StandsWell(r, r.at, J)

(* A conversation in the store is whole.  Only that of the journal may be    *)
(* missing answers, from the end of the journal on: while an opening takes   *)
(* it from the journal, or behind a turn that a failed recovery left open.   *)
Stuck == kernel.turn # None /\ ~run.started /\ run.at # "opened"
MemSound ==
  \A t \in Threads :
    \/ Replied(MessagesOf(mem[t]))
    \/ /\ t = disk.thread /\ (Opening(run) \/ Stuck)
       /\ Laden(disk) /\ WholeFrom(MessagesOf(mem[t]), <<>>, Len(disk.hist))
(* While calls are owed the store is no less than what the process has.      *)
Abreast ==
  kernel.tools # <<>> =>
    disk.thread = kernel.thread /\ Laden(disk) /\ Len(kernel.hist) <= Len(disk.hist)

(* All of the journals, the store and the operation.  A process that died    *)
(* keeps nothing; its successor starts from the journal in the store.        *)
SoundInv ==
  /\ Sound(disk)
  /\ run.at # "down" => Sound(kernel) /\ PlaceSound(run, kernel) /\ Abreast
  /\ run.at = "import" => kernel = disk
  /\ MemSound

-----------------------------------------------------------------------------
(* Whole histories.                                                          *)

\* The positions of a history and of what is appended to it.
LEMMA AppendedTo ==
  ASSUME NEW h \in Histories, NEW m \in Messages
  PROVE  /\ Append(h, m) \in Histories /\ Len(h) \in Nat /\ Len(Append(h, m)) = Len(h) + 1
         /\ DOMAIN h = 1..Len(h) /\ DOMAIN Append(h, m) = 1..(Len(h) + 1)
         /\ \A i \in 1..Len(h) : Append(h, m)[i] = h[i]
         /\ Append(h, m)[Len(h) + 1] = m /\ Append(h, m) # <<>>
  BY AppendProperties DEF Histories

\* The calls of an answer in a history.
LEMMA CallsOf ==
  ASSUME NEW h \in Histories, NEW i \in DOMAIN h, h[i].role = "assistant"
  PROVE  /\ i \in Nat /\ i >= 1 /\ i <= Len(h) /\ Len(h) \in Nat
         /\ h[i].calls \in Seq(Calls) /\ DOMAIN h[i].calls = 1..Len(h[i].calls)
         /\ Len(h[i].calls) \in Nat
<1>1. h \in Seq(Messages) /\ h[i] \in Messages
  BY DEF Histories
<1>2. h[i].calls \in Seq(Calls)
  BY <1>1, MessageFields
<1>3. QED  BY <1>1, <1>2

\* Nothing is asked for in an empty history, nor behind the end of any.
LEMMA NothingAsked ==
  /\ \A tools, n : WholeFrom(<<>>, tools, n)
  /\ \A h \in Histories, n \in Nat : Len(h) <= n => WholeFrom(h, <<>>, n)
  /\ \A h \in Histories, n, k \in Nat : WholeFrom(h, <<>>, n) /\ n <= k => WholeFrom(h, <<>>, k)
<1>1. \A tools, n : WholeFrom(<<>>, tools, n)
  BY DEF WholeFrom
<1>2. ASSUME NEW h \in Histories, NEW n \in Nat, Len(h) <= n PROVE WholeFrom(h, <<>>, n)
  BY <1>2, CallsOf DEF WholeFrom
<1>3. ASSUME NEW h \in Histories, NEW n \in Nat, NEW k \in Nat, WholeFrom(h, <<>>, n), n <= k
      PROVE  WholeFrom(h, <<>>, k)
  BY <1>3, CallsOf DEF WholeFrom
<1>4. QED  BY <1>1, <1>2, <1>3

\* What asks for nothing leaves a history as it is.
LEMMA AddsNoCall ==
  ASSUME NEW h \in Histories, NEW m \in Messages, m.role = "assistant" => m.calls = <<>>,
         NEW n \in Nat, WholeFrom(h, <<>>, n)
  PROVE  WholeFrom(Append(h, m), <<>>, n)
<1> DEFINE g == Append(h, m)
<1>1. /\ g \in Histories /\ Len(h) \in Nat /\ DOMAIN h = 1..Len(h) /\ DOMAIN g = 1..(Len(h) + 1)
      /\ \A i \in 1..Len(h) : g[i] = h[i]
      /\ g[Len(h) + 1] = m
  BY AppendedTo
<1> HIDE DEF g
<1> SUFFICES ASSUME NEW i \in DOMAIN g, i > n, g[i].role = "assistant", NEW k \in DOMAIN g[i].calls
             PROVE  Reply(g, <<>>, i + k, g[i].calls[k])
  BY DEF WholeFrom, g
<1>2. i # Len(h) + 1
  <2>1. DOMAIN <<>> = {}
    OBVIOUS
  <2>2. QED  BY <1>1, <2>1
<1>3. i \in DOMAIN h /\ g[i] = h[i]
  BY <1>1, <1>2
<1>4. Reply(h, <<>>, i + k, h[i].calls[k])
  BY <1>3 DEF WholeFrom
<1>5. i + k \in DOMAIN h /\ h[i + k].role = "tool" /\ h[i + k].call = h[i].calls[k]
  BY <1>4 DEF Reply
<1>6. i + k \in DOMAIN g /\ g[i + k] = h[i + k]
  BY <1>1, <1>5
<1>7. QED  BY <1>3, <1>5, <1>6 DEF Reply

\* An answer is owed the replies to the calls it asks for.
LEMMA AddsCalls ==
  ASSUME NEW h \in Histories, NEW m \in Messages, m.role = "assistant", Replied(h)
  PROVE  Whole(Append(h, m), Opens(m))
<1> DEFINE g == Append(h, m)
<1>1. /\ g \in Histories /\ Len(h) \in Nat /\ DOMAIN h = 1..Len(h) /\ DOMAIN g = 1..(Len(h) + 1)
      /\ \A i \in 1..Len(h) : g[i] = h[i]
      /\ g[Len(h) + 1] = m /\ Len(g) = Len(h) + 1
  BY AppendedTo
<1> HIDE DEF g
<1> SUFFICES ASSUME NEW i \in DOMAIN g, i > 0, g[i].role = "assistant", NEW k \in DOMAIN g[i].calls
             PROVE  Reply(g, Opens(m), i + k, g[i].calls[k])
  BY DEF WholeFrom, Whole, g
<1>2. CASE i = Len(h) + 1
  <2>1. g[i] = m /\ k \in DOMAIN m.calls /\ k \in Nat /\ k >= 1
    BY <1>1, <1>2, CallsOf
  <2>2. i + k \notin DOMAIN g /\ (i + k) - Len(g) = k
    BY <1>1, <1>2, <2>1
  <2>3. k \in DOMAIN Opens(m) /\ Opens(m)[k].call = m.calls[k]
    BY <2>1 DEF Opens
  <2>4. QED  BY <2>1, <2>2, <2>3 DEF Reply
<1>3. CASE i # Len(h) + 1
  <2>1. i \in DOMAIN h /\ g[i] = h[i]
    BY <1>1, <1>3
  <2>2. Reply(h, <<>>, i + k, h[i].calls[k])
    BY <2>1 DEF WholeFrom, Whole, Replied
  <2>3. i + k \in DOMAIN h /\ h[i + k].role = "tool" /\ h[i + k].call = h[i].calls[k]
    BY <2>2 DEF Reply
  <2>4. i + k \in DOMAIN g /\ g[i + k] = h[i + k]
    BY <1>1, <2>3
  <2>5. QED  BY <2>1, <2>3, <2>4 DEF Reply
<1>4. QED  BY <1>2, <1>3

\* The reply to the first of the calls owed.
LEMMA AddsReply ==
  ASSUME NEW h \in Histories, NEW m \in Messages, NEW tools \in Seq(Tools), tools # <<>>,
         m.role = "tool", m.call = tools[1].call, Whole(h, tools)
  PROVE  Whole(Append(h, m), Tail(tools))
<1> DEFINE g == Append(h, m)
           rest == Tail(tools)
<1>1. /\ g \in Histories /\ Len(h) \in Nat /\ DOMAIN h = 1..Len(h) /\ DOMAIN g = 1..(Len(h) + 1)
      /\ \A i \in 1..Len(h) : g[i] = h[i]
      /\ g[Len(h) + 1] = m /\ Len(g) = Len(h) + 1
  BY AppendedTo
<1>2. /\ Len(tools) \in Nat /\ Len(tools) >= 1 /\ DOMAIN tools = 1..Len(tools)
      /\ DOMAIN rest = 1..(Len(tools) - 1) /\ \A j \in 1..(Len(tools) - 1) : rest[j] = tools[j + 1]
  OBVIOUS
<1> HIDE DEF g, rest
<1> SUFFICES ASSUME NEW i \in DOMAIN g, i > 0, g[i].role = "assistant", NEW k \in DOMAIN g[i].calls
             PROVE  Reply(g, rest, i + k, g[i].calls[k])
  BY DEF WholeFrom, Whole, g, rest
<1>3. i \in DOMAIN h /\ g[i] = h[i]
  BY <1>1
<1>4. Reply(h, tools, i + k, h[i].calls[k]) /\ i \in Nat /\ k \in Nat
  BY <1>3, CallsOf DEF WholeFrom, Whole
<1> DEFINE n == i + k
           c == h[i].calls[k]
<1>5. Reply(h, tools, n, c) /\ n \in Nat
  BY <1>4
<1> HIDE DEF n, c
<1>6. Reply(g, rest, n, c)
  <2>1. CASE n \in DOMAIN h
    BY <1>1, <1>5, <2>1 DEF Reply
  <2>2. CASE n \notin DOMAIN h
    <3>1. n - Len(h) \in DOMAIN tools /\ tools[n - Len(h)].call = c
      BY <1>5, <2>2 DEF Reply
    <3>2. CASE n = Len(h) + 1
      BY <1>1, <1>2, <3>1, <3>2 DEF Reply
    <3>3. CASE n # Len(h) + 1
      <4> DEFINE j == n - Len(g)
      <4>1. j \in 1..(Len(tools) - 1) /\ j + 1 = n - Len(h) /\ n \notin DOMAIN g
        BY <1>1, <1>2, <1>5, <2>2, <3>1, <3>3
      <4> HIDE DEF j
      <4>2. rest[j] = tools[j + 1] /\ j \in DOMAIN rest
        BY <1>2, <4>1
      <4>3. QED  BY <3>1, <4>1, <4>2 DEF Reply, j
    <3>4. QED  BY <3>2, <3>3
  <2>3. QED  BY <2>1, <2>2
<1>7. QED  BY <1>3, <1>6 DEF n, c

\* What is owed is told by the calls of the tools.
LEMMA OwesTheSame ==
  ASSUME NEW h, NEW tools, NEW rest, DOMAIN rest = DOMAIN tools,
         \A i \in DOMAIN tools : rest[i].call = tools[i].call, Whole(h, tools)
  PROVE  Whole(h, rest)
BY DEF Whole, WholeFrom, Reply

\* The end of a history is whole if the history is.
LEMMA EndIsWhole ==
  ASSUME NEW h \in Histories, NEW n \in DOMAIN h, Replied(h)
  PROVE  Replied(SubSeq(h, n, Len(h)))
<1> DEFINE g == SubSeq(h, n, Len(h))
<1>1. /\ Len(h) \in Nat /\ n \in 1..Len(h) /\ DOMAIN h = 1..Len(h)
      /\ DOMAIN g = 1..(Len(h) - n + 1) /\ \A i \in 1..(Len(h) - n + 1) : g[i] = h[n + i - 1]
  BY SubSeqProperties DEF Histories
<1> HIDE DEF g
<1> SUFFICES ASSUME NEW i \in DOMAIN g, i > 0, g[i].role = "assistant", NEW k \in DOMAIN g[i].calls
             PROVE  Reply(g, <<>>, i + k, g[i].calls[k])
  BY DEF WholeFrom, Whole, Replied, g
<1> DEFINE j == n + i - 1
<1>2. j \in DOMAIN h /\ g[i] = h[j] /\ j > 0 /\ i \in Nat
  BY <1>1
<1>3. k \in Nat
  BY <1>2, CallsOf
<1>4. Reply(h, <<>>, j + k, h[j].calls[k])
  BY <1>2 DEF WholeFrom, Whole, Replied
<1>5. j + k \in DOMAIN h /\ h[j + k].role = "tool" /\ h[j + k].call = h[j].calls[k]
  BY <1>4 DEF Reply
<1>6. i + k \in 1..(Len(h) - n + 1) /\ n + (i + k) - 1 = j + k
  BY <1>1, <1>2, <1>3, <1>5
<1>7. i + k \in DOMAIN g /\ g[i + k] = h[j + k]
  BY <1>1, <1>6
<1>8. QED  BY <1>2, <1>5, <1>7 DEF Reply

\* A history is whole if what it begins with is, and what is behind.
LEMMA BothAreWhole ==
  ASSUME NEW h \in Histories, NEW g \in Histories, IsPrefix(h, g), Replied(h),
         WholeFrom(g, <<>>, Len(h))
  PROVE  Replied(g)
<1>1. h \in Seq(Messages) /\ g \in Seq(Messages) /\ Len(h) \in Nat /\ Len(g) \in Nat
      /\ DOMAIN h = 1..Len(h) /\ DOMAIN g = 1..Len(g)
  BY DEF Histories
<1>2. Len(h) <= Len(g) /\ \A i \in 1..Len(h) : h[i] = g[i]
  BY <1>1, PrefixIs
<1> SUFFICES ASSUME NEW i \in DOMAIN g, i > 0, g[i].role = "assistant", NEW k \in DOMAIN g[i].calls
             PROVE  Reply(g, <<>>, i + k, g[i].calls[k])
  BY DEF WholeFrom, Whole, Replied
<1>3. CASE i > Len(h)
  BY <1>3 DEF WholeFrom
<1>4. CASE ~(i > Len(h))
  <2>1. i \in DOMAIN h /\ h[i] = g[i]
    BY <1>1, <1>2, <1>4
  <2>2. Reply(h, <<>>, i + k, h[i].calls[k])
    BY <2>1 DEF WholeFrom, Whole, Replied
  <2>3. i + k \in DOMAIN h /\ h[i + k].role = "tool" /\ h[i + k].call = h[i].calls[k]
    BY <2>2 DEF Reply
  <2>4. i + k \in DOMAIN g /\ h[i + k] = g[i + k]
    BY <1>1, <1>2, <2>3
  <2>5. QED  BY <2>1, <2>3, <2>4 DEF Reply
<1>5. QED  BY <1>3, <1>4

-----------------------------------------------------------------------------
(* The fold keeps a journal sound.                                           *)

\* What is asked of an event, besides that the validator accepts it.
EventSound(J, e) ==
  /\ e.type = "history/replaced" => Replied(e.history)
  /\ e.type = "step/started" => ~J.turn.mustRoll
  /\ e.type = "step/completed" =>
       IF e.outcome = "completed" THEN J.turn.nonUser \/ Mute(J)
       ELSE e.recovered => e.rollbackTurn = RollsBack(J)
  /\ e.type = "message/appended" /\ e.message.role = "tool" =>
       J.tools # <<>> /\ e.message.call = J.tools[1].call
  /\ e.type = "message/appended" /\ e.message.role = "assistant" => IsInjective(e.message.calls)

\* The parts of a sound journal.
LEMMA SoundParts ==
  ASSUME NEW J \in Journals, Sound(J)
  PROVE  /\ Whole(J.hist, J.tools) /\ (J.tools = <<>> => Replied(J.hist))
         /\ J.turn # None => Replied(J.turn.before) /\ ~J.dead /\ J.turn \in Turns
         /\ J.turn = None => J.step = None
         /\ J.step = None => J.tools = <<>>
         /\ J.step # None => ~J.turn.mustRoll /\ J.turn \in Turns /\ J.turn # None /\ J.step \in Steps
         /\ J.tools # <<>> => J.step # None /\ J.step.pending = "nothing" /\ Laden(J) /\ J.turn.nonUser
         /\ Pending(J) # "nothing" => J.tools = <<>> /\ J.step # None
         /\ J.tools \in Seq(Tools) /\ J.hist \in Histories
  BY JournalFields, JournalHistories DEF Sound, Replied, Laden, Pending

\* In a journal without open calls, only the history and the turn need a look.
LEMMA SoundPlain ==
  ASSUME NEW K, K.tools = <<>>, K.count = 2, Replied(K.hist),
         K.turn # None => Replied(K.turn.before) /\ ~K.dead,
         IF K.step = None THEN RollsBack(K) => K.turn.mayRoll \/ ~K.turn.stepped \/ K.turn.rolled
         ELSE ~K.turn.mustRoll
  PROVE  Sound(K)
  BY DEF Sound, Replied

\* A message of the user.
LEMMA SoundUser ==
  ASSUME NEW J \in Journals, NEW e \in Events, Accepts(J, e), Sound(J),
         e.type = "message/appended", e.message.role = "user", NEW K, K = Advance(J, e)
  PROVE  Sound(K)
<1>1. J.step = None /\ J.tools = <<>> /\ e.message \in Messages
  BY EventFields DEF Accepts, Lives
<1>2. HistAfter(J, e) = Append(J.hist, e.message) /\ ToolsAfter(J, e) = J.tools
      /\ StepAfter(J, e) = J.step /\ DeadAfter(J, e) = J.dead /\ \A t : TurnAfter(J, e, t) => t = J.turn
  BY Zenon DEF HistAfter, ToolsAfter, StepAfter, DeadAfter, TurnAfter
<1>3. /\ K.hist = Append(J.hist, e.message) /\ K.tools = <<>> /\ K.step = None /\ K.dead = J.dead
      /\ K.turn = J.turn /\ K.count = 2
  BY <1>1, <1>2, Folds DEF Folded
<1>4. Replied(K.hist)
  BY <1>1, <1>3, SoundParts, AddsNoCall DEF Replied, Whole
<1>5. QED  BY <1>1, <1>3, <1>4, SoundPlain DEF Sound, RollsBack

\* The first of the calls still owed is the one a sound journal answers.
LEMMA FirstPlace ==
  ASSUME NEW J \in Journals, Sound(J), J.tools # <<>>
  PROVE  /\ IsOpen(J, J.tools[1].call) /\ Place(J, J.tools[1].call) = 1
         /\ At(J, J.tools[1].call) = J.tools[1].at /\ Says(J, J.tools[1].call) = J.tools[1].says
         /\ RemoveAt(J.tools, 1) = Tail(J.tools)
<1>1. J.tools \in Seq(Tools) /\ 1 \in DOMAIN J.tools
  BY SoundParts
<1>2. IsOpen(J, J.tools[1].call)
  BY <1>1 DEF IsOpen
<1>3. Place(J, J.tools[1].call) = 1
  BY <1>1, <1>2, Placed DEF Sound
<1>4. RemoveAt(J.tools, 1) = Tail(J.tools)
  BY <1>1 DEF RemoveAt
<1>5. QED  BY <1>2, <1>3, <1>4, Placed

\* A reply to a call.
LEMMA SoundReply ==
  ASSUME NEW J \in Journals, NEW e \in Events, Accepts(J, e), Sound(J), EventSound(J, e),
         e.type = "message/appended", e.message.role = "tool", NEW K, K = Advance(J, e)
  PROVE  Sound(K) /\ K.tools = Tail(J.tools)
<1>1. /\ J.step # None /\ J.tools # <<>> /\ e.message.call = J.tools[1].call /\ e.message \in Messages
  BY EventFields DEF Accepts, Lives, NeedsStep, EventSound
<1>2. HistAfter(J, e) = Append(J.hist, e.message) /\ ToolsAfter(J, e) = Tail(J.tools)
      /\ StepAfter(J, e) = J.step /\ DeadAfter(J, e) = J.dead
  BY <1>1, FirstPlace DEF HistAfter, ToolsAfter, StepAfter, DeadAfter
<1>3. /\ K.hist = Append(J.hist, e.message) /\ K.tools = Tail(J.tools) /\ K.step = J.step
      /\ K.dead = J.dead /\ K.count = 2
  BY <1>2, Folds DEF Folded
<1>4. /\ K.turn # None /\ K.turn.before = J.turn.before /\ K.turn.nonUser
      /\ (K.turn.mustRoll <=> J.turn.mustRoll)
  BY <1>1, SoundParts, TurnKeepsOn DEF TurnGoesOn
<1>5. Whole(K.hist, K.tools)
  BY <1>1, <1>3, SoundParts, AddsReply
<1>6. K.hist # <<>>
  BY <1>1, <1>3, SoundParts, AppendedTo
<1>7. \A i, j \in DOMAIN K.tools : K.tools[i].call = K.tools[j].call => i = j
  <2>1. /\ J.tools \in Seq(Tools) /\ Len(J.tools) \in Nat /\ DOMAIN J.tools = 1..Len(J.tools)
        /\ DOMAIN K.tools = 1..(Len(J.tools) - 1)
        /\ \A i \in 1..(Len(J.tools) - 1) : K.tools[i] = J.tools[i + 1]
    BY <1>1, <1>3, SoundParts
  <2>2. \A i, j \in 1..Len(J.tools) : J.tools[i].call = J.tools[j].call => i = j
    BY <2>1 DEF Sound
  <2>3. ASSUME NEW i \in DOMAIN K.tools, NEW j \in DOMAIN K.tools, K.tools[i].call = K.tools[j].call
        PROVE  i = j
    <3>1. i + 1 \in 1..Len(J.tools) /\ j + 1 \in 1..Len(J.tools)
      BY <2>1
    <3>2. i + 1 = j + 1
      BY <2>1, <2>2, <2>3, <3>1
    <3>3. QED  BY <2>1, <3>2
  <2>4. QED  BY <2>3
<1>8. QED  BY <1>1, <1>3, <1>4, <1>5, <1>6, <1>7, SoundParts DEF Sound, Laden

\* An answer.
LEMMA SoundAnswer ==
  ASSUME NEW J \in Journals, NEW e \in Events, Accepts(J, e), Sound(J), EventSound(J, e),
         e.type = "message/appended", e.message.role = "assistant", NEW K, K = Advance(J, e)
  PROVE  /\ Sound(K) /\ K.tools = Opens(e.message) /\ K.step # None /\ K.step.pending = "nothing"
         /\ K.turn # None /\ K.turn.nonUser
<1>1. /\ J.step # None /\ Pending(J) = "response" /\ e.message \in Messages
      /\ IsInjective(e.message.calls)
  BY EventFields DEF Accepts, Lives, NeedsStep, EventSound, Correlates, Repeats
<1>2. J.tools = <<>> /\ J.turn # None /\ ~J.turn.mustRoll /\ J.step \in Steps
  BY <1>1, SoundParts
<1>3. HistAfter(J, e) = Append(J.hist, e.message) /\ ToolsAfter(J, e) = Opens(e.message)
      /\ StepAfter(J, e) =
           [J.step EXCEPT !.pending = "nothing", !.expected = None, !.unprojected = FALSE]
      /\ DeadAfter(J, e) = J.dead
  BY DEF HistAfter, ToolsAfter, StepAfter, DeadAfter
<1>4. /\ K.hist = Append(J.hist, e.message) /\ K.tools = Opens(e.message) /\ K.dead = J.dead
      /\ K.step = [J.step EXCEPT !.pending = "nothing", !.expected = None, !.unprojected = FALSE]
      /\ K.count = 2 /\ K \in Journals
  BY <1>3, Folds DEF Folded
<1>5. K.step # None /\ K.step.pending = "nothing"
  <2>1. K.step \in Steps /\ K.step.pending = "nothing"
    BY Zenon, <1>2, <1>4 DEF Steps
  <2>2. QED  BY <1>4, <2>1, JournalHistories
<1>6. /\ K.turn # None /\ K.turn.before = J.turn.before /\ K.turn.nonUser /\ ~K.turn.mustRoll
  BY <1>2, TurnKeepsOn DEF TurnGoesOn
<1>7. Whole(K.hist, K.tools)
  BY <1>1, <1>2, <1>4, SoundParts, AddsCalls
<1>8. K.hist # <<>>
  BY <1>1, <1>4, SoundParts, AppendedTo
<1>9. \A i, j \in DOMAIN K.tools : K.tools[i].call = K.tools[j].call => i = j
  BY <1>1, <1>4 DEF Opens, IsInjective
<1>10. QED  BY <1>1, <1>2, <1>4, <1>5, <1>6, <1>7, <1>8, <1>9, SoundParts DEF Sound, Laden

\* The events of a call.
LEMMA SoundCall ==
  ASSUME NEW J \in Journals, NEW e \in Events, Accepts(J, e), Sound(J),
         e.type \in {"tool/call", "tool/execution-started", "tool/result"}, NEW K, K = Advance(J, e)
  PROVE  /\ Sound(K) /\ K.hist = J.hist /\ K.turn = J.turn /\ K.step = J.step /\ DOMAIN K.tools = DOMAIN J.tools
         /\ \A i \in DOMAIN J.tools :
              /\ K.tools[i].call = J.tools[i].call
              /\ J.tools[i].call # e.call => K.tools[i] = J.tools[i]
              /\ J.tools[i].call = e.call /\ e.type = "tool/result" =>
                   K.tools[i] = [call |-> e.call, at |-> "result", says |-> e.says]
<1>1. PICK at, says :
        /\ ToolsAfter(J, e) = SetTool(J, e.call, at, says).tools
        /\ e.type = "tool/result" => at = "result" /\ says = e.says
  BY DEF ToolsAfter
<1>2. HistAfter(J, e) = J.hist /\ StepAfter(J, e) = J.step /\ DeadAfter(J, e) = J.dead
      /\ \A t : TurnAfter(J, e, t) => t = J.turn
  BY Zenon DEF HistAfter, StepAfter, DeadAfter, TurnAfter
<1>3. /\ K.hist = J.hist /\ K.step = J.step /\ K.dead = J.dead /\ K.turn = J.turn /\ K.count = 2
      /\ K.tools = SetTool(J, e.call, at, says).tools
  BY <1>1, <1>2, Folds DEF Folded
<1>4. /\ DOMAIN K.tools = DOMAIN J.tools
      /\ \A i \in DOMAIN J.tools : K.tools[i] =
           IF J.tools[i].call = e.call THEN [call |-> e.call, at |-> at, says |-> says] ELSE J.tools[i]
  BY <1>3, ToolSet
<1>5. \A i \in DOMAIN J.tools :
        /\ K.tools[i].call = J.tools[i].call
        /\ J.tools[i].call # e.call => K.tools[i] = J.tools[i]
        /\ J.tools[i].call = e.call /\ e.type = "tool/result" =>
             K.tools[i] = [call |-> e.call, at |-> "result", says |-> e.says]
  BY <1>1, <1>4
<1>6. Whole(K.hist, K.tools)
  BY <1>3, <1>4, <1>5, OwesTheSame DEF Sound
<1>7. J.step # None /\ J.tools # <<>>
  <2>1. \E c : IsOpen(J, c)
    BY Zenon DEF Accepts, Correlates, Concludes, Dispatches
  <2>2. QED  BY <2>1 DEF IsOpen, Accepts, Lives, NeedsStep
<1>8. Sound(K)
  BY <1>3, <1>4, <1>5, <1>6, <1>7 DEF Sound, Laden
<1>9. QED  BY <1>3, <1>4, <1>5, <1>8

\* The continuation is set; the model is asked and answers.
LEMMA SoundModel ==
  ASSUME NEW J \in Journals, NEW e \in Events, Accepts(J, e), Sound(J),
         e.type \in {"adapter/state", "model/request-prepared", "model/response-received"},
         NEW K, K = Advance(J, e)
  PROVE  /\ Sound(K) /\ K.hist = J.hist /\ K.turn = J.turn /\ K.tools = J.tools /\ K.step = StepAfter(J, e)
         /\ K.step = None <=> J.step = None
<1>1. HistAfter(J, e) = J.hist /\ ToolsAfter(J, e) = J.tools /\ DeadAfter(J, e) = J.dead
      /\ \A t : TurnAfter(J, e, t) => t = J.turn
  BY Zenon DEF HistAfter, ToolsAfter, DeadAfter, TurnAfter
<1>2. /\ K.hist = J.hist /\ K.tools = J.tools /\ K.dead = J.dead /\ K.turn = J.turn /\ K.count = 2
      /\ K.step = StepAfter(J, e) /\ K \in Journals
  BY <1>1, Folds DEF Folded
<1>3. CASE e.type = "adapter/state"
  <2>1. K.step = J.step
    BY <1>2, <1>3 DEF StepAfter
  <2>2. QED  BY <1>2, <2>1 DEF Sound, RollsBack, Laden
<1>4. CASE e.type # "adapter/state"
  <2>1. J.step # None /\ J.tools = <<>>
    <3>1. Pending(J) = "request" \/ J.tools = <<>>
      BY <1>4 DEF Accepts, Correlates, Alternates
    <3>2. QED  BY <1>4, <3>1, SoundParts DEF Accepts, Lives, NeedsStep
  <2>2. K.step # None
    <3>1. J.step \in Steps /\ J.adapter \in Histories /\ (e.type = "model/response-received" => e.message \in Messages \cup {None})
      BY <2>1, SoundParts, JournalFields, EventFields
    <3>2. K.step \in Steps
      BY <1>2, <1>4, <3>1 DEF StepAfter, Steps
    <3>3. QED  BY <1>2, <3>2, JournalHistories
  <2>3. Sound(K)
    BY <1>2, <2>1, <2>2, SoundParts, SoundPlain
  <2>4. QED  BY <1>2, <2>1, <2>2, <2>3
<1>5. QED  BY <1>3, <1>4

\* How a step that ends leaves its turn.
LEMMA StepEnds ==
  ASSUME NEW J \in Journals, NEW e \in Events, Accepts(J, e), e.type = "step/completed", NEW K, K = Advance(J, e)
  PROVE  /\ K.turn.mayRoll <=> Breaks(e) \/ (e.outcome = "completed" /\ J.step.pending = "response"
                                             /\ J.step.expected = None)
         /\ J.turn \in Turns /\ J.turn # None /\ J.step # None /\ J.tools = <<>>
<1> DEFINE b == (e.outcome = "completed" /\ J.step.pending = "response" /\ J.step.expected = None) \/ Breaks(e)
           E == [J EXCEPT !.step = None, !.turn.mayRoll = b, !.turn.mustRoll = @ \/ Breaks(e)]
<1>1. J.step # None /\ J.tools = <<>>
  BY DEF Accepts, Lives, Ends
<1>2. J.turn \in Turns /\ J.turn # None
  BY <1>1, JournalHistories
<1>3. Effect(J, e) = E
  BY DEF Effect, AfterStep, Breaks
<1> HIDE DEF b
<1>4. E.turn.mayRoll = b
  BY <1>2 DEF Journals, Turns
<1> HIDE DEF E
<1>5. K.turn = E.turn
  BY <1>3, Folds DEF Advance, Journals
<1>6. QED  BY <1>1, <1>2, <1>4, <1>5 DEF b

\* A turn or a step begins or ends.
LEMMA SoundTurn ==
  ASSUME NEW J \in Journals, NEW e \in Events, Accepts(J, e), Sound(J), EventSound(J, e),
         e.type \in {"turn/started", "turn/ended", "step/started", "step/completed"}, NEW K, K = Advance(J, e)
  PROVE  Sound(K)
<1>1. HistAfter(J, e) = J.hist /\ ToolsAfter(J, e) = J.tools /\ DeadAfter(J, e) = J.dead
  BY DEF HistAfter, ToolsAfter, DeadAfter
<1>2. /\ K.hist = J.hist /\ K.tools = J.tools /\ K.dead = J.dead /\ K.count = 2
      /\ TurnAfter(J, e, K.turn) /\ K.step = StepAfter(J, e)
  BY <1>1, Folds DEF Folded
<1>3. J.tools = <<>>
  BY SoundParts DEF Accepts, Lives, Starts, Ends
<1>4. Replied(K.hist) /\ K.tools = <<>> /\ K.count = 2
  BY <1>2, <1>3, SoundParts
<1>5. CASE e.type = "turn/started"
  <2>1. K.turn = OpenTurn(J) /\ K.step = J.step /\ J.turn = None /\ ~J.dead
    BY <1>2, <1>5 DEF TurnAfter, StepAfter, Accepts, Lives, Starts
  <2>2. K.step = None /\ K.turn.before = J.hist /\ ~K.turn.stepped
    BY <2>1, SoundParts DEF OpenTurn
  <2>3. QED  BY <1>2, <1>4, <2>1, <2>2, SoundPlain
<1>6. CASE e.type = "turn/ended"
  <2>1. K.turn = None /\ K.step = None
    BY <1>2, <1>6 DEF TurnAfter, StepAfter, Accepts, Lives, Ends
  <2>2. QED  BY <1>4, <2>1, SoundPlain DEF RollsBack
<1>7. CASE e.type = "step/started"
  <2>1. K.step = OpenStep(J) /\ J.turn # None /\ ~J.turn.mustRoll
    BY <1>2, <1>7 DEF StepAfter, Accepts, Lives, Starts, EventSound
  <2>2. K.turn # None /\ K.turn.before = J.turn.before /\ ~K.turn.mustRoll
    BY <1>7, <2>1, TurnKeepsOn DEF TurnGoesOn
  <2>3. K.step # None
    <3>1. OpenStep(J) \in Steps
      BY JournalFields DEF OpenStep, Steps
    <3>2. QED  BY <2>1, <3>1, NoneAssumption
  <2>4. QED  BY <1>2, <1>4, <2>1, <2>2, <2>3, SoundParts, SoundPlain
<1>8. CASE e.type = "step/completed"
  <2>1. K.step = None /\ J.step # None /\ J.turn # None /\ ~J.turn.mustRoll
    BY <1>2, <1>8, SoundParts DEF StepAfter, Accepts, Lives, Ends
  <2>2. /\ K.turn # None /\ K.turn.before = J.turn.before
        /\ (K.turn.mustRoll <=> Breaks(e)) /\ (K.turn.nonUser <=> J.turn.nonUser)
    BY <1>8, <2>1, TurnKeepsOn DEF TurnGoesOn
  <2>3. K.turn.mayRoll <=> Breaks(e) \/ (e.outcome = "completed" /\ J.step.pending = "response"
                                             /\ J.step.expected = None)
    BY <1>8, StepEnds
  <2>4. RollsBack(K) => K.turn.mayRoll
    <3>1. CASE e.outcome = "completed"
      BY <1>8, <2>1, <2>2, <2>3, <3>1 DEF RollsBack, EventSound, Mute, Stepping, Breaks
    <3>2. CASE e.outcome # "completed"
      BY <1>8, <2>1, <2>2, <2>3, <3>2 DEF RollsBack, EventSound, Breaks
    <3>3. QED  BY <3>1, <3>2
  <2>5. QED  BY <1>2, <1>4, <2>1, <2>2, <2>4, SoundParts, SoundPlain
<1>9. QED  BY <1>5, <1>6, <1>7, <1>8

\* The history is replaced, or the session reset or destroyed.
LEMMA SoundReplacement ==
  ASSUME NEW J \in Journals, NEW e \in Events, Accepts(J, e), Sound(J), EventSound(J, e),
         e.type \in {"history/replaced", "session/reset", "session/destroyed"}, NEW K, K = Advance(J, e)
  PROVE  Sound(K)
<1>1. ToolsAfter(J, e) = J.tools /\ StepAfter(J, e) = J.step
  BY DEF ToolsAfter, StepAfter
<1>2. /\ K.tools = <<>> /\ K.step = None /\ K.count = 2 /\ J.step = None /\ J.tools = <<>>
      /\ K.hist = HistAfter(J, e) /\ K.dead = DeadAfter(J, e)
  BY <1>1, Folds DEF Folded, Accepts, Lives, Replaces, Closes
<1>3. CASE e.type = "history/replaced"
  <2>1. K.hist = e.history /\ K.dead = J.dead
    BY <1>2, <1>3 DEF HistAfter, DeadAfter
  <2>2. IF J.turn = None THEN K.turn = None
        ELSE K.turn # None /\ K.turn.before = J.turn.before /\ K.turn.rolled
    BY <1>3, TurnKeepsOn DEF TurnGoesOn
  <2>3. QED  BY <1>2, <1>3, <2>1, <2>2, SoundParts, SoundPlain DEF EventSound, RollsBack
<1>4. CASE e.type # "history/replaced"
  <2>1. J.turn = None
    BY <1>4 DEF Accepts, Lives, Closes
  <2>2. K.turn = None
    BY <2>1, TurnKeepsOn
  <2>3. Replied(K.hist)
    <3>1. K.hist = <<>> \/ K.hist = J.hist
      BY <1>2, <1>4 DEF HistAfter
    <3>2. QED  BY <1>2, <3>1, SoundParts, NothingAsked DEF Replied, Whole
  <2>4. QED  BY <1>2, <2>2, <2>3, SoundPlain DEF RollsBack
<1>5. QED  BY <1>3, <1>4

\* The fold keeps a journal sound.
LEMMA StaysSound ==
  ASSUME NEW J \in Journals, NEW e \in Events, Accepts(J, e), Sound(J), EventSound(J, e)
  PROVE  Sound(Advance(J, e))
<1> DEFINE K == Advance(J, e)
<1> HIDE DEF K
<1>1. CASE e.type = "message/appended"
  BY <1>1, EventFields, MessageFields, SoundUser, SoundReply, SoundAnswer DEF K
<1>2. CASE e.type \in {"tool/call", "tool/execution-started", "tool/result"}
  BY <1>2, SoundCall DEF K
<1>3. CASE e.type \in {"adapter/state", "model/request-prepared", "model/response-received"}
  BY <1>3, SoundModel DEF K
<1>4. CASE e.type \in {"turn/started", "turn/ended", "step/started", "step/completed"}
  BY <1>4, SoundTurn DEF K
<1>5. CASE e.type \in {"history/replaced", "session/reset", "session/destroyed"}
  BY <1>5, SoundReplacement DEF K
<1>6. QED  BY <1>1, <1>2, <1>3, <1>4, <1>5, EventFields DEF K

-----------------------------------------------------------------------------
(* What an operation has left to append, the validator accepts.              *)

\* Most events stand for themselves.
LEMMA Correlated ==
  ASSUME NEW J, NEW e,
         \/ e.type \in {"turn/started", "turn/ended", "step/started", "step/completed", "adapter/state",
                        "history/replaced", "session/reset", "session/destroyed"}
         \/ e.type = "message/appended" /\ e.message.role = "user",
         \/ Pending(J) = "nothing" \/ AdapterEvent(e) \/ Fails(e)
         \/ e.type = "step/completed" /\ Pending(J) = "response" /\ J.step.expected = None
  PROVE  Correlates(J, e)
<1>1. AwaitsResponse(J, e) /\ AwaitsProjection(J, e)
  BY DEF AwaitsResponse, AwaitsProjection, Projects, Fails
<1>2. Alternates(J, e) /\ Dispatches(J, e) /\ Concludes(J, e) /\ Repeats(J, e)
  BY DEF Alternates, Dispatches, Concludes, Repeats
<1>3. QED  BY <1>1, <1>2 DEF Correlates

\* The continuation may be set in any open turn.
LEMMA AcceptsAdapter ==
  ASSUME NEW J, Sound(J), J.turn # None, NEW e, e.type = "adapter/state"
  PROVE  Accepts(J, e)
<1>1. Correlates(J, e)
  BY Correlated DEF AdapterEvent
<1>2. Lives(J, e)
  BY DEF Lives, NeedsStep, Replaces, Starts, Ends, Closes
<1>3. QED  BY <1>1, <1>2 DEF Accepts, Sound

\* A step may be closed when its calls are answered, and its response projected.
LEMMA AcceptsCompletion ==
  ASSUME NEW J \in Journals, Sound(J), J.step # None, J.tools = <<>>, NEW e, e.type = "step/completed",
         J.step.pending = "nothing" \/ e.outcome # "completed" \/ Mute(J)
  PROVE  Accepts(J, e)
<1>1. Correlates(J, e)
  <2>1. Pending(J) = J.step.pending
    BY DEF Pending
  <2>2. QED  BY <2>1, Correlated DEF Fails, Mute, Stepping
<1>2. Lives(J, e)
  BY DEF Lives, NeedsStep, Replaces, Starts, Ends, Closes
<1>3. QED  BY <1>1, <1>2, SoundParts DEF Accepts

\* Between steps a turn may be ended, a message of the user said, a step begun and the history put back.
LEMMA AcceptsInTurn ==
  ASSUME NEW J \in Journals, Sound(J), J.turn # None, J.step = None, NEW e,
         \/ e.type \in {"turn/ended", "step/started"}
         \/ e.type = "message/appended" /\ e.message.role = "user"
         \/ /\ e.type = "history/replaced" /\ e.thread = None /\ ~e.clear
            /\ \/ e.reason \in InternalRollbacks
               \/ e.recovered /\ RollsBack(J)
  PROVE  Accepts(J, e)
<1>1. Pending(J) = "nothing" /\ J.tools = <<>> /\ ~J.dead
  BY SoundParts DEF Pending
<1>2. Correlates(J, e)
  BY <1>1, Correlated
<1>3. Lives(J, e)
  <2>1. e.type = "history/replaced" => MayReplace(J, e)
    BY DEF MayReplace, Sound
  <2>2. QED  BY <1>1, <2>1 DEF Lives, NeedsStep, Replaces, Starts, Ends, Closes
<1>4. QED  BY <1>1, <1>2, <1>3 DEF Accepts

\* Between turns the history may be replaced, the session reset or destroyed, and a turn begun.
LEMMA AcceptsOutside ==
  ASSUME NEW J \in Journals, Sound(J), J.turn = None, ~J.dead, NEW e,
         \/ e.type \in {"turn/started", "session/reset", "session/destroyed"}
         \/ e.type = "message/appended" /\ e.message.role = "user"
         \/ e.type = "history/replaced" /\ ~e.recovered
  PROVE  Accepts(J, e)
<1>1. Pending(J) = "nothing" /\ J.tools = <<>> /\ J.step = None
  BY SoundParts DEF Pending
<1>2. Correlates(J, e)
  BY <1>1, Correlated
<1>3. Lives(J, e)
  BY <1>1 DEF Lives, NeedsStep, Replaces, MayReplace, Starts, Ends, Closes
<1>4. QED  BY <1>1, <1>2, <1>3 DEF Accepts

\* The model is asked, once a step, and its response awaited.
LEMMA AcceptsModel ==
  ASSUME NEW J \in Journals, Sound(J), J.step # None, NEW e,
         \/ e.type = "model/request-prepared" /\ e.history = J.hist /\ Stepping(J, "nothing") /\ ~J.step.asked
         \/ e.type = "model/response-received" /\ Stepping(J, "request")
         \/ /\ e.type = "message/appended" /\ e.message.role = "assistant" /\ Stepping(J, "response")
            /\ e.message = J.step.expected /\ J.step.expected # None
  PROVE  Accepts(J, e)
<1>1. J.turn # None /\ ~J.dead /\ Pending(J) = J.step.pending /\ J.tools = <<>>
  BY SoundParts DEF Pending, Stepping
<1>2. AwaitsResponse(J, e) /\ AwaitsProjection(J, e)
  BY <1>1 DEF AwaitsResponse, AwaitsProjection, Projects, Stepping
<1>3. Alternates(J, e) /\ Dispatches(J, e) /\ Concludes(J, e) /\ Repeats(J, e)
  BY <1>1 DEF Alternates, Dispatches, Concludes, Repeats, Stepping
<1>4. Lives(J, e)
  BY <1>1 DEF Lives, NeedsStep, Replaces, Starts, Ends, Closes
<1>5. QED  BY <1>1, <1>2, <1>3, <1>4 DEF Accepts, Correlates

\* The receipt of the first call still owed.
LEMMA AcceptsReply ==
  ASSUME NEW J \in Journals, Sound(J), J.tools # <<>>, J.tools[1].at = "result", NEW e,
         e = Message(Receipt(J.tools[1].call, J.tools[1].says))
  PROVE  Accepts(J, e) /\ EventSound(J, e)
<1>1. /\ e.type = "message/appended" /\ e.message.role = "tool" /\ e.message.call = J.tools[1].call
      /\ e.message.says = J.tools[1].says
  BY DEF Message, Receipt
<1>2. J.turn # None /\ J.step # None /\ ~J.dead /\ Pending(J) = "nothing"
  BY SoundParts DEF Pending
<1>3. AwaitsResponse(J, e) /\ AwaitsProjection(J, e) /\ Alternates(J, e) /\ Dispatches(J, e) /\ Concludes(J, e)
  BY <1>1, <1>2 DEF AwaitsResponse, AwaitsProjection, Alternates, Dispatches, Concludes
<1>4. Repeats(J, e)
  BY <1>1, FirstPlace DEF Repeats
<1>5. Lives(J, e)
  BY <1>1, <1>2 DEF Lives, NeedsStep, Replaces, Starts, Ends, Closes
<1>6. EventSound(J, e)
  BY <1>1 DEF EventSound
<1>7. QED  BY <1>1, <1>2, <1>3, <1>4, <1>5, <1>6 DEF Accepts, Correlates

\* The result that recovery gives the first call still owed.
LEMMA AcceptsRecovered ==
  ASSUME NEW J \in Journals, Sound(J), J.tools # <<>>, J.tools[1].at # "result", NEW e,
         e.type = "tool/result", e.call = J.tools[1].call, e.recovered,
         e.says = IF J.tools[1].at = "started" THEN "unknown" ELSE "not executed"
  PROVE  Accepts(J, e) /\ EventSound(J, e)
<1>1. J.turn # None /\ J.step # None /\ ~J.dead /\ Pending(J) = "nothing"
  BY SoundParts DEF Pending
<1>2. AwaitsResponse(J, e) /\ AwaitsProjection(J, e) /\ Alternates(J, e) /\ Dispatches(J, e) /\ Repeats(J, e)
  BY <1>1 DEF AwaitsResponse, AwaitsProjection, Alternates, Dispatches, Repeats
<1>3. Concludes(J, e)
  BY FirstPlace DEF Concludes
<1>4. Lives(J, e)
  BY <1>1 DEF Lives, NeedsStep, Replaces, Starts, Ends, Closes
<1>5. EventSound(J, e)
  BY DEF EventSound
<1>6. QED  BY <1>1, <1>2, <1>3, <1>4, <1>5 DEF Accepts, Correlates

\* What is asked of the next event of an operation, and what is left behind it.
GoesWell(r, todo, then, J, e) ==
  /\ r.started \/ J.turn = None \/ then = "import" => Accepts(J, e) \/ J.dead
  /\ Accepts(J, e) =>
       /\ EventSound(J, e)
       /\ IF Tail(todo) = <<>> THEN StandsWell(r, then, Advance(J, e))
          ELSE MeansWell(r, Tail(todo), then, Advance(J, e))

\* A turn goes on with any event that neither begins nor ends it.
LEMMA GoingOn ==
  ASSUME NEW J \in Journals, NEW e \in Events, Accepts(J, e), NEW r, Going(r, J),
         e.type \notin {"turn/started", "turn/ended"}
  PROVE  Going(r, Advance(J, e))
<1>1. J.turn # None /\ Advance(J, e).turn # None
  BY TurnKeepsOn DEF Going, TurnGoesOn
<1>2. QED  BY <1>1 DEF Going

\* Before a turn: the thread is switched, the history made to fit, a message taken in, the session reset.
LEMMA AdmitsOutside ==
  ASSUME NEW J \in Journals, Sound(J), NEW r, NEW todo, NEW e \in Events, e = Head(todo),
         NEW then \in {"budget", "open", "idle", "ended"}, MeansWell(r, todo, then, J)
  PROVE  GoesWell(r, todo, then, J, e)
<1>1. Alone(todo) /\ e = todo[1] /\ Tail(todo) = <<>> /\ ~r.started
  BY Short DEF MeansWell, Makes
<1>2. CASE then = "ended"
  <2>1. Outside(e)
    BY <1>1, <1>2 DEF MeansWell
  <2>2. EventSound(J, e)
    BY <2>1 DEF EventSound, Outside
  <2>3. StandsWell(r, then, Advance(J, e))
    BY <1>2 DEF StandsWell, Aside
  <2>4. J.turn = None => Accepts(J, e) \/ J.dead
    BY <2>1, AcceptsOutside DEF Outside
  <2>5. QED  BY <1>1, <1>2, <2>2, <2>3, <2>4 DEF GoesWell
<1>3. CASE then # "ended"
  <2>1. /\ e.type = "history/replaced" /\ ~e.recovered
        /\ J.turn = None => Replied(e.history)
        /\ e.clear \/ J.turn = None
    BY <1>1, <1>3 DEF MeansWell, Makes
  <2>2. Accepts(J, e) => J.turn = None
    BY <2>1 DEF Accepts, Lives, Replaces, MayReplace
  <2>3. Accepts(J, e) => EventSound(J, e)
    BY <2>1, <2>2 DEF EventSound
  <2>4. StandsWell(r, then, Advance(J, e))
    BY <1>3 DEF StandsWell, Aside, MeansWell
  <2>5. J.turn = None => Accepts(J, e) \/ J.dead
    BY <2>1, AcceptsOutside
  <2>6. QED  BY <1>1, <1>3, <2>3, <2>4, <2>5 DEF GoesWell
<1>4. QED  BY <1>2, <1>3

\* The turn is opened.
LEMMA AdmitsOpened ==
  ASSUME NEW J \in Journals, Sound(J), NEW r, NEW todo, NEW e \in Events, e = Head(todo),
         MeansWell(r, todo, "opened", J)
  PROVE  GoesWell(r, todo, "opened", J, e)
<1>1. /\ todo = <<TurnStarted>> /\ ~r.started /\ ~r.recovering /\ r.checkpoint = None
      /\ r.before = J.hist
  BY DEF MeansWell
<1>2. e.type = "turn/started" /\ Tail(todo) = <<>>
  BY <1>1, Short DEF TurnStarted
<1>3. EventSound(J, e)
  BY <1>2 DEF EventSound
<1>4. J.turn = None => Accepts(J, e) \/ J.dead
  BY <1>2, AcceptsOutside
<1>5. ASSUME Accepts(J, e) PROVE StandsWell(r, "opened", Advance(J, e))
  <2> DEFINE K == Advance(J, e)
  <2>1. J.turn = None /\ J.step = None /\ Replied(J.hist)
    BY <1>2, <1>5, SoundParts DEF Accepts, Lives, Starts
  <2>2. K.turn = OpenTurn(J) /\ K.step = None /\ K \in Journals
    <3>1. StepAfter(J, e) = J.step /\ \A t : TurnAfter(J, e, t) => t = OpenTurn(J)
      BY Zenon, <1>2 DEF StepAfter, TurnAfter
    <3>2. QED  BY <1>5, <2>1, <3>1, Folds DEF Folded
  <2>3. OpenTurn(J) # None
    <3>1. OpenTurn(J) \in Turns
      BY JournalFields DEF OpenTurn, Turns
    <3>2. QED  BY <3>1, NoneAssumption
  <2>4. Rested(K)
    BY <2>2, <2>3 DEF Rested, OpenTurn
  <2> HIDE DEF K
  <2>5. QED  BY <1>1, <2>1, <2>4 DEF StandsWell, K
<1>6. QED  BY <1>1, <1>2, <1>3, <1>4, <1>5 DEF GoesWell

\* A step that is over leaves its turn at rest.
LEMMA ComesToRest ==
  ASSUME NEW J \in Journals, Sound(J), NEW e \in Events, Accepts(J, e), e = StepCompleted("completed")
  PROVE  LET K == Advance(J, e) IN Rested(K)
<1> DEFINE K == Advance(J, e)
<1>1. e.type = "step/completed" /\ ~Breaks(e)
  BY DEF StepCompleted, Breaks
<1>2. J.step # None /\ J.turn # None /\ ~J.turn.mustRoll
  BY <1>1, SoundParts DEF Accepts, Lives, Ends
<1>3. K.step = None
  <2>1. StepAfter(J, e) = None
    BY <1>1 DEF StepAfter
  <2>2. QED  BY <2>1, Folds DEF Folded
<1>4. K.turn # None /\ ~K.turn.mustRoll
  BY <1>1, <1>2, TurnKeepsOn DEF TurnGoesOn
<1>5. QED  BY <1>3, <1>4 DEF Rested

\* The user speaks, or a step with tools ends.
LEMMA AdmitsRound ==
  ASSUME NEW J \in Journals, Sound(J), NEW r, NEW todo, NEW e \in Events, e = Head(todo),
         MeansWell(r, todo, "round", J)
  PROVE  GoesWell(r, todo, "round", J, e)
<1>1. /\ Going(r, J)
      /\ \/ Alone(todo) /\ Outside(todo[1]) /\ todo[1].type = "message/appended" /\ Rested(J)
         \/ Passes(todo) /\ Worked(J)
  BY DEF MeansWell
<1>2. CASE Alone(todo) /\ Outside(todo[1]) /\ todo[1].type = "message/appended" /\ Rested(J)
  <2>1. Tail(todo) = <<>> /\ e.type = "message/appended" /\ e.message.role = "user"
    BY <1>2, Short DEF Outside
  <2>2. Accepts(J, e)
    BY <1>2, <2>1, AcceptsInTurn DEF Rested
  <2>3. EventSound(J, e)
    BY <2>1 DEF EventSound
  <2>4. Rested(Advance(J, e))
    <3>1. StepAfter(J, e) = J.step /\ \A t : TurnAfter(J, e, t) => t = J.turn
      BY Zenon, <2>1 DEF StepAfter, TurnAfter
    <3>2. QED  BY <1>2, <2>2, <3>1, Folds DEF Folded, Rested
  <2>5. StandsWell(r, "round", Advance(J, e))
    BY <1>1, <2>1, <2>2, <2>4, GoingOn DEF StandsWell, Aside
  <2>6. QED  BY <2>1, <2>2, <2>3, <2>5 DEF GoesWell
<1>3. CASE Passes(todo) /\ Worked(J)
  <2>1. Tail(todo) = <<>> /\ e = StepCompleted("completed")
    BY <1>3, Short DEF Passes
  <2>2. e.type = "step/completed" /\ e.outcome = "completed"
    BY <2>1 DEF StepCompleted
  <2>3. Accepts(J, e)
    BY <1>3, <2>2, AcceptsCompletion DEF Worked, Stepping
  <2>4. EventSound(J, e)
    BY <1>3, <2>2 DEF EventSound, Worked
  <2>5. StandsWell(r, "round", Advance(J, e))
    BY <1>1, <2>1, <2>2, <2>3, GoingOn, ComesToRest DEF StandsWell, Aside
  <2>6. QED  BY <2>1, <2>3, <2>4, <2>5 DEF GoesWell
<1>4. QED  BY <1>1, <1>2, <1>3

\* A step begins, and the model is asked with the history as it is.
LEMMA AdmitsAsked ==
  ASSUME NEW J \in Journals, Sound(J), NEW r, NEW todo, NEW e \in Events, e = Head(todo),
         NEW then \in {"request", "model"}, MeansWell(r, todo, then, J)
  PROVE  GoesWell(r, todo, then, J, e)
<1> DEFINE K == Advance(J, e)
<1>1. CASE then = "request"
  <2>1. Going(r, J) /\ todo = <<StepStarted>> /\ Rested(J)
    BY <1>1 DEF MeansWell
  <2>2. Tail(todo) = <<>> /\ e.type = "step/started"
    BY <2>1, Short DEF StepStarted
  <2>3. Accepts(J, e) /\ EventSound(J, e)
    BY <2>1, <2>2, AcceptsInTurn DEF EventSound, Rested
  <2>4. K.step = OpenStep(J) /\ K.tools = <<>> /\ K \in Journals
    <3>1. StepAfter(J, e) = OpenStep(J) /\ ToolsAfter(J, e) = J.tools
      BY <2>2 DEF StepAfter, ToolsAfter
    <3>2. QED  BY <2>1, <2>3, <3>1, Folds, SoundParts DEF Folded, Rested
  <2>5. OpenStep(J) # None
    <3>1. OpenStep(J) \in Steps
      BY JournalFields DEF OpenStep, Steps
    <3>2. QED  BY <3>1, NoneAssumption
  <2>6. Stepping(K, "nothing") /\ ~K.step.asked
    BY <2>4, <2>5 DEF Stepping, OpenStep
  <2>7. Going(r, K)
    BY <2>1, <2>2, <2>3, GoingOn
  <2> HIDE DEF K
  <2>8. StandsWell(r, "request", K)
    BY <2>6, <2>7 DEF StandsWell, Aside
  <2>9. QED  BY <1>1, <2>2, <2>3, <2>8 DEF GoesWell, K
<1>2. CASE then = "model"
  <2>1. Going(r, J) /\ todo = <<Request(J.hist)>> /\ Stepping(J, "nothing") /\ ~J.step.asked
    BY <1>2 DEF MeansWell
  <2>2. Tail(todo) = <<>> /\ e.type = "model/request-prepared" /\ e.history = J.hist
    BY <2>1, Short DEF Request
  <2>3. J.step # None /\ J.step \in Steps
    BY <2>1, SoundParts DEF Stepping
  <2>4. Accepts(J, e) /\ EventSound(J, e)
    BY <2>1, <2>2, <2>3, AcceptsModel DEF EventSound
  <2>5. /\ K.step = [J.step EXCEPT !.pending = "request", !.asked = TRUE,
                        !.adapterBefore = J.adapter, !.unprojected = TRUE]
        /\ K.tools = <<>> /\ K.step # None
    <3>1. K.step = StepAfter(J, e) /\ K.tools = J.tools /\ (K.step = None <=> J.step = None)
      BY <2>2, <2>4, SoundModel
    <3>2. StepAfter(J, e) = [J.step EXCEPT !.pending = "request", !.asked = TRUE,
                        !.adapterBefore = J.adapter, !.unprojected = TRUE]
      BY <2>2 DEF StepAfter
    <3>3. QED  BY <2>1, <2>3, <3>1, <3>2 DEF Stepping
  <2>6. K.step.pending = "request"
    BY <2>3, <2>5 DEF Steps
  <2>7. Going(r, K)
    BY <2>1, <2>2, <2>4, GoingOn
  <2> HIDE DEF K
  <2>8. StandsWell(r, "model", K)
    BY <2>5, <2>6, <2>7 DEF StandsWell, Stepping, Aside
  <2>9. QED  BY <1>2, <2>2, <2>4, <2>8 DEF GoesWell, K
<1>3. QED  BY <1>1, <1>2

\* The continuation is set: the turn and the step stay where they were.
LEMMA SetsContinuation ==
  ASSUME NEW J \in Journals, Sound(J), J.turn # None, NEW e \in Events, e.type = "adapter/state"
  PROVE  /\ Accepts(J, e) /\ EventSound(J, e)
         /\ LET K == Advance(J, e) IN
            K.step = J.step /\ K.turn = J.turn /\ K.tools = J.tools /\ K.hist = J.hist /\ K.adapter = e.state
<1>1. Accepts(J, e)
  BY AcceptsAdapter
<1>2. StepAfter(J, e) = J.step /\ AdapterAfter(J, e) = e.state
  BY DEF StepAfter, AdapterAfter
<1>3. QED  BY <1>1, <1>2, SoundModel, Folds DEF EventSound, Folded

\* The response is received, and the continuation that comes with it.
LEMMA AdmitsResponse ==
  ASSUME NEW J \in Journals, Sound(J), NEW r, NEW todo, NEW e \in Events, e = Head(todo),
         MeansWell(r, todo, "response", J)
  PROVE  GoesWell(r, todo, "response", J, e)
<1> DEFINE K == Advance(J, e)
<1>1. /\ Going(r, J) /\ J.turn # None
      /\ \/ /\ Stepping(J, "request") /\ Reads(r, todo[1].message) /\ todo[1].type = "model/response-received"
            /\ Alone(todo) \/ todo = <<todo[1], Adapter(todo[2].state)>>
         \/ Makes(todo, "adapter/state") /\ Stepping(J, "response") /\ Reads(r, J.step.expected)
  BY DEF MeansWell, Going
<1>2. CASE Makes(todo, "adapter/state") /\ Stepping(J, "response") /\ Reads(r, J.step.expected)
  <2>1. Tail(todo) = <<>> /\ e.type = "adapter/state"
    BY <1>2, Short DEF Makes
  <2>2. Accepts(J, e) /\ EventSound(J, e) /\ K.step = J.step /\ K.tools = J.tools
    BY <1>1, <2>1, SetsContinuation
  <2>3. Going(r, K)
    BY <1>1, <2>1, <2>2, GoingOn
  <2> HIDE DEF K
  <2>4. StandsWell(r, "response", K)
    BY <1>2, <2>2, <2>3 DEF StandsWell, Stepping, Aside
  <2>5. QED  BY <2>1, <2>2, <2>4 DEF GoesWell, K
<1>3. CASE /\ Stepping(J, "request") /\ Reads(r, todo[1].message) /\ todo[1].type = "model/response-received"
           /\ Alone(todo) \/ todo = <<todo[1], Adapter(todo[2].state)>>
  <2>1. e = todo[1]
    BY <1>3, Short
  <2>2. Accepts(J, e) /\ EventSound(J, e)
    BY <1>3, <2>1, AcceptsModel DEF EventSound, Stepping
  <2>3. J.step \in Steps /\ J.step # None
    BY <1>3, SoundParts DEF Stepping
  <2>4. /\ K.step = [J.step EXCEPT !.pending = "response", !.expected = e.message]
        /\ K.tools = <<>> /\ K.step # None
    <3>1. K.step = StepAfter(J, e) /\ K.tools = J.tools /\ (K.step = None <=> J.step = None)
      BY <1>3, <2>1, <2>2, SoundModel
    <3>2. StepAfter(J, e) = [J.step EXCEPT !.pending = "response", !.expected = e.message]
      BY <1>3, <2>1 DEF StepAfter
    <3>3. QED  BY <1>3, <2>3, <3>1, <3>2 DEF Stepping
  <2>5. Stepping(K, "response") /\ K.step.expected = e.message
    BY <2>3, <2>4 DEF Steps, Stepping
  <2>6. Going(r, K)
    BY <1>1, <1>3, <2>1, <2>2, GoingOn
  <2> HIDE DEF K
  <2>7. CASE Alone(todo)
    <3>1. Tail(todo) = <<>>
      BY <2>7, Short
    <3>2. StandsWell(r, "response", K)
      BY <1>3, <2>1, <2>5, <2>6 DEF StandsWell, Aside
    <3>3. QED  BY <2>2, <3>1, <3>2 DEF GoesWell, K
  <2>8. CASE todo = <<todo[1], Adapter(todo[2].state)>>
    <3> DEFINE a == Adapter(todo[2].state)
    <3>2. a.type = "adapter/state"
      BY DEF Adapter
    <3>1. Tail(todo) = <<a>> /\ Tail(todo) # <<>>
      <4> HIDE DEF a
      <4>1. todo = <<todo[1], a>>
        BY <2>8 DEF a
      <4>2. Tail(todo) = <<a>>
        BY Zenon, <4>1, Short
      <4>3. <<a>> # <<>>
        OBVIOUS
      <4>4. QED  BY <4>2, <4>3
    <3>3. Makes(Tail(todo), "adapter/state")
      BY <3>1, <3>2, Short DEF Makes
    <3>4. MeansWell(r, Tail(todo), "response", K)
      BY <1>3, <2>1, <2>5, <2>6, <3>3 DEF MeansWell
    <3>5. QED  BY <2>2, <3>1, <3>4 DEF GoesWell, K
  <2>9. QED  BY <1>3, <2>7, <2>8
<1>4. QED  BY <1>1, <1>2, <1>3

\* The answer of the model is said: its calls are owed.
LEMMA AdmitsSpoken ==
  ASSUME NEW J \in Journals, Sound(J), NEW r, NEW todo, NEW e \in Events, e = Head(todo),
         NEW then \in {"dispatch", "spoken"}, MeansWell(r, todo, then, J)
  PROVE  GoesWell(r, todo, then, J, e)
<1> DEFINE K == Advance(J, e)
<1>1. PICK calls :
        /\ Going(r, J) /\ todo = <<Message(Asks(calls))>> /\ Stepping(J, "response")
        /\ J.step.expected = Asks(calls) /\ IsInjective(calls)
        /\ calls = IF then = "dispatch" THEN r.batch ELSE <<>>
  <2>1. IsInjective(<<>>)
    BY DEF IsInjective
  <2>2. QED  BY <2>1 DEF MeansWell, Answer
<1> DEFINE m == Asks(calls)
<1>2. Tail(todo) = <<>> /\ e = Message(m)
  <2> HIDE DEF m
  <2>1. todo = <<Message(m)>>
    BY <1>1 DEF m
  <2>2. QED  BY <2>1, Short
<1>3. e.type = "message/appended" /\ e.message = m /\ m.role = "assistant" /\ m.calls = calls
  BY <1>2 DEF Message, Asks
<1>4. m \in Messages /\ m # None /\ calls \in Seq(Calls)
  <2> HIDE DEF m
  <2>1. m \in Messages
    BY <1>3, EventFields
  <2>2. QED  BY <1>3, <2>1, MessageFields, NoneAssumption
<1> HIDE DEF m
<1>5. Accepts(J, e)
  BY <1>1, <1>3, <1>4, AcceptsModel DEF Stepping, m
<1>6. EventSound(J, e)
  BY <1>1, <1>3 DEF EventSound
<1>7. K.tools = Opens(m) /\ K.step # None /\ K.step.pending = "nothing" /\ K.turn # None /\ K.turn.nonUser
  BY <1>3, <1>5, <1>6, SoundAnswer
<1>8. Going(r, K)
  BY <1>1, <1>3, <1>5, GoingOn
<1> HIDE DEF K
<1>9. StandsWell(r, then, K)
  <2>1. CASE then = "dispatch"
    <3>1. Opens(m) = [i \in 1..Len(calls) |-> [call |-> calls[i], at |-> "declared", says |-> "unknown"]]
      BY <1>3, <1>4 DEF Opens
    <3>2. Len(K.tools) = Len(r.batch) /\ \A i \in DOMAIN r.batch : K.tools[i].call = r.batch[i]
      BY <1>1, <1>4, <1>7, <2>1, <3>1
    <3>3. QED  BY <1>7, <1>8, <2>1, <3>2 DEF StandsWell, Serves, Aside
  <2>2. CASE then = "spoken"
    <3>1. K.tools = <<>>
      BY <1>1, <1>3, <1>7, <2>2 DEF Opens
    <3>2. QED  BY <1>7, <1>8, <2>2, <3>1 DEF StandsWell, Worked, Stepping, Aside
  <2>3. QED  BY <2>1, <2>2
<1>10. QED  BY <1>2, <1>5, <1>6, <1>9 DEF GoesWell, K

\* A step that asks for nothing ends, its continuation put back if nothing was said.
LEMMA AdmitsAfter ==
  ASSUME NEW J \in Journals, Sound(J), NEW r, NEW todo, NEW e \in Events, e = Head(todo),
         MeansWell(r, todo, "after", J)
  PROVE  GoesWell(r, todo, "after", J, e)
<1> DEFINE K == Advance(J, e)
           end == StepCompleted("completed")
<1>1. /\ Going(r, J) /\ J.turn # None
      /\ \/ Passes(todo) /\ (Worked(J) \/ Mute(J))
         \/ Mute(J) /\ todo = <<Adapter(todo[1].state), end>>
  BY DEF MeansWell, Going
<1>2. CASE Passes(todo) /\ (Worked(J) \/ Mute(J))
  <2>1. Tail(todo) = <<>> /\ e = end
    BY <1>2, Short DEF Passes
  <2>2. e.type = "step/completed" /\ e.outcome = "completed"
    BY <2>1 DEF StepCompleted
  <2>3. Accepts(J, e)
    BY <1>2, <2>2, AcceptsCompletion DEF Worked, Mute, Stepping
  <2>4. EventSound(J, e)
    BY <1>2, <2>2 DEF EventSound, Worked
  <2>5. Going(r, K) /\ K.step = None
    BY <1>1, <2>1, <2>2, <2>3, GoingOn, ComesToRest DEF Rested
  <2> HIDE DEF K
  <2>6. StandsWell(r, "after", K)
    BY <2>5 DEF StandsWell, Aside
  <2>7. QED  BY <2>1, <2>3, <2>4, <2>6 DEF GoesWell, K
<1>3. CASE Mute(J) /\ todo = <<Adapter(todo[1].state), end>>
  <2> DEFINE a == Adapter(todo[1].state)
  <2>1. a.type = "adapter/state"
    BY DEF Adapter
  <2>2. e = a /\ Tail(todo) = <<end>>
    <3> HIDE DEF a, end
    <3>1. todo = <<a, end>>
      BY <1>3 DEF a
    <3>2. QED  BY <3>1, Short
  <2>3. Passes(Tail(todo)) /\ Tail(todo) # <<>>
    <3> HIDE DEF end
    <3>1. <<end>> # <<>>
      OBVIOUS
    <3>2. QED  BY <2>2, <3>1 DEF Passes, end
  <2>4. Accepts(J, e) /\ EventSound(J, e) /\ K.step = J.step /\ K.tools = J.tools
    BY <1>1, <2>1, <2>2, SetsContinuation
  <2>5. Going(r, K)
    BY <1>1, <2>1, <2>2, <2>4, GoingOn
  <2> HIDE DEF K
  <2>6. Mute(K)
    BY <1>3, <2>4 DEF Mute, Stepping
  <2>7. MeansWell(r, Tail(todo), "after", K)
    BY <2>3, <2>5, <2>6 DEF MeansWell
  <2>8. QED  BY <2>3, <2>4, <2>7 DEF GoesWell, K
<1>4. QED  BY <1>1, <1>2, <1>3

\* A reply leaves the other calls owed, and the step as it was.
LEMMA OneLessOwed ==
  ASSUME NEW J \in Journals, Sound(J), NEW e \in Events, Accepts(J, e), EventSound(J, e),
         e.type = "message/appended", e.message.role = "tool", NEW K, K = Advance(J, e)
  PROVE  /\ K.tools = Tail(J.tools) /\ K.step = J.step /\ K.adapter = J.adapter
         /\ K.turn # None /\ K.turn.nonUser /\ (K.turn.mustRoll <=> J.turn.mustRoll)
<1>1. K.tools = Tail(J.tools)
  BY SoundReply
<1>2. StepAfter(J, e) = J.step /\ AdapterAfter(J, e) = J.adapter
  BY DEF StepAfter, AdapterAfter
<1>3. J.turn # None
  BY SoundParts DEF EventSound
<1>4. TurnGoesOn(J, e, K)
  BY <1>3, TurnKeepsOn
<1>5. QED  BY <1>1, <1>2, <1>4, Folds DEF Folded, TurnGoesOn

\* The receipts of the calls that are still owed.
LEMMA ReceiptsOn ==
  ASSUME NEW J, J.tools \in Seq(Tools), J.tools # <<>>, NEW K, K.tools = Tail(J.tools)
  PROVE  /\ Head(Receipts(J)) = Message(Receipt(J.tools[1].call, J.tools[1].says))
         /\ Tail(Receipts(J)) = Receipts(K)
         /\ Receipts(K) = <<>> <=> K.tools = <<>>
<1> DEFINE f(t) == Message(Receipt(t.call, t.says))
           tools == J.tools
           rest == Tail(tools)
<1> HIDE DEF f
<1>1. /\ Len(tools) \in Nat /\ Len(tools) >= 1 /\ DOMAIN tools = 1..Len(tools)
      /\ rest \in Seq(Tools) /\ Len(rest) = Len(tools) - 1 /\ DOMAIN rest = 1..(Len(tools) - 1)
      /\ \A i \in 1..(Len(tools) - 1) : rest[i] = tools[i + 1]
  OBVIOUS
<1>2. Receipts(J) = [i \in 1..Len(tools) |-> f(tools[i])] /\ Receipts(K) = [i \in 1..Len(rest) |-> f(rest[i])]
  BY <1>1 DEF Receipts, f
<1> HIDE DEF tools, rest
<1> DEFINE s == Receipts(J)
           t == Receipts(K)
           S == {f(tools[i]) : i \in 1..Len(tools)}
<1>3. s \in Seq(S) /\ Len(s) = Len(tools) /\ s # <<>> /\ Head(s) = f(tools[1])
  BY <1>1, <1>2
<1>4. \A i \in 1..Len(tools) : s[i] = f(tools[i])
  BY <1>2
<1>5. \A i \in 1..Len(rest) : t[i] = f(tools[i + 1])
  BY <1>1, <1>2
<1>6. t \in Seq(S) /\ Len(t) = Len(tools) - 1
  <2>1. \A i \in 1..Len(rest) : t[i] \in S
    BY <1>1, <1>5
  <2> HIDE DEF S
  <2>2. t = [i \in 1..Len(rest) |-> t[i]]
    BY <1>2
  <2>3. QED  BY <1>1, <2>1, <2>2
<1> HIDE DEF s, t, S
<1>7. Tail(s) \in Seq(S) /\ Len(Tail(s)) = Len(tools) - 1 /\ \A i \in 1..(Len(tools) - 1) : Tail(s)[i] = s[i + 1]
  BY <1>1, <1>3, HeadTailProperties
<1>8. \A i \in 1..(Len(tools) - 1) : Tail(s)[i] = t[i]
  BY <1>1, <1>4, <1>5, <1>7
<1>9. Tail(s) = t
  BY <1>1, <1>6, <1>7, <1>8, SeqEqual
<1>10. t = <<>> <=> rest = <<>>
  BY <1>1, <1>6
<1>11. QED  BY <1>3, <1>9, <1>10 DEF s, t, f, tools, rest

\* The receipts of a round are said in the order of its calls.
LEMMA AdmitsAnswer ==
  ASSUME NEW J \in Journals, Sound(J), NEW r, NEW todo, todo # <<>>, NEW e \in Events, e = Head(todo),
         MeansWell(r, todo, "answer", J)
  PROVE  GoesWell(r, todo, "answer", J, e)
<1> DEFINE K == Advance(J, e)
<1>1. /\ Going(r, J) /\ r.recovering /\ todo = Receipts(J)
      /\ J.step # None /\ J.step.pending = "nothing" /\ J.turn.nonUser
      /\ \A i \in DOMAIN J.tools : J.tools[i].at = "result"
  BY DEF MeansWell
<1>2. J.tools \in Seq(Tools) /\ J.tools # <<>>
  BY <1>1, SoundParts DEF Receipts
<1>3. e = Message(Receipt(J.tools[1].call, J.tools[1].says))
  <2>1. \E K1 : K1 = [J EXCEPT !.tools = Tail(@)]
    OBVIOUS
  <2>2. ASSUME NEW L, L = [tools |-> Tail(J.tools)] PROVE e = Message(Receipt(J.tools[1].call, J.tools[1].says))
    <3>1. L.tools = Tail(J.tools)
      BY <2>2
    <3>2. QED  BY <1>1, <1>2, <3>1, ReceiptsOn
  <2>3. QED  BY <2>2
<1>4. e.type = "message/appended" /\ e.message.role = "tool"
  BY <1>3 DEF Message, Receipt
<1>5. Accepts(J, e) /\ EventSound(J, e)
  BY <1>1, <1>2, <1>3, AcceptsReply
<1>6. K.tools = Tail(J.tools) /\ K.step = J.step /\ K.turn # None /\ K.turn.nonUser
  BY <1>4, <1>5, OneLessOwed
<1>7. Going(r, K)
  BY <1>1, <1>4, <1>5, GoingOn
<1> HIDE DEF K
<1>8. Tail(todo) = Receipts(K) /\ (Receipts(K) = <<>> <=> K.tools = <<>>)
  BY <1>1, <1>2, <1>6, ReceiptsOn
<1>9. \A i \in DOMAIN K.tools : K.tools[i].at = "result"
  BY <1>1, <1>2, <1>6
<1>10. Tail(todo) = <<>> => StandsWell(r, "answer", K)
  BY <1>1, <1>6, <1>7, <1>8 DEF StandsWell, Worked, Stepping, Aside
<1>11. MeansWell(r, Tail(todo), "answer", K)
  BY <1>1, <1>6, <1>7, <1>8, <1>9 DEF MeansWell
<1>12. QED  BY <1>5, <1>10, <1>11 DEF GoesWell, K

\* Between steps a turn's history may be replaced, which leaves it between steps.
LEMMA PutsHistory ==
  ASSUME NEW J \in Journals, Sound(J), J.turn # None, J.step = None, NEW e \in Events,
         e.type = "history/replaced", e.thread = None, ~e.clear,
         e.reason \in InternalRollbacks \/ (e.recovered /\ RollsBack(J)), Replied(e.history)
  PROVE  /\ Accepts(J, e) /\ EventSound(J, e)
         /\ LET K == Advance(J, e) IN
              /\ K.step = None /\ K.tools = <<>> /\ K.turn # None /\ K.adapter = J.adapter
              /\ K.turn.adapterBefore = J.turn.adapterBefore
<1>1. Accepts(J, e) /\ EventSound(J, e)
  BY AcceptsInTurn DEF EventSound
<1>2. StepAfter(J, e) = J.step /\ ToolsAfter(J, e) = J.tools /\ AdapterAfter(J, e) = J.adapter
  BY DEF StepAfter, ToolsAfter, AdapterAfter
<1>3. TurnGoesOn(J, e, Advance(J, e))
  BY <1>1, TurnKeepsOn
<1>4. QED  BY <1>1, <1>2, <1>3, Folds, SoundParts DEF Folded, TurnGoesOn

\* Between steps a turn may be ended.
LEMMA EndsTurn ==
  ASSUME NEW J \in Journals, Sound(J), J.turn # None, J.step = None, NEW e \in Events, e.type = "turn/ended"
  PROVE  /\ Accepts(J, e) /\ EventSound(J, e)
         /\ LET K == Advance(J, e) IN K.turn = None /\ K.step = None /\ K.tools = <<>>
<1>1. Accepts(J, e) /\ EventSound(J, e)
  BY AcceptsInTurn DEF EventSound
<1>2. StepAfter(J, e) = J.step /\ ToolsAfter(J, e) = J.tools /\ \A t : TurnAfter(J, e, t) => t = None
  BY Zenon DEF StepAfter, ToolsAfter, TurnAfter
<1>3. QED  BY <1>1, <1>2, Folds, SoundParts DEF Folded

\* A turn without an answer puts back what it began with.
LEMMA AdmitsComplete ==
  ASSUME NEW J \in Journals, Sound(J), NEW r, NEW todo, NEW e \in Events, e = Head(todo),
         MeansWell(r, todo, "complete", J)
  PROVE  GoesWell(r, todo, "complete", J, e)
<1> DEFINE K == Advance(J, e)
<1>1. Going(r, J) /\ J.turn # None /\ J.step = None /\ Restores(todo)
  BY DEF MeansWell, Going
<1>2. PICK h \in Histories, a \in Histories, reason \in InternalRollbacks :
        Replied(h) /\ (todo = <<Replaced(h, reason), Adapter(a)>> \/ todo = <<Adapter(a)>>)
  BY <1>1 DEF Restores
<1> DEFINE x == Replaced(h, reason)
           y == Adapter(a)
<1>3. /\ x.type = "history/replaced" /\ x.history = h /\ x.thread = None /\ ~x.clear /\ x.reason = reason
      /\ y.type = "adapter/state"
  BY DEF Replaced, Adapter
<1>4. CASE todo = <<x, y>>
  <2>1. e = x /\ Tail(todo) = <<y>> /\ Tail(todo) # <<>>
    <3> HIDE DEF x, y
    <3>1. e = x /\ Tail(todo) = <<y>>
      BY <1>4, Short
    <3>2. <<y>> # <<>>
      OBVIOUS
    <3>3. QED  BY <3>1, <3>2
  <2> HIDE DEF x
  <2>2. Accepts(J, e) /\ EventSound(J, e) /\ K.step = None
    BY <1>1, <1>2, <1>3, <2>1, PutsHistory
  <2>3. Going(r, K)
    BY <1>1, <1>3, <2>1, <2>2, GoingOn
  <2> HIDE DEF K
  <2>4. Restores(Tail(todo))
    BY <1>2, <2>1 DEF Restores
  <2>5. MeansWell(r, Tail(todo), "complete", K)
    BY <2>2, <2>3, <2>4 DEF MeansWell
  <2>6. QED  BY <2>1, <2>2, <2>5 DEF GoesWell, K
<1>5. CASE todo = <<y>>
  <2>1. e = y /\ Tail(todo) = <<>>
    <3> HIDE DEF y
    <3> QED  BY <1>5, Short
  <2>2. Accepts(J, e) /\ EventSound(J, e) /\ K.step = J.step
    BY <1>1, <1>3, <2>1, SetsContinuation
  <2>3. Going(r, K)
    BY <1>1, <1>3, <2>1, <2>2, GoingOn
  <2> HIDE DEF K
  <2>4. StandsWell(r, "complete", K)
    BY <1>1, <2>2, <2>3 DEF StandsWell, Aside
  <2>5. QED  BY <2>1, <2>2, <2>4 DEF GoesWell, K
<1>6. QED  BY <1>2, <1>4, <1>5

\* A turn ends well.
LEMMA AdmitsCommitted ==
  ASSUME NEW J \in Journals, Sound(J), NEW r, NEW todo, NEW e \in Events, e = Head(todo),
         MeansWell(r, todo, "committed", J)
  PROVE  GoesWell(r, todo, "committed", J, e)
<1> DEFINE K == Advance(J, e)
<1>1. Going(r, J) /\ J.step = None /\ e.type = "turn/ended" /\ Tail(todo) = <<>>
  BY Short DEF MeansWell, Makes
<1>2. Accepts(J, e) /\ EventSound(J, e) /\ K.turn = None
  BY <1>1, EndsTurn DEF Going
<1> HIDE DEF K
<1>3. StandsWell(r, "committed", K)
  BY <1>1, <1>2 DEF StandsWell, Going, Aside
<1>4. QED  BY <1>1, <1>2, <1>3 DEF GoesWell, K

\* A turn that failed is terminated, step, history, continuation and turn.
LEMMA AdmitsTerminated ==
  ASSUME NEW J \in Journals, Sound(J), NEW r, NEW todo, NEW e \in Events, e = Head(todo),
         MeansWell(r, todo, "terminated", J)
  PROVE  GoesWell(r, todo, "terminated", J, e)
<1> DEFINE K == Advance(J, e)
<1>1. Going(r, J) /\ J.turn # None /\ J.tools = <<>> /\ Unwinds(todo, J)
  BY DEF MeansWell, Stops, Going
<1>2. PICK o \in {"failed", "interrupted"}, h \in Histories, a \in Histories, reason \in InternalRollbacks :
        /\ Replied(h)
        /\ IF J.step # None THEN todo = <<StepCompleted(o), Replaced(h, reason), Adapter(a), TurnEnded(o)>>
           ELSE todo \in {<<Replaced(h, reason), Adapter(a), TurnEnded(o)>>, <<Adapter(a), TurnEnded(o)>>,
                          <<TurnEnded(o)>>}
  BY <1>1 DEF Unwinds
<1> DEFINE v == StepCompleted(o)
           x == Replaced(h, reason)
           y == Adapter(a)
           z == TurnEnded(o)
<1>3. /\ v.type = "step/completed" /\ v.outcome = o /\ ~v.recovered
      /\ x.type = "history/replaced" /\ x.history = h /\ x.thread = None /\ ~x.clear /\ x.reason = reason
      /\ y.type = "adapter/state" /\ z.type = "turn/ended"
  BY DEF StepCompleted, Replaced, Adapter, TurnEnded
<1>4. /\ <<x, y, z>> # <<>> /\ <<y, z>> # <<>> /\ <<z>> # <<>>
      /\ \A L : L.step = None => \A t \in {<<x, y, z>>, <<y, z>>, <<z>>} : Unwinds(t, L)
  <2>1. <<x, y, z>> # <<>> /\ <<y, z>> # <<>> /\ <<z>> # <<>>
    <3> HIDE DEF x, y, z
    <3> QED  OBVIOUS
  <2>2. ASSUME NEW L, L.step = None PROVE \A t \in {<<x, y, z>>, <<y, z>>, <<z>>} : Unwinds(t, L)
    BY Zenon, <1>2, <2>2 DEF Unwinds
  <2>3. QED  BY <2>1, <2>2
<1>5. ASSUME Accepts(J, e), EventSound(J, e), Going(r, K), K.tools = <<>>, K.step = None,
             Tail(todo) \in {<<x, y, z>>, <<y, z>>, <<z>>}
      PROVE  GoesWell(r, todo, "terminated", J, e)
  <2> HIDE DEF x, y, z, K
  <2>1. Unwinds(Tail(todo), K) /\ Tail(todo) # <<>>
    BY <1>4, <1>5
  <2>2. MeansWell(r, Tail(todo), "terminated", K)
    BY <1>5, <2>1 DEF MeansWell, Stops
  <2>3. QED  BY <1>5, <2>1, <2>2 DEF GoesWell, K
<1>6. CASE J.step # None
  <2>1. e = v /\ Tail(todo) = <<x, y, z>>
    <3> HIDE DEF v, x, y, z
    <3>1. todo = <<v, x, y, z>>
      BY <1>2, <1>6 DEF v, x, y, z
    <3>2. QED  BY <3>1, Short
  <2> HIDE DEF v, x, y, z
  <2>2. Accepts(J, e) /\ EventSound(J, e)
    BY <1>1, <1>2, <1>3, <1>6, <2>1, AcceptsCompletion DEF EventSound
  <2>3. Going(r, K)
    BY <1>1, <1>3, <2>1, <2>2, GoingOn
  <2>4. K.step = None /\ K.tools = <<>>
    <3>1. StepAfter(J, e) = None /\ ToolsAfter(J, e) = J.tools
      BY <1>3, <2>1 DEF StepAfter, ToolsAfter
    <3>2. QED  BY <1>1, <2>2, <3>1, Folds DEF Folded
  <2>5. QED  BY <1>5, <2>1, <2>2, <2>3, <2>4
<1>7. CASE J.step = None
  <2>1. todo \in {<<x, y, z>>, <<y, z>>, <<z>>}
    BY <1>2, <1>7
  <2>2. CASE todo = <<x, y, z>>
    <3> HIDE DEF v, x, y, z
    <3>1. e = x /\ Tail(todo) = <<y, z>>
      BY <2>2, Short
    <3>2. Accepts(J, e) /\ EventSound(J, e) /\ K.step = None /\ K.tools = <<>>
      BY <1>1, <1>2, <1>3, <1>7, <3>1, PutsHistory
    <3>3. Going(r, K)
      BY <1>1, <1>3, <3>1, <3>2, GoingOn
    <3>4. QED  BY <1>5, <3>1, <3>2, <3>3
  <2>3. CASE todo = <<y, z>>
    <3> HIDE DEF v, x, y, z
    <3>1. e = y /\ Tail(todo) = <<z>>
      BY <2>3, Short
    <3>2. Accepts(J, e) /\ EventSound(J, e) /\ K.step = None /\ K.tools = <<>>
      BY <1>1, <1>3, <1>7, <3>1, SetsContinuation
    <3>3. Going(r, K)
      BY <1>1, <1>3, <3>1, <3>2, GoingOn
    <3>4. QED  BY <1>5, <3>1, <3>2, <3>3
  <2>4. CASE todo = <<z>>
    <3> HIDE DEF v, x, y, z
    <3>1. e = z /\ Tail(todo) = <<>>
      BY <2>4, Short
    <3>2. Accepts(J, e) /\ EventSound(J, e) /\ K.turn = None
      BY <1>1, <1>3, <1>7, <3>1, EndsTurn
    <3> HIDE DEF K
    <3>3. StandsWell(r, "terminated", K)
      BY <1>1, <3>2 DEF StandsWell, Going, Aside
    <3>4. QED  BY <3>1, <3>2, <3>3 DEF GoesWell, K
  <2>5. QED  BY <2>1, <2>2, <2>3, <2>4
<1>8. QED  BY <1>6, <1>7

-----------------------------------------------------------------------------
(* What a recovery has left to append, the validator accepts.                *)

\* Sequences are joined from either end.
LEMMA JoinedInTurn ==
  ASSUME NEW S, NEW a, NEW b, NEW c, a \in Seq(S), b \in Seq(S), c \in Seq(S)
  PROVE  (a \o b) \o c = a \o (b \o c)
BY SMTT(30), ConcatAssociative

\* The first of the sequences joined comes first.
LEMMA FlattensFirst ==
  ASSUME NEW S, NEW seqs \in Seq(Seq(S)), seqs # <<>>
  PROVE  FlattenSeq(seqs) = Head(seqs) \o FlattenSeq(Tail(seqs))
<1> DEFINE n == Len(seqs)
           t == Tail(seqs)
           a == seqs[1]
<1>0. \A p, q, r \in Seq(S) : (p \o q) \o r = p \o (q \o r)
  BY SMTT(40), JoinedInTurn
<1>1. /\ n \in Nat /\ n >= 1 /\ Head(seqs) = a /\ a \in Seq(S)
      /\ t \in Seq(Seq(S)) /\ Len(t) = n - 1 /\ \A i \in 1..(n - 1) : t[i] = seqs[i + 1]
  OBVIOUS
<1> DEFINE f == CHOOSE g : Flattens(g, seqs, n)
           h == CHOOSE g : Flattens(g, t, n - 1)
<1>2. Flattens(f, seqs, n)
  BY <1>1, FlatteningExists
<1>3. FlattenSeq(seqs) = f[n]
  <2>1. Len(seqs) # 0
    BY <1>1
  <2>2. QED  BY <2>1, Zenon DEF FlattenSeq, Flattens
<1> HIDE DEF f, t
<1>4. f[1] = a
  BY <1>1, <1>2 DEF Flattens
<1>5. CASE n = 1
  <2>1. FlattenSeq(t) = <<>>
    BY <1>1, <1>5 DEF FlattenSeq
  <2>2. a \o <<>> = a
    BY <1>1, ConcatEmptySeq
  <2>3. QED  BY <1>1, <1>3, <1>4, <1>5, <2>1, <2>2 DEF t
<1>6. CASE n # 1
  <2>1. Flattens(h, t, n - 1)
    BY <1>1, FlatteningExists
  <2>2. FlattenSeq(t) = h[n - 1]
    <3>1. Len(t) = n - 1 /\ n - 1 # 0
      BY <1>1, <1>6
    <3>2. QED  BY <3>1, Zenon DEF FlattenSeq, Flattens
  <2> HIDE DEF h
  <2> DEFINE N == {k \in Nat : k + 2 <= n => h[k + 1] \in Seq(S) /\ f[k + 2] = a \o h[k + 1]}
  <2>3. ASSUME NEW k \in Nat, k + 2 <= n
        PROVE  /\ f[k + 2] = f[k + 1] \o seqs[k + 2] /\ t[k + 1] = seqs[k + 2] /\ t[k + 1] \in Seq(S)
               /\ h[k + 1] = IF k = 0 THEN t[1] ELSE h[k] \o t[k + 1]
    <3> DEFINE i == k + 2
               j == k + 1
    <3>1. i \in 1..n /\ i # 1 /\ i - 1 = j /\ j \in 1..(n - 1) /\ (j = 1 <=> k = 0) /\ j - 1 = k /\ j + 1 = i
      BY <1>1, <2>3
    <3> HIDE DEF i, j
    <3>2. f[i] = f[i - 1] \o seqs[i]
      BY <1>2, <3>1 DEF Flattens
    <3>3. h[j] = IF j = 1 THEN t[j] ELSE h[j - 1] \o t[j]
      BY <2>1, <3>1 DEF Flattens
    <3>4. t[j] = seqs[i] /\ t[j] \in Seq(S)
      BY <1>1, <3>1
    <3>5. h[j] = IF k = 0 THEN t[1] ELSE h[k] \o t[j]
      BY <3>1, <3>3
    <3>6. f[i] = f[j] \o seqs[i]
      BY <3>1, <3>2
    <3>7. QED  BY <3>4, <3>5, <3>6 DEF i, j
  <2>4. 0 \in N
    <3>1. 0 + 2 = 2 /\ 0 + 1 = 1 /\ 0 \in Nat
      OBVIOUS
    <3>2. ASSUME 2 <= n PROVE h[1] = t[1] /\ t[1] \in Seq(S) /\ f[2] = f[1] \o t[1]
      <4>1. 0 \in Nat /\ 0 + 2 <= n
        BY <3>1, <3>2
      <4>2. /\ f[0 + 2] = f[0 + 1] \o seqs[0 + 2] /\ t[0 + 1] = seqs[0 + 2] /\ t[0 + 1] \in Seq(S)
            /\ h[0 + 1] = IF 0 = 0 THEN t[1] ELSE h[0] \o t[0 + 1]
        BY Zenon, <2>3, <4>1
      <4>3. QED  BY <3>1, <4>2
    <3>3. QED  BY <1>4, <3>1, <3>2
  <2>5. ASSUME NEW k \in N PROVE k + 1 \in N
    <3> DEFINE j == k + 1
    <3>0. k \in Nat /\ j \in Nat /\ j # 0 /\ k + 1 = j /\ k + 2 = j + 1
      BY DEF N
    <3> HIDE DEF j
    <3> SUFFICES ASSUME j + 2 <= n PROVE h[j + 1] \in Seq(S) /\ f[j + 2] = a \o h[j + 1]
      BY <3>0 DEF N, j
    <3>1. h[j] \in Seq(S) /\ f[j + 1] = a \o h[j]
      <4>1. k + 2 <= n
        BY <1>1, <3>0
      <4>2. h[k + 1] \in Seq(S) /\ f[k + 2] = a \o h[k + 1]
        BY <3>0, <4>1 DEF N
      <4>3. QED  BY <3>0, <4>2
    <3>2. f[j + 2] = f[j + 1] \o t[j + 1] /\ t[j + 1] \in Seq(S) /\ h[j + 1] = h[j] \o t[j + 1]
      BY <2>3, <3>0
    <3> DEFINE x == h[j]
               y == t[j + 1]
    <3>3. x \in Seq(S) /\ y \in Seq(S) /\ a \in Seq(S)
      BY <1>1, <3>1, <3>2
    <3>4. h[j + 1] = x \o y /\ f[j + 2] = (a \o x) \o y
      BY <3>1, <3>2
    <3> HIDE DEF x, y, a
    <3>5. x \o y \in Seq(S)
      BY <3>3, ConcatProperties
    <3>6. (a \o x) \o y = a \o (x \o y)
      BY Zenon, <1>0, <3>3
    <3>7. QED  BY <3>4, <3>5, <3>6
  <2> HIDE DEF N
  <2>6. \A k \in Nat : k \in N
    <3>1. N \in SUBSET Nat
      BY DEF N
    <3> QED  BY <2>4, <2>5, <3>1, AllNumbers
  <2>7. n - 2 \in Nat /\ (n - 2) + 2 = n /\ (n - 2) + 1 = n - 1
    BY <1>1, <1>6
  <2>8. f[n] = a \o h[n - 1]
    <3> DEFINE k == n - 2
    <3>1. k \in N /\ k \in Nat /\ k + 2 = n /\ k + 1 = n - 1
      BY <2>6, <2>7
    <3> HIDE DEF k
    <3>2. f[k + 2] = a \o h[k + 1]
      <4>1. k + 2 <= n
        BY <1>1, <3>1
      <4>2. QED  BY <3>1, <4>1 DEF N
    <3>3. QED  BY <3>1, <3>2
  <2>9. QED  BY <1>1, <1>3, <2>2, <2>8 DEF t
<1>7. QED  BY <1>5, <1>6

\* The events that recovery gives one call.
LEMMA RecoversTool ==
  ASSUME NEW t \in Tools
  PROVE  /\ Recovered(t) \in Seq(Events)
         /\ Recovered(t) = IF t.at = "result" THEN <<Message(Receipt(t.call, t.says))>>
              ELSE LET says == IF t.at = "started" THEN "unknown" ELSE "not executed" IN
                   <<[ToolResult(t.call, says) EXCEPT !.recovered = TRUE], Message(Receipt(t.call, says))>>
<1> DEFINE says == IF t.at = "started" THEN "unknown" ELSE "not executed"
           e == [ToolResult(t.call, says) EXCEPT !.recovered = TRUE]
           m(w) == Message(Receipt(t.call, w))
<1>1. t.call \in Calls /\ t.says \in Words /\ says \in Words
  BY Zenon DEF Tools, Words
<1>2. m(t.says) \in Events /\ m(says) \in Events /\ e \in Events
  BY Zenon, <1>1, MessageEvents, ToolEvents
<1>3. Recovered(t) = IF t.at = "result" THEN <<m(t.says)>> ELSE <<e, m(says)>>
  BY DEF Recovered
<1>4. Recovered(t) \in Seq(Events)
  <2> HIDE DEF e, m, says
  <2> QED  BY <1>2, <1>3
<1>5. QED  BY <1>3, <1>4

\* The events a recovery gives the calls that are owed, those of the first call first.
LEMMA ClosesFirst ==
  ASSUME NEW J \in Journals, J.tools # <<>>, NEW L, L.tools = Tail(J.tools)
  PROVE  CloseTools(J) = Recovered(J.tools[1]) \o CloseTools(L) /\ CloseTools(L) \in Seq(Events)
<1> DEFINE tools == J.tools
           S == Seq(Events)
           s == [i \in 1..Len(tools) |-> Recovered(tools[i])]
           t == [i \in 1..(Len(tools) - 1) |-> Recovered(tools[i + 1])]
<1>1. tools \in Seq(Tools) /\ Len(tools) \in Nat /\ Len(tools) >= 1 /\ DOMAIN tools = 1..Len(tools)
  BY JournalFields
<1>2. \A i \in 1..Len(tools) : Recovered(tools[i]) \in S
  <2>1. \A x \in Tools : Recovered(x) \in S
    BY RecoversTool
  <2> HIDE DEF S
  <2>2. QED  BY <1>1, <2>1
<1> HIDE DEF S
<1>3. s \in Seq(S) /\ Len(s) = Len(tools) /\ s # <<>> /\ Head(s) = Recovered(tools[1])
  BY <1>1, <1>2
<1>4. t \in Seq(S) /\ Len(t) = Len(tools) - 1
  BY <1>1, <1>2
<1>5. CloseTools(J) = FlattenSeq(s) /\ CloseTools(L) = FlattenSeq(t)
  <2>1. /\ DOMAIN L.tools = 1..(Len(tools) - 1)
        /\ \A i \in 1..(Len(tools) - 1) : L.tools[i] = tools[i + 1]
    BY <1>1
  <2>2. [i \in DOMAIN L.tools |-> Recovered(L.tools[i])] = t
    BY <2>1
  <2>3. [i \in DOMAIN J.tools |-> Recovered(J.tools[i])] = s
    BY <1>1
  <2> HIDE DEF s, t
  <2>4. QED  BY <2>2, <2>3 DEF CloseTools
<1>6. \A i \in 1..(Len(tools) - 1) : s[i + 1] = t[i]
  BY <1>1
<1> HIDE DEF s, t
<1>7. Tail(s) \in Seq(S) /\ Len(Tail(s)) = Len(tools) - 1 /\ \A i \in 1..(Len(tools) - 1) : Tail(s)[i] = s[i + 1]
  BY <1>1, <1>3, HeadTailProperties
<1>8. Tail(s) = t
  BY SMTT(30), <1>1, <1>4, <1>6, <1>7, SeqEqual
<1>9. FlattenSeq(s) = Head(s) \o FlattenSeq(Tail(s)) /\ FlattenSeq(t) \in Seq(Events)
  BY <1>3, <1>4, FlattensFirst, Flattening DEF S
<1>10. QED  BY <1>3, <1>5, <1>8, <1>9

\* A journal that owes nothing closes no calls.
LEMMA ClosesNone ==
  ASSUME NEW J \in Journals, J.tools = <<>>
  PROVE  CloseTools(J) = <<>> /\ CloseTools(J) \o Closing(J) = Closing(J)
<1>1. CloseTools(J) = <<>>
  <2>1. Len([i \in DOMAIN J.tools |-> Recovered(J.tools[i])]) = 0
        /\ [i \in DOMAIN J.tools |-> Recovered(J.tools[i])] = <<>>
    OBVIOUS
  <2>2. QED  BY <2>1 DEF CloseTools, FlattenSeq
<1>2. <<>> \o Closing(J) = Closing(J)
  BY Parts, ConcatEmptySeq
<1>3. QED  BY <1>1, <1>2

\* What closes a journal stays the same while its calls are answered.
LEMMA ClosingStays ==
  ASSUME NEW J, NEW K, J.step = K.step, J.adapter = K.adapter, ~RollsBack(J), ~RollsBack(K),
         J.turn # None, K.turn # None
  PROVE  Closing(K) = Closing(J)
<1>1. CloseStep(K) = CloseStep(J)
  <2>1. ContinuationAtTurn(K) = ContinuationAtTurn(J)
    BY DEF ContinuationAtTurn
  <2>2. RollsBack(K) = RollsBack(J)
    BY DEF RollsBack
  <2>3. QED  BY <2>1, <2>2 DEF CloseStep
<1>2. RollBackTurn(K) = RollBackTurn(J)
  BY DEF RollBackTurn
<1>3. CloseTurn(K) = CloseTurn(J)
  BY DEF CloseTurn
<1>4. QED  BY <1>1, <1>2, <1>3 DEF Closing

\* An open turn is still to be closed.
LEMMA ClosingLeft ==
  ASSUME NEW J \in Journals, J.turn # None
  PROVE  /\ Closing(J) # <<>> /\ CloseTurn(J) # <<>>
         /\ \A a \in Seq(Events), b \in Seq(Events) : b # <<>> => a \o b # <<>>
<1>1. CloseTurn(J) # <<>>
  BY DEF CloseTurn
<1>2. ASSUME NEW a \in Seq(Events), NEW b \in Seq(Events), a \o b = <<>> PROVE b = <<>>
  <2>1. Len(a \o b) = Len(a) + Len(b) /\ Len(a) \in Nat /\ Len(b) \in Nat
    BY ConcatProperties
  <2>2. Len(b) = 0
    BY <1>2, <2>1
  <2>3. QED  BY <2>2
<1>3. CloseStep(J) \o RollBackTurn(J) \in Seq(Events)
  BY Zenon, Parts, ConcatProperties
<1>4. QED  BY <1>1, <1>2, <1>3, Parts DEF Closing

\* A step is closed: its continuation is put back, then it ends.
LEMMA ClosesStep ==
  ASSUME NEW J \in Journals, J.step # None, NEW todo, todo = Closing(J), NEW e, e = Head(todo)
  PROVE  /\ IF J.adapter = ContinuationAtTurn(J)
            THEN /\ e.type = "step/completed" /\ e.outcome = "interrupted"
                 /\ e.recovered /\ e.rollbackTurn = RollsBack(J)
            ELSE e.type = "adapter/state" /\ e.state = ContinuationAtTurn(J) /\ J.step.unprojected
         /\ e \in Events /\ Accepts(J, e) => Tail(todo) = Closing(Advance(J, e))
<1> DEFINE K == Advance(J, e)
           C == ContinuationAtTurn(J)
           done == [StepCompleted("interrupted") EXCEPT !.recovered = TRUE, !.rollbackTurn = RollsBack(J)]
           R == RollBackTurn(J)
           T == CloseTurn(J)
<1>1. J.turn # None
  BY JournalHistories
<1>2. /\ CloseStep(J) \in Seq(Events) /\ R \in Seq(Events) /\ T \in Seq(Events)
      /\ CloseStep(J) = Append(Restore(J.adapter, C), done) /\ todo = CloseStep(J) \o R \o T
  BY Zenon, Parts DEF CloseStep, Closing
<1>3. done.type = "step/completed" /\ done.outcome = "interrupted" /\ done.recovered
      /\ done.rollbackTurn = RollsBack(J)
  BY DEF StepCompleted
<1>4. C = (IF J.step.unprojected THEN J.step.adapterBefore ELSE J.adapter)
  BY DEF ContinuationAtTurn
<1> HIDE DEF done, R, T, C, K
<1>5. ASSUME NEW a, NEW b, CloseStep(J) # <<>>, Head(CloseStep(J)) = a, Tail(CloseStep(J)) = b
      PROVE  e = a /\ Tail(todo) = b \o R \o T
  <2>1. /\ CloseStep(J) \o R \in Seq(Events) /\ CloseStep(J) \o R # <<>>
        /\ Head(CloseStep(J) \o R) = a /\ Tail(CloseStep(J) \o R) = b \o R
    <3>1. CloseStep(J) \o R \in Seq(Events)
      BY <1>2, ConcatProperties
    <3>2. CloseStep(J) \in Seq(Events) /\ R \in Seq(Events)
      BY <1>2
    <3>3. /\ Head(CloseStep(J) \o R) = Head(CloseStep(J)) /\ CloseStep(J) \o R # <<>>
          /\ Tail(CloseStep(J) \o R) = Tail(CloseStep(J)) \o R
      BY <1>5, <3>2, FirstOf
    <3>4. QED  BY Zenon, <1>5, <3>1, <3>3
  <2>2. QED  BY ZenonT(90), <1>2, <2>1, FirstOf
<1>6. CASE J.adapter # C
  <2>1. CloseStep(J) = <<Adapter(C), done>>
    BY <1>2, <1>6, Paired DEF Restore
  <2>2. Head(CloseStep(J)) = Adapter(C) /\ Tail(CloseStep(J)) = <<done>> /\ CloseStep(J) # <<>>
    BY <2>1, Short
  <2>3. e = Adapter(C) /\ Tail(todo) = <<done>> \o R \o T
    BY <1>5, <2>2
  <2>4. e.type = "adapter/state" /\ e.state = C
    BY <2>3 DEF Adapter
  <2>5. J.step.unprojected /\ C = J.step.adapterBefore
    BY <1>4, <1>6
  <2>6. ASSUME e \in Events, Accepts(J, e) PROVE Tail(todo) = Closing(K)
    <3>1. K.turn = J.turn /\ K.step = J.step /\ K.adapter = C
      <4>1. /\ StepAfter(J, e) = J.step /\ AdapterAfter(J, e) = C
            /\ \A t : TurnAfter(J, e, t) => t = J.turn
        BY Zenon, <2>4 DEF StepAfter, AdapterAfter, TurnAfter
      <4>2. QED  BY <2>6, <4>1, Folds DEF Folded, K
    <3>2. ContinuationAtTurn(K) = C /\ RollsBack(K) = RollsBack(J)
      BY <1>4, <2>5, <3>1 DEF ContinuationAtTurn, RollsBack
    <3>3. CloseStep(K) = <<done>>
      BY <3>1, <3>2 DEF CloseStep, Restore, done
    <3>4. RollBackTurn(K) = R /\ CloseTurn(K) = T
      BY <3>1, <3>2 DEF RollBackTurn, CloseTurn, R, T, C
    <3>5. QED  BY Zenon, <2>3, <3>3, <3>4 DEF Closing
  <2>7. QED  BY <1>6, <2>4, <2>5, <2>6 DEF K, C
<1>7. CASE J.adapter = C
  <2>1. CloseStep(J) = <<done>>
    BY <1>2, <1>7 DEF Restore
  <2>2. Head(CloseStep(J)) = done /\ Tail(CloseStep(J)) = <<>> /\ CloseStep(J) # <<>>
    BY <2>1, Short
  <2>3. e = done /\ Tail(todo) = <<>> \o R \o T
    BY <1>5, <2>2
  <2>4. e.type = "step/completed" /\ (Breaks(e) <=> RollsBack(J))
    BY Zenon, <1>3, <2>3 DEF Breaks, RollsBack
  <2>5. ASSUME e \in Events, Accepts(J, e) PROVE Tail(todo) = Closing(K)
    <3>1. K.step = None /\ K.adapter = J.adapter
      <4>1. StepAfter(J, e) = None /\ AdapterAfter(J, e) = J.adapter
        BY <2>4 DEF StepAfter, AdapterAfter
      <4>2. QED  BY <2>5, <4>1, Folds DEF Folded, K
    <3>2. /\ K.turn # None /\ K.turn.before = J.turn.before /\ K.turn.adapterBefore = J.turn.adapterBefore
          /\ (K.turn.mustRoll <=> J.turn.mustRoll \/ RollsBack(J)) /\ (K.turn.nonUser <=> J.turn.nonUser)
      BY <1>1, <2>4, <2>5, TurnKeepsOn DEF TurnGoesOn, K
    <3>3. ContinuationAtTurn(K) = C /\ RollsBack(K) = RollsBack(J)
      BY <1>1, <1>7, <3>1, <3>2 DEF ContinuationAtTurn, RollsBack
    <3>4. CloseStep(K) = <<>> /\ RollBackTurn(K) = R /\ CloseTurn(K) = T
      BY <1>1, <3>1, <3>2, <3>3 DEF CloseStep, RollBackTurn, CloseTurn, R, T, C
    <3>5. QED  BY Zenon, <2>3, <3>4 DEF Closing
  <2>6. QED  BY <1>3, <1>7, <2>3, <2>5 DEF K, C
<1>8. QED  BY <1>6, <1>7

\* The turn is put back if it must be, or else ends.
LEMMA ClosesTurn ==
  ASSUME NEW J \in Journals, J.step = None, J.turn # None, NEW todo, todo = Closing(J), NEW e, e = Head(todo)
  PROVE  IF RollsBack(J)
         THEN /\ e.type = "history/replaced" /\ e.history = J.turn.before
              /\ e.recovered /\ e.thread = None /\ ~e.clear
              /\ Tail(todo) = Restore(J.adapter, J.turn.adapterBefore) \o CloseTurn(J)
         ELSE e.type = "turn/ended" /\ Tail(todo) = <<>>
<1> DEFINE T == CloseTurn(J)
<1>1. CASE RollsBack(J)
  <2> DEFINE rep == [Replaced(J.turn.before, "interrupted_turn_rolled_back") EXCEPT !.recovered = TRUE]
             R == Restore(J.adapter, J.turn.adapterBefore)
  <2>2. rep.type = "history/replaced" /\ rep.history = J.turn.before
        /\ rep.recovered /\ rep.thread = None /\ ~rep.clear
    BY DEF Replaced
  <2>3. RollBackTurn(J) = <<rep>> \o R
    BY <1>1 DEF RollBackTurn, ContinuationAtTurn
  <2>4. R \in Seq(Events) /\ RollBackTurn(J) \in Seq(Events) /\ T \in Seq(Events)
    BY Zenon, Parts
  <2> HIDE DEF rep, R, T
  <2>5. rep \in Events
    <3>1. J.turn.before \in Histories /\ J.thread \in Threads
      BY JournalHistories, JournalFields
    <3>2. QED  BY Zenon, <3>1, HistoryEvents DEF rep, Reasons
  <2>6. Head(RollBackTurn(J)) = rep /\ Tail(RollBackTurn(J)) = R /\ RollBackTurn(J) # <<>>
    <3>1. <<rep>> \in Seq(Events) /\ <<rep>> # <<>> /\ <<>> \o R = R
      BY <2>4, <2>5, ConcatEmptySeq
    <3>2. Head(<<rep>>) = rep /\ Tail(<<rep>>) = <<>>
      BY Short
    <3>3. QED  BY <2>3, <2>4, <3>1, <3>2, FirstOf
  <2>7. todo = RollBackTurn(J) \o T
    <3>1. CloseStep(J) = <<>> /\ <<>> \o RollBackTurn(J) = RollBackTurn(J)
      BY <2>4, ConcatEmptySeq DEF CloseStep
    <3>2. QED  BY <3>1 DEF Closing, T
  <2>8. e = rep /\ Tail(todo) = R \o T
    BY Zenon, <2>4, <2>6, <2>7, FirstOf
  <2>9. QED  BY <1>1, <2>2, <2>8 DEF R, T
<1>2. CASE ~RollsBack(J)
  <2>1. todo = <<TurnEnded("interrupted")>>
    BY <1>2, ClosingTurn DEF CloseTurn
  <2>2. e.type = "turn/ended" /\ Tail(todo) = <<>>
    BY <2>1, Short DEF TurnEnded
  <2>3. QED  BY <1>2, <2>2
<1>3. QED  BY <1>1, <1>2

\* The history is put back: then the continuation, and the end of the turn.
LEMMA ClosesRest ==
  ASSUME NEW J \in Journals, J.turn # None, NEW e, NEW todo, e = Head(todo),
         todo = Restore(J.adapter, J.turn.adapterBefore) \o CloseTurn(J)
  PROVE  IF J.adapter = J.turn.adapterBefore THEN e.type = "turn/ended" /\ Tail(todo) = <<>>
         ELSE e.type = "adapter/state" /\ e.state = J.turn.adapterBefore /\ Tail(todo) = CloseTurn(J)
<1> DEFINE x == J.turn.adapterBefore
           end == TurnEnded("interrupted")
<1>1. CloseTurn(J) = <<end>>
  BY DEF CloseTurn
<1>2. end \in Events /\ end.type = "turn/ended" /\ Adapter(x) \in Events
  BY Zenon, SilentEvents, JournalHistories DEF Outcomes, TurnEnded
<1> HIDE DEF end, x
<1>3. /\ <<Adapter(x)>> \in Seq(Events) /\ <<end>> \in Seq(Events) /\ <<Adapter(x)>> # <<>>
      /\ <<>> \o <<end>> = <<end>>
  BY <1>2, ConcatEmptySeq
<1>4. CASE J.adapter # x
  <2>1. Head(<<Adapter(x)>>) = Adapter(x) /\ Tail(<<Adapter(x)>>) = <<>>
    BY Short
  <2>2. todo = <<Adapter(x)>> \o <<end>>
    BY <1>1, <1>4 DEF Restore, x
  <2>3. /\ Head(<<Adapter(x)>> \o <<end>>) = Head(<<Adapter(x)>>)
        /\ Tail(<<Adapter(x)>> \o <<end>>) = Tail(<<Adapter(x)>>) \o <<end>>
    BY <1>3, FirstOf
  <2>4. e = Adapter(x) /\ Tail(todo) = <<end>>
    BY Zenon, <1>3, <2>1, <2>2, <2>3
  <2>5. e.type = "adapter/state" /\ e.state = x
    BY <2>4 DEF Adapter
  <2>6. QED  BY <1>1, <1>4, <2>4, <2>5 DEF x
<1>5. CASE J.adapter = x
  <2>1. todo = <<end>>
    BY <1>1, <1>3, <1>5 DEF Restore, x
  <2>2. e.type = "turn/ended" /\ Tail(todo) = <<>>
    BY <1>2, <2>1, Short
  <2>3. QED  BY <1>5, <2>2 DEF x
<1>6. QED  BY <1>4, <1>5

\* A plan that mends a journal goes on with an event that the validator accepts.
Cures(J, todo, e) ==
  /\ Accepts(J, e) /\ EventSound(J, e) /\ Mending(Tail(todo), Advance(J, e))
  /\ Tail(todo) = <<>> => Advance(J, e).turn = None

\* The first of the calls owed gets its result, if it has none, and its receipt.
LEMMA CuresFirst ==
  ASSUME NEW J \in Journals, Sound(J), J.tools # <<>>, NEW L, L.tools = Tail(J.tools),
         NEW C, C = Closing(J), NEW e \in Events, NEW todo, NEW next, Tail(todo) = next \o C,
         e = Head(Recovered(J.tools[1])), next = Tail(Recovered(J.tools[1])) \o CloseTools(L)
  PROVE  Cures(J, todo, e)
<1> DEFINE K == Advance(J, e)
           t == J.tools[1]
           says == IF t.at = "started" THEN "unknown" ELSE "not executed"
           m(w) == Message(Receipt(t.call, w))
           r == [ToolResult(t.call, says) EXCEPT !.recovered = TRUE]
           rest == CloseTools(L)
<1>1. /\ J.step # None /\ J.turn # None /\ J.turn.nonUser /\ ~J.turn.mustRoll /\ J.tools \in Seq(Tools)
      /\ t \in Tools /\ C \in Seq(Events) /\ 1 \in DOMAIN J.tools
  <2>1. J.step # None /\ J.turn # None /\ J.turn.nonUser /\ ~J.turn.mustRoll /\ J.tools \in Seq(Tools)
    BY SoundParts
  <2>2. C \in Seq(Events)
    BY Parts
  <2>3. 1 \in DOMAIN J.tools /\ t \in Tools
    BY <2>1
  <2>4. QED  BY <2>1, <2>2, <2>3
<1>2. ~RollsBack(J)
  BY <1>1 DEF RollsBack
<1>4. /\ Recovered(t) \in Seq(Events)
      /\ Recovered(t) = IF t.at = "result" THEN <<m(t.says)>> ELSE <<r, m(says)>>
  <2> HIDE DEF t
  <2>1. QED  BY <1>1, RecoversTool
<1>5. r.type = "tool/result" /\ r.call = t.call /\ r.recovered /\ r.says = says
  BY DEF ToolResult
<1>6. \A w : m(w).type = "message/appended" /\ m(w).message.role = "tool"
  BY DEF Message, Receipt
<1> HIDE DEF m, r
<1>7. CloseTools(J) = Recovered(t) \o rest /\ rest \in Seq(Events)
  BY ClosesFirst
<1>9. next = Tail(Recovered(t)) \o rest /\ Tail(todo) = next \o C
  OBVIOUS
<1> HIDE DEF rest
<1>8. Recovered(t) # <<>>
  <2>1. <<m(t.says)>> # <<>> /\ <<r, m(says)>> # <<>>
    OBVIOUS
  <2>2. QED  BY <1>4, <2>1
<1>10. ASSUME K.turn # None, K.turn.nonUser, ~K.turn.mustRoll, K.step = J.step, K.adapter = J.adapter,
              K \in Journals, Tail(todo) = CloseTools(K) \o C, CloseTools(K) \in Seq(Events),
              Accepts(J, e), EventSound(J, e)
       PROVE  Cures(J, todo, e)
  <2> HIDE DEF K
  <2>1. ~RollsBack(K)
    BY <1>10 DEF RollsBack
  <2>2. Closing(K) = C
    BY <1>1, <1>2, <1>10, <2>1, ClosingStays
  <2>3. Tail(todo) # <<>>
    BY <1>10, <2>2, ClosingLeft, Parts
  <2>4. QED  BY <1>10, <2>2, <2>3 DEF Cures, Mending, K
<1>11. CASE t.at = "result"
  <2>1. e = m(t.says) /\ Tail(Recovered(t)) = <<>>
    BY <1>4, <1>11, Short
  <2>2. Accepts(J, e) /\ EventSound(J, e)
    BY <1>11, <2>1, AcceptsReply DEF m
  <2>3. /\ K.tools = Tail(J.tools) /\ K.step = J.step /\ K.adapter = J.adapter
        /\ K.turn # None /\ K.turn.nonUser /\ ~K.turn.mustRoll
    <3>1. e.type = "message/appended" /\ e.message.role = "tool"
      BY <1>6, <2>1
    <3>2. K = Advance(J, e)
      OBVIOUS
    <3> HIDE DEF K
    <3>3. ASSUME NEW f \in Events, Accepts(J, f), EventSound(J, f), f.type = "message/appended",
                 f.message.role = "tool", NEW k, k = Advance(J, f)
          PROVE  /\ k.tools = Tail(J.tools) /\ k.step = J.step /\ k.adapter = J.adapter
                 /\ k.turn # None /\ k.turn.nonUser /\ (k.turn.mustRoll <=> J.turn.mustRoll)
      BY <3>3, OneLessOwed
    <3>4. QED  BY <1>1, <2>2, <3>1, <3>2, <3>3
  <2>4. K \in Journals
    BY <2>2, Folds
  <2>5. CloseTools(K) = rest
    <3> HIDE DEF K
    <3> QED  BY <2>3 DEF CloseTools, rest
  <2>6. next = rest
    BY <1>7, <1>9, <2>1, ConcatEmptySeq
  <2> HIDE DEF K
  <2>7. QED  BY <1>7, <1>10, <2>1, <2>2, <2>3, <2>4, <2>5, <2>6 DEF K
<1>12. CASE t.at # "result"
  <2>1. e = r /\ Tail(Recovered(t)) = <<m(says)>>
    <3> DEFINE a == m(says)
    <3>1. Recovered(t) = <<r, a>>
      BY <1>4, <1>12
    <3> HIDE DEF a
    <3>2. Head(Recovered(t)) = r /\ Tail(Recovered(t)) = <<a>>
      BY <3>1, Short
    <3>3. QED  BY <3>2 DEF a
  <2>2. Accepts(J, e) /\ EventSound(J, e)
    BY <1>5, <1>12, <2>1, AcceptsRecovered
  <2>3. /\ K.hist = J.hist /\ K.turn = J.turn /\ K.step = J.step /\ DOMAIN K.tools = DOMAIN J.tools
        /\ \A i \in DOMAIN J.tools :
             /\ J.tools[i].call # e.call => K.tools[i] = J.tools[i]
             /\ J.tools[i].call = e.call => K.tools[i] = [call |-> e.call, at |-> "result", says |-> e.says]
    <3>1. e.type = "tool/result"
      BY <1>5, <2>1
    <3>2. /\ e.type \in {"tool/call", "tool/execution-started", "tool/result"} /\ K = Advance(J, e)
          /\ J \in Journals /\ e \in Events /\ Accepts(J, e) /\ Sound(J)
      BY <2>2, <3>1
    <3> HIDE DEF K
    <3>3. /\ K.hist = J.hist /\ K.turn = J.turn /\ K.step = J.step /\ DOMAIN K.tools = DOMAIN J.tools
          /\ \A i \in DOMAIN J.tools :
               /\ K.tools[i].call = J.tools[i].call
               /\ J.tools[i].call # e.call => K.tools[i] = J.tools[i]
               /\ J.tools[i].call = e.call /\ e.type = "tool/result" =>
                    K.tools[i] = [call |-> e.call, at |-> "result", says |-> e.says]
      BY ONLY <3>2, SoundCall
    <3>4. QED  BY ONLY <3>1, <3>3
  <2>4. K \in Journals /\ K.adapter = J.adapter
    <3>1. AdapterAfter(J, e) = J.adapter
      BY <1>5, <2>1 DEF AdapterAfter
    <3>2. QED  BY <2>2, <3>1, Folds DEF Folded
  <2> HIDE DEF K
  <2>5. K.tools \in Seq(Tools)
    BY <2>4, JournalFields
  <2>6. K.tools # <<>> /\ K.tools[1] = [call |-> t.call, at |-> "result", says |-> says]
    <3>1. 1 \in DOMAIN J.tools
      BY <1>1
    <3>2. 1 \in DOMAIN K.tools
      BY <2>3, <3>1
    <3>3. K.tools[1] = [call |-> e.call, at |-> "result", says |-> e.says]
      BY <1>5, <2>1, <2>3, <3>1
    <3>4. K.tools # <<>>
      BY <3>2
    <3>5. QED  BY <1>5, <2>1, <3>3, <3>4
  <2>7. Tail(K.tools) = Tail(J.tools)
    <3>1. \A i \in DOMAIN J.tools : i # 1 => K.tools[i] = J.tools[i]
      <4>1. e.call = J.tools[1].call
        BY <1>5, <2>1
      <4>2. \A i \in DOMAIN J.tools : J.tools[i].call = J.tools[1].call => i = 1
        BY <1>1 DEF Sound
      <4>3. QED  BY <2>3, <4>1, <4>2
    <3>2. /\ Len(J.tools) \in Nat /\ DOMAIN J.tools = 1..Len(J.tools) /\ DOMAIN K.tools = 1..Len(K.tools)
          /\ Len(K.tools) \in Nat
      BY <1>1, <2>5
    <3>3. Len(K.tools) = Len(J.tools)
      BY <2>3, <3>2
    <3>4. /\ Tail(J.tools) \in Seq(Tools) /\ Len(Tail(J.tools)) = Len(J.tools) - 1
          /\ \A i \in 1..(Len(J.tools) - 1) : Tail(J.tools)[i] = J.tools[i + 1]
      BY <1>1, HeadTailProperties
    <3>5. /\ Tail(K.tools) \in Seq(Tools) /\ Len(Tail(K.tools)) = Len(K.tools) - 1
          /\ \A i \in 1..(Len(K.tools) - 1) : Tail(K.tools)[i] = K.tools[i + 1]
      BY <2>5, <2>6, HeadTailProperties
    <3>6. \A i \in 1..(Len(J.tools) - 1) : Tail(K.tools)[i] = Tail(J.tools)[i]
      <4>1. ASSUME NEW i \in 1..(Len(J.tools) - 1) PROVE K.tools[i + 1] = J.tools[i + 1]
        <5>1. i + 1 \in 1..Len(J.tools) /\ i + 1 # 1
          BY <3>2
        <5> DEFINE j == i + 1
        <5>2. j \in DOMAIN J.tools /\ j # 1
          BY <3>2, <5>1
        <5> HIDE DEF j
        <5>3. K.tools[j] = J.tools[j]
          BY <3>1, <5>2
        <5>4. QED  BY <5>3 DEF j
      <4>2. QED  BY <3>3, <3>4, <3>5, <4>1
    <3> DEFINE x == Tail(K.tools)
               y == Tail(J.tools)
    <3>7. x \in Seq(Tools) /\ y \in Seq(Tools) /\ Len(x) = Len(y) /\ \A i \in 1..Len(x) : x[i] = y[i]
      BY <3>3, <3>4, <3>5, <3>6
    <3> HIDE DEF x, y
    <3>8. x = y
      BY <3>7, SeqEqual
    <3>9. QED  BY <3>8 DEF x, y
  <2>8. CloseTools(K) = Recovered(K.tools[1]) \o rest /\ Recovered(K.tools[1]) = <<m(says)>>
    <3>1. CloseTools(K) = Recovered(K.tools[1]) \o rest
      BY <2>4, <2>6, <2>7, ClosesFirst DEF rest
    <3>2. Recovered(K.tools[1]) = <<m(says)>>
      <4> DEFINE u == K.tools[1]
                 c == t.call
                 w == says
      <4>1. u = [call |-> c, at |-> "result", says |-> w]
        BY <2>6
      <4> HIDE DEF u, c, w
      <4>2. u.at = "result" /\ u.call = c /\ u.says = w
        BY <4>1
      <4>3. Recovered(u) = <<m(w)>>
        BY <4>2 DEF Recovered, m, c
      <4>4. QED  BY <4>3 DEF u, w
    <3>3. QED  BY <3>1, <3>2
  <2>9. CloseTools(K) \in Seq(Events)
    <3>1. CloseTools(K) \in Seq({x \in Events : Receives(x)})
      BY <2>4, Parts
    <3>2. QED  BY <3>1, SeqMonotonic
  <2>10. Tail(todo) = CloseTools(K) \o C
    BY <1>9, <2>1, <2>8
  <2>11. QED  BY <1>1, <1>10, <2>2, <2>3, <2>4, <2>9, <2>10 DEF K
<1>13. QED  BY <1>11, <1>12

\* What recovery appends first answers the first of the calls owed.
LEMMA CuresCall ==
  ASSUME NEW J \in Journals, Sound(J), J.tools # <<>>, NEW todo, todo = CloseTools(J) \o Closing(J),
         NEW e \in Events, e = Head(todo)
  PROVE  Cures(J, todo, e)
<1> DEFINE t == J.tools[1]
           L == [tools |-> Tail(J.tools)]
           rest == CloseTools(L)
           C == Closing(J)
<1>1. t \in Tools /\ L.tools = Tail(J.tools) /\ C \in Seq(Events)
  <2>1. J.tools \in Seq(Tools)
    BY SoundParts
  <2>2. t \in Tools
    BY <2>1
  <2>3. C \in Seq(Events)
    BY Parts
  <2>4. QED  BY <2>2, <2>3
<1> HIDE DEF L
<1>2. Recovered(t) \in Seq(Events) /\ Recovered(t) # <<>>
  <2> HIDE DEF t
  <2>1. ASSUME NEW a, NEW b PROVE <<a>> # <<>> /\ <<a, b>> # <<>>
    OBVIOUS
  <2>2. QED  BY <1>1, <2>1, RecoversTool
<1>3. CloseTools(J) = Recovered(t) \o rest /\ rest \in Seq(Events)
  BY <1>1, ClosesFirst
<1> HIDE DEF rest, C
<1>4. PICK next : e = Head(Recovered(t)) /\ next = Tail(Recovered(t)) \o rest /\ Tail(todo) = next \o C
  <2> DEFINE x == Recovered(t)
             y == CloseTools(J)
  <2>1. x \in Seq(Events) /\ rest \in Seq(Events) /\ C \in Seq(Events) /\ x # <<>> /\ y = x \o rest
    BY <1>1, <1>2, <1>3
  <2>2. todo = y \o C
    BY DEF C
  <2> HIDE DEF x, y
  <2>3. y \in Seq(Events) /\ y # <<>> /\ Head(y) = Head(x) /\ Tail(y) = Tail(x) \o rest
    BY <2>1, FirstOf, ConcatProperties
  <2>4. Head(todo) = Head(y) /\ Tail(todo) = Tail(y) \o C
    BY SMTT(30), <2>1, <2>2, <2>3, FirstOf
  <2>5. QED  BY <2>3, <2>4 DEF x
<1>5. QED  BY <1>1, <1>4, CuresFirst DEF rest, C

\* The step is closed.
LEMMA CuresStep ==
  ASSUME NEW J \in Journals, Sound(J), J.tools = <<>>, J.step # None, NEW todo, todo = Closing(J),
         NEW e \in Events, e = Head(todo)
  PROVE  Cures(J, todo, e)
<1> DEFINE K == Advance(J, e)
<1>1. J.turn # None
  BY SoundParts
<1>2. /\ e.type = "adapter/state" \/ (/\ e.type = "step/completed" /\ e.outcome = "interrupted"
                                      /\ e.recovered /\ e.rollbackTurn = RollsBack(J))
      /\ Accepts(J, e) => Tail(todo) = Closing(K)
  BY ClosesStep
<1>3. Accepts(J, e) /\ EventSound(J, e)
  <2>1. CASE e.type = "adapter/state"
    BY <1>1, <2>1, SetsContinuation
  <2>2. CASE e.type # "adapter/state"
    <3>1. Accepts(J, e)
      BY <1>2, <2>2, AcceptsCompletion
    <3>2. EventSound(J, e)
      BY <1>2, <2>2 DEF EventSound
    <3>3. QED  BY <3>1, <3>2
  <2>3. QED  BY <2>1, <2>2
<1>4. K \in Journals /\ K.tools = <<>> /\ K.turn # None
  <2>1. ToolsAfter(J, e) = J.tools
    BY <1>2 DEF ToolsAfter
  <2>2. TurnGoesOn(J, e, K)
    BY <1>1, <1>2, <1>3, TurnKeepsOn
  <2>3. QED  BY <1>3, <2>1, <2>2, Folds DEF TurnGoesOn
<1> HIDE DEF K
<1>5. Tail(todo) = CloseTools(K) \o Closing(K) /\ Tail(todo) # <<>>
  BY <1>2, <1>3, <1>4, ClosesNone, ClosingLeft
<1>6. QED  BY <1>3, <1>5 DEF Cures, Mending, K

\* Where nothing is open nothing is to be closed.
LEMMA CuresNothing ==
  ASSUME NEW J \in Journals, J.turn = None, J.step = None, J.tools = <<>>
  PROVE  CloseTools(J) \o Closing(J) = <<>> /\ Mending(<<>>, J)
<1>1. ~RollsBack(J)
  BY DEF RollsBack
<1>2. Closing(J) = <<>>
  BY <1>1, ClosingTurn DEF CloseTurn
<1>3. QED  BY <1>2, ClosesNone DEF Mending

\* The turn is put back if it must be, and ends.
LEMMA CuresTurn ==
  ASSUME NEW J \in Journals, Sound(J), J.step = None, J.turn # None, NEW todo, NEW e \in Events, e = Head(todo),
         todo = Closing(J) \/ todo = Restore(J.adapter, J.turn.adapterBefore) \o CloseTurn(J)
  PROVE  Cures(J, todo, e)
<1> DEFINE K == Advance(J, e)
<1>1. CASE e.type = "turn/ended" /\ Tail(todo) = <<>>
  <2>1. Accepts(J, e) /\ EventSound(J, e) /\ K.turn = None /\ K.step = None /\ K.tools = <<>>
    BY <1>1, EndsTurn
  <2>2. K \in Journals
    BY <2>1, Folds
  <2> HIDE DEF K
  <2>3. Mending(<<>>, K)
    BY <2>1, <2>2, CuresNothing
  <2>4. QED  BY <1>1, <2>1, <2>3 DEF Cures, K
<1>2. CASE /\ e.type = "history/replaced" /\ e.history = J.turn.before
           /\ e.recovered /\ e.thread = None /\ ~e.clear /\ RollsBack(J)
           /\ Tail(todo) = Restore(J.adapter, J.turn.adapterBefore) \o CloseTurn(J)
  <2>1. Replied(e.history)
    BY <1>2 DEF Sound
  <2>2. /\ Accepts(J, e) /\ EventSound(J, e) /\ K.step = None /\ K.turn # None /\ K.adapter = J.adapter
        /\ K.turn.adapterBefore = J.turn.adapterBefore
    BY <1>2, <2>1, PutsHistory
  <2>3. K \in Journals
    BY <2>2, Folds
  <2> HIDE DEF K
  <2>4. Tail(todo) = Restore(K.adapter, K.turn.adapterBefore) \o CloseTurn(K)
    BY <1>2, <2>2 DEF CloseTurn
  <2>5. Tail(todo) # <<>>
    BY <2>2, <2>3, <2>4, ClosingLeft, Parts
  <2>6. QED  BY <2>2, <2>4, <2>5 DEF Cures, Mending, K
<1>3. CASE e.type = "adapter/state" /\ e.state = J.turn.adapterBefore /\ Tail(todo) = CloseTurn(J)
  <2>1. Accepts(J, e) /\ EventSound(J, e) /\ K.step = None /\ K.turn = J.turn /\ K.adapter = e.state
    BY <1>3, SetsContinuation
  <2>2. K \in Journals
    BY <2>1, Folds
  <2> HIDE DEF K
  <2>3. Restore(K.adapter, K.turn.adapterBefore) = <<>> /\ CloseTurn(K) = CloseTurn(J)
    BY <1>3, <2>1 DEF Restore, CloseTurn
  <2>4. <<>> \o CloseTurn(K) = CloseTurn(K) /\ CloseTurn(K) # <<>>
    BY <2>1, <2>2, Parts, ConcatEmptySeq, ClosingLeft
  <2>5. QED  BY <1>3, <2>1, <2>3, <2>4 DEF Cures, Mending, K
<1>4. CASE todo = Closing(J)
  BY <1>1, <1>2, <1>4, ClosesTurn
<1>5. CASE todo = Restore(J.adapter, J.turn.adapterBefore) \o CloseTurn(J)
  BY <1>1, <1>3, <1>5, ClosesRest
<1>6. QED  BY <1>4, <1>5

\* Any event of a recovery.
LEMMA MendingOn ==
  ASSUME NEW J \in Journals, Sound(J), NEW todo, todo # <<>>, Mending(todo, J), NEW e \in Events, e = Head(todo)
  PROVE  Cures(J, todo, e)
<1>1. CASE todo = CloseTools(J) \o Closing(J)
  <2>1. CASE J.tools # <<>>
    BY <1>1, <2>1, CuresCall
  <2>2. CASE J.tools = <<>>
    <3>1. todo = Closing(J)
      BY <1>1, <2>2, ClosesNone
    <3>2. CASE J.step # None
      BY <2>2, <3>1, <3>2, CuresStep
    <3>3. CASE J.step = None
      <4>1. J.turn # None
        BY <1>1, <2>2, <3>3, CuresNothing
      <4>2. QED  BY <3>1, <3>3, <4>1, CuresTurn
    <3>4. QED  BY <3>2, <3>3
  <2>3. QED  BY <2>1, <2>2
<1>2. CASE J.turn # None /\ J.step = None /\ todo = Restore(J.adapter, J.turn.adapterBefore) \o CloseTurn(J)
  BY <1>2, CuresTurn
<1>3. QED  BY <1>1, <1>2 DEF Mending

\* A journal that is mended has no open turn.
LEMMA MendingEnds ==
  ASSUME NEW J \in Journals, Mending(<<>>, J)
  PROVE  J.turn = None
<1> SUFFICES ASSUME J.turn # None PROVE FALSE
  OBVIOUS
<1>1. CloseTools(J) \o Closing(J) # <<>>
  <2>1. CloseTools(J) \in Seq({x \in Events : Receives(x)})
    BY Parts
  <2>2. CloseTools(J) \in Seq(Events)
    BY <2>1, SeqMonotonic
  <2>3. QED  BY <2>2, ClosingLeft, Parts
<1>2. Restore(J.adapter, J.turn.adapterBefore) \o CloseTurn(J) # <<>>
  BY ClosingLeft, Parts
<1>3. QED  BY <1>1, <1>2 DEF Mending

\* What recovery appends is what closes the calls, the step and the turn.
LEMMA PlanIs ==
  ASSUME NEW J \in Journals, ~J.dead
  PROVE  RecoveryPlan(J) = CloseTools(J) \o Closing(J)
<1> DEFINE T == CloseTools(J)
           S == {x \in Events : Receives(x)}
<1>1. T \in Seq(S)
  BY Parts
<1>2. T \in Seq(Events)
  BY <1>1, SeqMonotonic
<1>3. RecoveryPlan(J) = ((T \o CloseStep(J)) \o RollBackTurn(J)) \o CloseTurn(J)
  BY DEF RecoveryPlan
<1> HIDE DEF T
<1>4. CloseStep(J) \in Seq(Events) /\ RollBackTurn(J) \in Seq(Events) /\ CloseTurn(J) \in Seq(Events)
  BY Zenon, Parts
<1>5. CloseStep(J) \o RollBackTurn(J) \in Seq(Events)
  BY <1>4, ConcatProperties
<1>6. (T \o CloseStep(J)) \o RollBackTurn(J) = T \o (CloseStep(J) \o RollBackTurn(J))
  BY SMTT(20), <1>2, <1>4, ConcatAssociative
<1> DEFINE P == CloseStep(J) \o RollBackTurn(J)
<1>7. (T \o P) \o CloseTurn(J) = T \o (P \o CloseTurn(J))
  <2> HIDE DEF P
  <2>1. P \in Seq(Events)
    BY <1>5 DEF P
  <2>2. QED  BY SMTT(20), <1>2, <1>4, <2>1, ConcatAssociative
<1>8. QED  BY <1>3, <1>6, <1>7 DEF Closing, T

\* What a process that opens a journal appends, mends it.
LEMMA MendingFromPlan ==
  ASSUME NEW J \in Journals, Sound(J)
  PROVE  Mending(RecoveryPlan(J), J)
<1>1. CASE J.dead
  <2>1. J.turn = None
    BY <1>1 DEF Sound
  <2>2. J.step = None /\ J.tools = <<>>
    BY <2>1, SoundParts
  <2>3. RecoveryPlan(J) = <<>>
    BY <1>1 DEF RecoveryPlan
  <2>4. QED  BY <2>1, <2>2, <2>3, CuresNothing
<1>2. CASE ~J.dead
  BY <1>2, PlanIs DEF Mending
<1>3. QED  BY <1>1, <1>2

\* A recovery.
LEMMA AdmitsMended ==
  ASSUME NEW J \in Journals, Sound(J), NEW r, NEW todo, todo # <<>>, NEW e \in Events, e = Head(todo),
         NEW then \in {"mended", "import"}, MeansWell(r, todo, then, J)
  PROVE  GoesWell(r, todo, then, J, e)
<1> DEFINE K == Advance(J, e)
<1>1. Mending(todo, J) /\ (then = "mended" => r.started)
      /\ (then = "import" => ~r.started /\ ~r.recovering /\ r.checkpoint = None)
  BY DEF MeansWell
<1>2. Accepts(J, e) /\ EventSound(J, e) /\ Mending(Tail(todo), K) /\ (Tail(todo) = <<>> => K.turn = None)
  BY <1>1, MendingOn DEF Cures
<1> HIDE DEF K
<1>3. Tail(todo) = <<>> => StandsWell(r, then, K)
  BY <1>1, <1>2 DEF StandsWell, Aside
<1>4. MeansWell(r, Tail(todo), then, K)
  BY <1>1, <1>2 DEF MeansWell
<1>5. QED  BY <1>2, <1>3, <1>4 DEF GoesWell, K

-----------------------------------------------------------------------------
(* A script goes on, or fails.                                               *)

\* Wherever a script leads, its next event may be appended and leaves the rest meant well.
LEMMA Admits ==
  ASSUME NEW J \in Journals, Sound(J), NEW r, NEW todo, todo # <<>>, NEW e \in Events, e = Head(todo),
         NEW then \in Targets, MeansWell(r, todo, then, J)
  PROVE  GoesWell(r, todo, then, J, e)
<1>1. CASE then \in {"budget", "open", "idle", "ended"}
  BY <1>1, AdmitsOutside
<1>2. CASE then \in {"opened", "round", "response", "after"}
  BY <1>2, AdmitsOpened, AdmitsRound, AdmitsResponse, AdmitsAfter
<1>3. CASE then \in {"request", "model", "dispatch", "spoken"}
  BY <1>3, AdmitsAsked, AdmitsSpoken
<1>4. CASE then \in {"answer", "complete", "committed", "terminated"}
  BY <1>4, AdmitsAnswer, AdmitsComplete, AdmitsCommitted, AdmitsTerminated
<1>5. CASE then \in {"mended", "import"}
  BY <1>5, AdmitsMended
<1>6. QED  BY <1>1, <1>2, <1>3, <1>4, <1>5 DEF Targets

\* A turn that goes on can be caught, unless calls are open that nobody mends.
LEMMA CaughtWell ==
  ASSUME NEW J \in Journals, Sound(J), NEW r, Going(r, J), r.recovering \/ J.step = None \/ J.tools = <<>>
  PROVE  StandsWell(r, "catch", J)
<1>1. J.step = None => J.tools = <<>>
  BY DEF Sound
<1>2. QED  BY <1>1 DEF StandsWell, Going, Stops, Aside

\* Where the failure of a script is caught, the operation stands well.
LEMMA LandsWell ==
  ASSUME NEW J \in Journals, Sound(J), NEW r, NEW todo, NEW then, NEW onFail \in Failures,
         MeansWell(r, todo, then, J), Lands(then, onFail)
  PROVE  StandsWell(r, onFail, J)
<1>1. CASE onFail = "catch"
  <2>1. then \in InTurn
    BY <1>1 DEF Lands
  <2>2. CASE then = "opened"
    BY <1>1, <2>2 DEF MeansWell, StandsWell, Aside
  <2>3. CASE then \in InTurn \ {"opened"}
    <3>1. Going(r, J)
      BY <2>3 DEF MeansWell, InTurn
    <3>2. r.recovering \/ J.step = None \/ J.tools = <<>>
      <4>1. CASE then \in {"round", "request", "model"}
        BY <4>1 DEF MeansWell, Rested, Worked, Stepping
      <4>2. CASE then \in {"response", "dispatch", "spoken"}
        BY <4>2 DEF MeansWell, Stepping
      <4>3. CASE then \in {"after", "answer", "complete", "committed"}
        BY <4>3 DEF MeansWell, Worked, Mute, Stepping
      <4>4. QED  BY <2>3, <4>1, <4>2, <4>3 DEF InTurn
    <3>3. QED  BY <1>1, <3>1, <3>2, CaughtWell
  <2>4. QED  BY <2>1, <2>2, <2>3
<1>2. CASE onFail = "finally"
  <2>1. Stops(r, J)
    BY <1>2 DEF Lands, MeansWell
  <2>2. QED  BY <1>2, <2>1 DEF StandsWell, Aside
<1>3. CASE onFail \in {"told", "ended", "unopened"}
  BY <1>3 DEF StandsWell, Aside
<1>4. QED  BY <1>1, <1>2, <1>3 DEF Lands

\* What an event that only adds to a laden journal leaves of it.
AddsTo(J, K) == Laden(K) /\ K.thread = J.thread /\ Len(J.hist) <= Len(K.hist)
Adding == {"tool/call", "tool/execution-started", "tool/result", "message/appended", "adapter/state", "turn/ended"}

\* Such events leave a journal its thread.
LEMMA ThreadStays ==
  ASSUME NEW J \in Journals, NEW e \in Events, Accepts(J, e),
         e.type \in Adding \cup {"step/completed"}
  PROVE  Advance(J, e).thread = J.thread
<1> DEFINE E == Effect(J, e)
<1>1. E.thread = J.thread
  <2>1. CASE e.type = "message/appended"
    <3>1. e.message.role \in {"user", "assistant", "tool"}
      BY <2>1, EventFields, MessageFields
    <3> DEFINE A == AfterMessage(J, e.message)
               x == IF e.external THEN A.external \union {e.message.text} ELSE A.external
    <3>2. E = [A EXCEPT !.external = x]
      BY <2>1 DEF Effect
    <3>3. E.thread = A.thread
      BY <3>2
    <3>4. A.thread = J.thread
      BY <3>1 DEF AfterMessage, Journals
    <3>5. QED  BY <3>3, <3>4
  <2>2. CASE e.type \in {"tool/call", "tool/execution-started", "tool/result"}
    <3>1. PICK c, at, w : E = SetTool(J, c, at, w)
      BY <2>2 DEF Effect
    <3>2. PICK T : E = [J EXCEPT !.tools = T]
      BY Zenon, <3>1 DEF SetTool
    <3>3. QED  BY <3>2 DEF Journals
  <2>3. CASE e.type \in {"adapter/state", "turn/ended"}
    <3>1. E = [J EXCEPT !.adapter = e.state] \/ E = [J EXCEPT !.turn = None]
      BY <2>3 DEF Effect
    <3>2. QED  BY <3>1 DEF Journals
  <2>4. CASE e.type = "step/completed"
    <3>1. E = AfterStep(J, e)
      BY <2>4 DEF Effect
    <3>2. QED  BY <3>1 DEF AfterStep, Journals
  <2>5. QED  BY <2>1, <2>2, <2>3, <2>4 DEF Adding
<1>2. E \in Journals
  BY EventFields, AdvanceMessage, AdvanceTool, AdvanceReplacement, AdvanceTurn, AdvanceOther DEF After
<1>3. Advance(J, e) = [E EXCEPT !.count = 2]
  BY DEF Advance
<1> HIDE DEF E
<1>4. QED  BY <1>1, <1>2, <1>3 DEF Journals

\* Such a journal stays laden until the turn is put back.
LEMMA LadenOn ==
  ASSUME NEW J \in Journals, Laden(J), NEW e \in Events, Accepts(J, e),
         e.type \in Adding \/ (e.type = "step/completed" /\ ~Breaks(e))
  PROVE  AddsTo(J, Advance(J, e))
<1> DEFINE K == Advance(J, e)
<1>1. K = Advance(J, e)
  OBVIOUS
<1> HIDE DEF K
<1>2. K.hist = HistAfter(J, e) /\ J.hist \in Histories /\ J.hist # <<>> /\ TurnAfter(J, e, K.turn)
  BY <1>1, Folds, JournalHistories DEF Folded, Laden
<1>3. HistAfter(J, e) = J.hist \/ (e.message \in Messages /\ HistAfter(J, e) = Append(J.hist, e.message))
  BY EventFields DEF HistAfter, Adding
<1>4. K.hist # <<>> /\ Len(J.hist) <= Len(K.hist)
  <2>1. Len(J.hist) \in Nat
    BY <1>2 DEF Histories
  <2>2. QED  BY <1>2, <1>3, <2>1, AppendedTo
<1>5. K.turn # None => K.turn.nonUser /\ ~K.turn.mustRoll
  <2>1. CASE e.type = "turn/ended"
    BY <1>2, <2>1 DEF TurnAfter
  <2>2. CASE e.type # "turn/ended"
    <3>1. e.type \notin {"turn/started", "turn/ended", "history/replaced"}
      BY <2>2 DEF Adding
    <3>2. IF J.turn = None THEN K.turn = None ELSE TurnGoesOn(J, e, K)
      BY <1>1, <3>1, TurnKeepsOn
    <3>3. QED  BY <3>1, <3>2 DEF TurnGoesOn, Laden, Adding
  <2>3. QED  BY <2>1, <2>2
<1>6. K.thread = J.thread
  BY <1>1, ThreadStays DEF Adding
<1>7. QED  BY <1>1, <1>4, <1>5, <1>6 DEF AddsTo, Laden

-----------------------------------------------------------------------------
(* Where an operation goes on.                                               *)

\* Operations that are alike in what is asked of where they stand.
Twins(s, r) ==
  /\ s.started = r.started /\ s.recovering = r.recovering /\ s.checkpoint = r.checkpoint
  /\ s.before = r.before /\ s.batch = r.batch /\ s.answered = r.answered /\ s.call = r.call

\* They stand well alike.
LEMMA TwinsFit ==
  ASSUME NEW s, NEW r, Twins(s, r), NEW J
  PROVE  /\ \A at : StandsWell(r, at, J) => StandsWell(s, at, J)
         /\ \A todo, then : MeansWell(r, todo, then, J) => MeansWell(s, todo, then, J)
<1>1. /\ s.started = r.started /\ s.recovering = r.recovering /\ s.checkpoint = r.checkpoint
      /\ s.before = r.before /\ s.batch = r.batch /\ s.answered = r.answered /\ s.call = r.call
  BY DEF Twins
<1>2. Going(r, J) => Going(s, J)
  BY <1>1 DEF Going
<1>3. Stops(r, J) => Stops(s, J)
  BY <1>2 DEF Stops
<1>4. ASSUME NEW m PROVE Reads(r, m) => Reads(s, m)
  BY <1>1 DEF Reads
<1>5. Serves(r, J) => Serves(s, J)
  BY <1>1, <1>2 DEF Serves
<1>6. ASSUME NEW at, StandsWell(r, at, J) PROVE StandsWell(s, at, J)
  BY <1>1, <1>2, <1>3, <1>4, <1>5, <1>6 DEF StandsWell
<1>7. ASSUME NEW todo, NEW then, MeansWell(r, todo, then, J) PROVE MeansWell(s, todo, then, J)
  BY <1>1, <1>2, <1>3, <1>4, <1>7 DEF MeansWell
<1>8. QED  BY <1>6, <1>7

\* Where a script begins well, or ends.
SetsWell(r, events, then, onFail, J) ==
  IF events = <<>> THEN StandsWell(r, then, J) ELSE MeansWell(r, events, then, J) /\ Lands(then, onFail)

\* What is asked where a script begins is asked of the operation that begins it.
LEMMA ScriptedWell ==
  ASSUME NEW r \in Runs, NEW events, NEW then, NEW onFail, then # "script",
         NEW s, s = Script(r, events, then, onFail)
  PROVE  /\ Twins(s, r) /\ \A J : SetsWell(r, events, then, onFail, J) => PlaceSound(s, J)
         /\ IF events = <<>> THEN s.at = then ELSE s.at = "script" /\ s.onFail = onFail /\ s.then = then
<1>1. CASE events = <<>>
  <2>1. s = [r EXCEPT !.at = then]
    BY <1>1 DEF Script
  <2>2. Twins(s, r) /\ s.at = then
    BY Zenon, <2>1 DEF Runs, Twins
  <2>3. \A J : StandsWell(r, then, J) => PlaceSound(s, J)
    BY <2>2, TwinsFit DEF PlaceSound
  <2>4. QED  BY <1>1, <2>2, <2>3 DEF SetsWell
<1>2. CASE events # <<>>
  <2>1. s = [r EXCEPT !.at = "script", !.todo = events, !.then = then, !.onFail = onFail]
    BY <1>2 DEF Script
  <2>2. Twins(s, r) /\ s.at = "script" /\ s.todo = events /\ s.then = then /\ s.onFail = onFail
    BY Zenon, <2>1 DEF Runs, Twins
  <2>3. \A J : MeansWell(r, events, then, J) /\ Lands(then, onFail) => PlaceSound(s, J)
    BY <2>2, TwinsFit DEF PlaceSound
  <2>4. QED  BY <1>2, <2>2, <2>3 DEF SetsWell
<1>3. QED  BY <1>1, <1>2

\* The parts of the invariant at a place of its own.
LEMMA HereWell ==
  ASSUME TypeOK, SoundInv, run.at \notin Entrances
  PROVE  /\ run \in Runs /\ disk \in Journals /\ kernel \in Journals
         /\ Sound(kernel) /\ StandsWell(run, run.at, kernel) /\ Abreast /\ ~Opening(run)
  BY DEF TypeOK, SoundInv, PlaceSound, Entrances, Opening

\* What the conversation store holds then.
LEMMA MemWell ==
  ASSUME SoundInv, ~Opening(run), ~Stuck, NEW t \in Threads
  PROVE  Replied(MessagesOf(mem[t]))
  BY DEF SoundInv, MemSound

\* A step that appends nothing.
LEMMA StepsOut ==
  ASSUME SoundInv, run.at # "down", UNCHANGED <<disk, kernel>>, run'.at \notin {"down", "import"},
         PlaceSound(run', kernel), MemSound'
  PROVE  SoundInv'
<1>1. disk' = disk /\ kernel' = kernel
  OBVIOUS
<1>2. Sound(disk)' /\ Sound(kernel)' /\ PlaceSound(run, kernel)'
  BY <1>1 DEF SoundInv
<1>3. Abreast'
  BY <1>1 DEF SoundInv, Abreast
<1>4. QED  BY <1>2, <1>3 DEF SoundInv

\* The conversation store is left alone.
LEMMA StoreStays ==
  ASSUME SoundInv, UNCHANGED <<disk, mem>>, Opening(run) \/ Stuck => Opening(run') \/ Stuck'
  PROVE  MemSound'
  BY DEF SoundInv, MemSound

\* The operation stands elsewhere.
LEMMA StandsOutWell ==
  ASSUME TypeOK, SoundInv, run.at \notin Entrances, UNCHANGED <<disk, kernel, mem>>,
         run'.at \notin Entrances \cup {"opened"}, run'.started => run.started,
         StandsWell(run', run'.at, kernel)
  PROVE  SoundInv'
<1>1. PlaceSound(run', kernel)
  BY DEF PlaceSound, Entrances
<1>2. Stuck => Stuck'
  BY DEF Stuck
<1>3. ~Opening(run)
  BY HereWell
<1>4. MemSound'
  BY <1>2, <1>3, StoreStays
<1>5. QED  BY <1>1, <1>4, StepsOut DEF Entrances

\* The operation goes on with events, or elsewhere.
LEMMA SetsWellOut ==
  ASSUME TypeOK, SoundInv, run.at \notin Entrances, UNCHANGED <<disk, kernel, mem>>,
         NEW r \in Runs, NEW events, NEW then, NEW onFail, then \notin Entrances,
         events = <<>> => then # "opened", r.started => run.started \/ run.at = "opened",
         run' = Script(r, events, then, onFail), SetsWell(r, events, then, onFail, kernel)
  PROVE  SoundInv'
<1> DEFINE s == run'
<1>1. s = Script(r, events, then, onFail) /\ then # "script"
  BY DEF Entrances
<1> HIDE DEF s
<1>2. /\ Twins(s, r) /\ PlaceSound(s, kernel)
      /\ IF events = <<>> THEN s.at = then ELSE s.at = "script" /\ s.onFail = onFail /\ s.then = then
  BY <1>1, ScriptedWell
<1>3. s.started = r.started /\ s.at \notin {"down", "import", "opened"}
  BY <1>2 DEF Twins, Entrances
<1>4. Stuck => Stuck'
  BY <1>3 DEF Stuck, s
<1>5. MemSound'
  BY <1>4, HereWell, StoreStays
<1>6. QED  BY <1>2, <1>3, <1>5, StepsOut DEF Entrances, s

\* The operation goes to a place and is otherwise as it was.
LEMMA GoesWellOut ==
  ASSUME TypeOK, SoundInv, run.at \notin Entrances, UNCHANGED <<disk, kernel, mem>>,
         NEW at, at \notin Entrances \cup {"opened"}, Goto(at), StandsWell(run, at, kernel)
  PROVE  SoundInv'
<1>1. run' = Script(run, <<>>, at, "idle")
  BY DEF Script, Goto
<1>2. SetsWell(run, <<>>, at, "idle", kernel)
  BY DEF SetsWell
<1>3. run \in Runs
  BY HereWell
<1>4. QED  BY <1>1, <1>2, <1>3, SetsWellOut

\* Places at which nothing is asked, once no turn is begun.
LEMMA Quits ==
  ASSUME NEW r, NEW at \in {"ended", "told", "done"}, NEW J
  PROVE  StandsWell(r, at, J)
  BY DEF StandsWell, Aside

-----------------------------------------------------------------------------
(* What an append makes of the store, when it is ahead of the process.       *)

\* With calls owed, only what adds to a journal is accepted.
LEMMA ToolsOpen ==
  ASSUME NEW J \in Journals, Sound(J), J.tools # <<>>, NEW e \in Events, Accepts(J, e)
  PROVE  AddsTo(J, Advance(J, e))
<1>1. J.step # None /\ J.turn # None /\ Laden(J) /\ Pending(J) = "nothing"
  BY SoundParts DEF Sound, Pending
<1>2. e.type \in Adding
  <2>1. e.type \in {"turn/started", "step/started", "session/destroyed", "turn/ended",
                    "step/completed", "model/request-prepared", "model/response-received",
                    "message/appended", "tool/call", "tool/execution-started", "tool/result",
                    "adapter/state", "history/replaced", "session/reset"}
    BY EventFields
  <2>2. e.type \notin {"turn/started", "step/started"}
    BY <1>1 DEF Accepts, Lives, Starts
  <2>3. e.type \notin {"step/completed", "turn/ended", "session/reset", "session/destroyed", "history/replaced"}
    BY <1>1 DEF Accepts, Lives, Ends, Closes, Replaces
  <2>4. e.type \notin {"model/request-prepared", "model/response-received"}
    BY <1>1 DEF Accepts, Correlates, Alternates
  <2>5. QED  BY <2>1, <2>2, <2>3, <2>4 DEF Adding
<1>3. QED  BY <1>1, <1>2, LadenOn

\* A recovery of a laden journal only adds to it.
LEMMA MendsLaden ==
  ASSUME NEW J \in Journals, Sound(J), Laden(J), NEW todo, todo # <<>>, Mending(todo, J),
         NEW e \in Events, e = Head(todo), Accepts(J, e)
  PROVE  AddsTo(J, Advance(J, e))
<1>1. CASE J.tools # <<>>
  BY <1>1, ToolsOpen
<1>2. CASE J.tools = <<>>
  <2>1. ~RollsBack(J)
    BY DEF Laden, RollsBack
  <2>2. e.type \in {"adapter/state", "turn/ended"} \/ (e.type = "step/completed" /\ ~Breaks(e))
    <3>1. CASE todo = CloseTools(J) \o Closing(J)
      <4>1. todo = Closing(J)
        BY <1>2, <3>1, ClosesNone
      <4>2. CASE J.step # None
        <5>1. IF J.adapter = ContinuationAtTurn(J)
              THEN /\ e.type = "step/completed" /\ e.outcome = "interrupted"
                   /\ e.recovered /\ e.rollbackTurn = RollsBack(J)
              ELSE e.type = "adapter/state" /\ e.state = ContinuationAtTurn(J) /\ J.step.unprojected
          BY <4>1, <4>2, ClosesStep
        <5>2. QED  BY <2>1, <5>1 DEF Breaks
      <4>3. CASE J.step = None /\ J.turn # None
        BY <2>1, <4>1, <4>3, ClosesTurn
      <4>4. CASE J.step = None /\ J.turn = None
        BY <1>2, <3>1, <4>4, CuresNothing
      <4>5. QED  BY <4>2, <4>3, <4>4
    <3>2. CASE J.turn # None /\ J.step = None /\ todo = Restore(J.adapter, J.turn.adapterBefore) \o CloseTurn(J)
      BY <3>2, ClosesRest
    <3>3. QED  BY <3>1, <3>2 DEF Mending
  <2>3. QED  BY <2>2, LadenOn DEF Adding
<1>3. QED  BY <1>1, <1>2

\* What a turn that a failed recovery left open still accepts.
LEMMA StuckAccepts ==
  ASSUME NEW J \in Journals, Sound(J), J.turn # None, NEW r, ~r.started,
         NEW todo, todo # <<>>, NEW then \in Targets \ {"import"}, MeansWell(r, todo, then, J),
         NEW e \in Events, e = Head(todo), Accepts(J, e)
  PROVE  then = "ended" /\ e.type = "message/appended" /\ Tail(todo) = <<>>
<1>1. then \notin {"round", "request", "model", "response", "dispatch", "spoken", "after", "answer",
                   "complete", "committed", "terminated", "mended"}
  BY DEF MeansWell, Stops, Going
<1>2. then \notin {"budget", "open"}
  <2> SUFFICES ASSUME then \in {"budget", "open"} PROVE FALSE
    OBVIOUS
  <2>1. Makes(todo, "history/replaced") /\ todo[1].clear
    BY DEF MeansWell
  <2>2. e = todo[1] /\ e.type = "history/replaced" /\ e.clear
    BY <2>1, Short DEF Makes, Alone
  <2>3. QED  BY <2>2 DEF Accepts, Lives, Replaces, MayReplace
<1>3. then # "idle"
  BY DEF MeansWell
<1>4. then # "opened"
  <2> SUFFICES ASSUME then = "opened" PROVE FALSE
    OBVIOUS
  <2>1. todo = <<TurnStarted>>
    BY DEF MeansWell
  <2>2. e = TurnStarted
    BY <2>1
  <2>3. e.type = "turn/started"
    BY <2>2 DEF TurnStarted
  <2>4. QED  BY <2>3 DEF Accepts, Lives, Starts
<1>5. then = "ended"
  BY <1>1, <1>2, <1>3, <1>4 DEF Targets
<1>6. Alone(todo) /\ Outside(todo[1])
  BY <1>5 DEF MeansWell
<1>7. e = todo[1] /\ Tail(todo) = <<>>
  BY <1>6, Short DEF Alone
<1>8. e.type \notin {"session/reset", "session/destroyed"}
  BY DEF Accepts, Lives, Closes
<1>9. QED  BY <1>5, <1>6, <1>7, <1>8 DEF Outside

\* A store that a turn is still owed to only gets more, where it is opened or the turn is left open.
LEMMA OnlyAdds ==
  ASSUME NEW J \in Journals, Sound(J), Laden(J), NEW r, NEW todo, todo # <<>>, NEW then \in Targets,
         MeansWell(r, todo, then, J), then \in {"import", "idle"} \/ (J.turn # None /\ ~r.started),
         NEW e \in Events, e = Head(todo), Accepts(J, e)
  PROVE  AddsTo(J, Advance(J, e))
<1>1. CASE then = "import"
  <2>1. Mending(todo, J)
    BY <1>1 DEF MeansWell
  <2>2. QED  BY <2>1, MendsLaden
<1>2. CASE then = "idle"
  BY <1>2 DEF MeansWell, Laden
<1>3. CASE then \notin {"import", "idle"}
  <2>1. e.type = "message/appended"
    BY <1>3, StuckAccepts
  <2>2. QED  BY <2>1, LadenOn DEF Adding
<1>4. QED  BY <1>1, <1>2, <1>3

\* The conversation store stays as it was, and what it is owed is still owed.
LEMMA StoreOwed ==
  ASSUME TypeOK, SoundInv, mem' = mem, disk' \in Journals,
         (Opening(run) \/ Stuck) /\ Laden(disk) => (Opening(run') \/ Stuck') /\ AddsTo(disk, disk')
  PROVE  MemSound'
<1> SUFFICES ASSUME NEW t \in Threads, ~Replied(MessagesOf(mem[t]))
             PROVE  /\ t = disk'.thread /\ (Opening(run') \/ Stuck')
                    /\ Laden(disk') /\ WholeFrom(MessagesOf(mem[t]), <<>>, Len(disk'.hist))
  BY DEF MemSound
<1>1. /\ t = disk.thread /\ (Opening(run) \/ Stuck)
      /\ Laden(disk) /\ WholeFrom(MessagesOf(mem[t]), <<>>, Len(disk.hist))
  BY DEF SoundInv, MemSound
<1>2. AddsTo(disk, disk') /\ (Opening(run') \/ Stuck')
  BY <1>1
<1>3. disk'.thread = disk.thread /\ Laden(disk') /\ Len(disk.hist) <= Len(disk'.hist)
  BY <1>2 DEF AddsTo
<1>4. MessagesOf(mem[t]) \in Histories /\ Len(disk.hist) \in Nat /\ Len(disk'.hist) \in Nat
  <2>1. disk.hist \in Histories /\ disk'.hist \in Histories
    BY JournalHistories DEF TypeOK
  <2>2. mem[t] \in Histories \cup {None}
    BY DEF TypeOK
  <2>3. QED  BY <2>1, <2>2 DEF MessagesOf, Histories
<1>5. WholeFrom(MessagesOf(mem[t]), <<>>, Len(disk'.hist))
  BY <1>1, <1>3, <1>4, NothingAsked
<1>6. QED  BY <1>1, <1>2, <1>3, <1>5

\* Where an operation is that appends events.
LEMMA ScriptHere ==
  ASSUME TypeOK, SoundInv, run.at = "script"
  PROVE  /\ run \in Runs /\ kernel \in Journals /\ disk \in Journals /\ Sound(kernel) /\ Sound(disk)
         /\ run.todo \in Seq(Events) /\ run.todo # <<>> /\ Head(run.todo) \in Events
         /\ MeansWell(run, run.todo, run.then, kernel) /\ Lands(run.then, run.onFail)
         /\ run.then \in Targets /\ run.then # "script" /\ run.then \notin {"down"}
         /\ run.onFail \in Failures /\ run.onFail \notin {"script", "down", "import", "opened"}
         /\ (Opening(run) <=> run.onFail = "unopened") /\ (run.onFail = "unopened" <=> run.then \in {"import", "idle"})
<1>1. /\ run \in Runs /\ kernel \in Journals /\ disk \in Journals /\ Sound(kernel) /\ Sound(disk)
      /\ run.todo # <<>> /\ MeansWell(run, run.todo, run.then, kernel) /\ Lands(run.then, run.onFail)
  BY DEF TypeOK, SoundInv, PlaceSound
<1>2. run.todo \in Seq(Events) /\ run.onFail \in Failures
  BY <1>1, RunFields
<1>3. Head(run.todo) \in Events
  BY <1>1, <1>2, HeadTailProperties
<1>4. run.then \in Targets
  BY <1>1 DEF Lands, Targets, InTurn
<1>5. run.onFail = "unopened" <=> run.then \in {"import", "idle"}
  BY <1>1 DEF Lands, InTurn
<1>6. Opening(run) <=> run.onFail = "unopened"
  BY DEF Opening
<1>7. run.then \notin {"script", "down"} /\ run.onFail \notin {"script", "down", "import", "opened"}
  BY <1>2, <1>4 DEF Targets, Failures
<1>8. QED  BY <1>1, <1>2, <1>3, <1>4, <1>5, <1>6, <1>7

\* An event of a script is appended.
LEMMA AppendedWell ==
  ASSUME TypeOK, SoundInv, run.at = "script", UNCHANGED mem, Appended(Head(run.todo)),
         run' = Script(Rest(run), Tail(run.todo), run.then, run.onFail)
  PROVE  SoundInv'
<1> DEFINE e == Head(run.todo)
           K == Advance(disk, e)
           s == run'
           todo == Tail(run.todo)
<1>1. /\ run \in Runs /\ disk \in Journals /\ Sound(disk) /\ run.todo # <<>> /\ e \in Events
      /\ run.then \in Targets /\ run.then # "script" /\ run.then # "down"
      /\ (Opening(run) <=> run.onFail = "unopened") /\ (run.onFail = "unopened" <=> run.then \in {"import", "idle"})
  BY ScriptHere
<1>2. kernel = disk /\ Accepts(disk, e) /\ disk' = K /\ kernel' = K
  BY DEF Appended
<1>3. MeansWell(run, run.todo, run.then, disk) /\ Lands(run.then, run.onFail)
  BY <1>2, ScriptHere
<1>a. e = Head(run.todo) /\ K = Advance(disk, e) /\ todo = Tail(run.todo)
  OBVIOUS
<1> HIDE DEF e, K, s, todo
<1>4. GoesWell(run, run.todo, run.then, disk, e)
  BY <1>1, <1>3, <1>a, Admits
<1>5. /\ EventSound(disk, e)
      /\ IF todo = <<>> THEN StandsWell(run, run.then, K) ELSE MeansWell(run, todo, run.then, K)
  BY <1>2, <1>4, <1>a DEF GoesWell
<1>6. Sound(K) /\ K \in Journals
  BY <1>1, <1>2, <1>5, <1>a, StaysSound, Folds
<1>7. Rest(run) \in Runs /\ Twins(Rest(run), run)
  <2>1. "idle" \in Nexts /\ "idle" \in Failures /\ <<>> \in Seq(Events)
    BY Onward
  <2>2. QED  BY Zenon, <1>1, <2>1 DEF Rest, Runs, Twins
<1>8. SetsWell(Rest(run), todo, run.then, run.onFail, K)
  BY Zenon, <1>3, <1>5, <1>7, TwinsFit DEF SetsWell
<1>9. /\ Twins(s, Rest(run)) /\ PlaceSound(s, K)
      /\ IF todo = <<>> THEN s.at = run.then ELSE s.at = "script" /\ s.onFail = run.onFail
  <2>1. s = Script(Rest(run), todo, run.then, run.onFail)
    BY DEF s, todo
  <2>2. QED  BY <1>1, <1>7, <1>8, <2>1, ScriptedWell
<1>10. s.started = run.started
  BY <1>7, <1>9 DEF Twins
<1>11. ASSUME Opening(run) \/ Stuck, Laden(disk)
       PROVE  (Opening(run') \/ Stuck') /\ AddsTo(disk, disk')
  <2>1. run.then \in {"import", "idle"} \/ (disk.turn # None /\ ~run.started)
    BY <1>1, <1>2, <1>11 DEF Stuck
  <2>2. AddsTo(disk, K)
    BY <1>1, <1>2, <1>3, <1>11, <1>a, <2>1, OnlyAdds
  <2>3. CASE run.then = "import"
    BY <1>1, <1>2, <1>9, <2>2, <2>3 DEF Opening, s
  <2>4. CASE run.then = "idle"
    BY <1>3, <1>11, <2>4 DEF MeansWell, Laden
  <2>5. CASE run.then \notin {"import", "idle"}
    <3>1. run.then = "ended" /\ e.type = "message/appended" /\ todo = <<>>
      BY <1>1, <1>2, <1>3, <1>a, <2>1, <2>5, StuckAccepts
    <3>2. K.turn # None
      <4>1. e.type \notin {"turn/started", "turn/ended"}
        BY <3>1
      <4>2. IF disk.turn = None THEN K.turn = None ELSE TurnGoesOn(disk, e, K)
        BY <1>1, <1>2, <1>a, <4>1, TurnKeepsOn
      <4>3. QED  BY <2>1, <2>5, <4>2 DEF TurnGoesOn
    <3>3. s.at = "ended" /\ ~s.started
      BY <1>9, <1>10, <2>1, <2>5, <3>1
    <3>4. Stuck'
      BY <1>2, <3>2, <3>3 DEF Stuck, s
    <3>5. QED  BY <1>2, <2>2, <3>4
  <2>6. QED  BY <2>3, <2>4, <2>5
<1>12. MemSound'
  BY <1>2, <1>6, <1>11, StoreOwed
<1>13. Abreast'
  <2>1. K.hist \in Histories
    BY <1>6, JournalHistories
  <2>2. Len(K.hist) <= Len(K.hist)
    BY <2>1 DEF Histories
  <2>3. QED  BY <1>2, <1>6, <2>2 DEF Abreast, Sound
<1>14. PlaceSound(run', kernel')
  BY <1>2, <1>9 DEF s
<1>15. QED  BY <1>2, <1>6, <1>12, <1>13, <1>14 DEF SoundInv

\* An event of a script cannot be appended, or so it seems.
LEMMA AppendFailsWell ==
  ASSUME TypeOK, SoundInv, run.at = "script", UNCHANGED mem, AppendFails(Head(run.todo)),
         run' = [Rest(run) EXCEPT !.at = run.onFail]
  PROVE  SoundInv'
<1> DEFINE e == Head(run.todo)
           K == Advance(disk, e)
           s == run'
<1>1. /\ run \in Runs /\ disk \in Journals /\ kernel \in Journals /\ Sound(disk) /\ Sound(kernel)
      /\ run.todo # <<>> /\ e \in Events /\ run.then \in Targets
      /\ run.onFail \in Failures /\ run.onFail \notin {"script", "down", "import", "opened"}
      /\ (Opening(run) <=> run.onFail = "unopened") /\ (run.onFail = "unopened" <=> run.then \in {"import", "idle"})
      /\ MeansWell(run, run.todo, run.then, kernel) /\ Lands(run.then, run.onFail)
  BY ScriptHere
<1>2. s.at = run.onFail /\ Twins(s, run)
  BY Zenon, <1>1 DEF Rest, Runs, Twins
<1>3. PlaceSound(s, kernel)
  <2>1. StandsWell(run, run.onFail, kernel)
    BY <1>1, LandsWell
  <2>2. QED  BY <1>1, <1>2, <2>1, TwinsFit DEF PlaceSound
<1>4. kernel' = kernel /\ (disk' = disk \/ (kernel = disk /\ Accepts(disk, e) /\ disk' = K))
  BY DEF AppendFails
<1>a. e = Head(run.todo) /\ K = Advance(disk, e)
  OBVIOUS
<1> HIDE DEF e, K
<1>5. (Opening(run) => Opening(run')) /\ (Stuck => Stuck')
  <2>1. s.started = run.started
    BY <1>2 DEF Twins
  <2>2. QED  BY <1>1, <1>2, <1>4, <2>1 DEF Opening, Stuck
<1> HIDE DEF s
<1>6. CASE disk' = disk
  <2>1. MemSound'
    BY <1>5, <1>6, StoreStays
  <2>2. UNCHANGED <<disk, kernel>> /\ run'.at \notin {"down", "import"} /\ PlaceSound(run', kernel)
    BY <1>1, <1>2, <1>3, <1>4, <1>6 DEF s
  <2>3. QED  BY <2>1, <2>2, StepsOut
<1>7. CASE kernel = disk /\ Accepts(disk, e) /\ disk' = K
  <2>1. GoesWell(run, run.todo, run.then, disk, e)
    BY <1>1, <1>7, <1>a, Admits
  <2>2. EventSound(disk, e)
    BY <1>7, <2>1 DEF GoesWell
  <2>3. Sound(K) /\ K \in Journals
    BY <1>1, <1>7, <1>a, <2>2, StaysSound, Folds
  <2>4. Abreast'
    <3> SUFFICES ASSUME kernel.tools # <<>>
                 PROVE  disk'.thread = kernel.thread /\ Laden(disk') /\ Len(kernel.hist) <= Len(disk'.hist)
      BY <1>4 DEF Abreast
    <3>1. AddsTo(disk, K)
      BY <1>1, <1>7, <1>a, ToolsOpen
    <3>2. QED  BY <1>7, <3>1 DEF AddsTo
  <2>5. ASSUME Opening(run) \/ Stuck, Laden(disk) PROVE AddsTo(disk, disk')
    <3>1. run.then \in {"import", "idle"} \/ (disk.turn # None /\ ~run.started)
      BY <1>1, <1>7, <2>5 DEF Stuck
    <3>2. QED  BY <1>1, <1>7, <1>a, <2>5, <3>1, OnlyAdds
  <2>6. MemSound'
    BY <1>5, <1>7, <2>3, <2>5, StoreOwed
  <2>7. PlaceSound(run', kernel') /\ run'.at # "import"
    BY <1>1, <1>2, <1>3, <1>4 DEF s
  <2>8. QED  BY <1>1, <1>4, <1>7, <2>3, <2>4, <2>6, <2>7 DEF SoundInv
<1>8. QED  BY <1>4, <1>6, <1>7

\* The events of an operation are appended one at a time; any append may fail.
LEMMA ScriptWell ==
  ASSUME TypeOK, SoundInv, ScriptStep
  PROVE  SoundInv'
BY AppendedWell, AppendFailsWell DEF ScriptStep

-----------------------------------------------------------------------------
(* The steps of a turn, in the order of the module.                          *)

\* A thread of the store is left alone, takes the history of the process, or a whole one.
Put(m, t) ==
  \/ Replied(MessagesOf(m)) \/ MessagesOf(m) = MessagesOf(mem[t])
  \/ t = kernel.thread /\ MessagesOf(m) = kernel.hist

\* What a conversation store gets from a step that appends nothing.
LEMMA StorePuts ==
  ASSUME TypeOK, SoundInv, run.at \notin Entrances, UNCHANGED <<disk, kernel>>,
         Stuck \/ kernel.tools # <<>> => Stuck', \A t \in Threads : Put(mem'[t], t)
  PROVE  MemSound'
<1> SUFFICES ASSUME NEW t \in Threads, ~Replied(MessagesOf(mem'[t]))
             PROVE  /\ t = disk.thread /\ Stuck'
                    /\ Laden(disk) /\ WholeFrom(MessagesOf(mem'[t]), <<>>, Len(disk.hist))
  BY DEF MemSound
<1>1. kernel \in Journals /\ disk \in Journals /\ Sound(kernel) /\ Abreast /\ ~Opening(run)
  BY HereWell
<1>2. CASE MessagesOf(mem'[t]) = MessagesOf(mem[t])
  BY <1>1, <1>2 DEF SoundInv, MemSound
<1>3. CASE t = kernel.thread /\ MessagesOf(mem'[t]) = kernel.hist
  <2>1. kernel.tools # <<>>
    BY <1>1, <1>3, SoundParts
  <2>2. disk.thread = t /\ Laden(disk) /\ Len(kernel.hist) <= Len(disk.hist) /\ Stuck'
    BY <1>1, <1>3, <2>1 DEF Abreast
  <2>3. kernel.hist \in Histories /\ Len(disk.hist) \in Nat
    BY <1>1, JournalHistories DEF Histories
  <2>4. QED  BY <1>3, <2>2, <2>3, NothingAsked
<1>4. QED  BY <1>2, <1>3 DEF Put

\* What projecting the history puts into the store, and what clearing a thread does.
LEMMA Puts ==
  /\ \A k : Put(Projection(mem[kernel.thread], k, kernel.hist), kernel.thread)
  /\ \A t, k : Put(Projection(mem[t], k, <<>>), t) /\ Put(mem[t], t) /\ Put(None, t)
  /\ \A m, t : Put(m, t) => Put(MessagesOf(m), t)
<1>1. Replied(<<>>)
  BY NothingAsked DEF Replied, Whole
<1>2. ASSUME NEW m, NEW k, NEW h PROVE Projection(m, k, h) \in {m, h}
  BY DEF Projection
<1>3. ASSUME NEW h PROVE MessagesOf(h) \in {<<>>, h} /\ MessagesOf(MessagesOf(h)) = MessagesOf(h)
  BY DEF MessagesOf
<1>4. \A k : Put(Projection(mem[kernel.thread], k, kernel.hist), kernel.thread)
  BY <1>1, <1>2, <1>3 DEF Put
<1>5. \A t, k : Put(Projection(mem[t], k, <<>>), t) /\ Put(mem[t], t) /\ Put(None, t)
  <2>1. MessagesOf(<<>>) = <<>> /\ MessagesOf(None) = <<>>
    BY <1>3 DEF MessagesOf
  <2>2. QED  BY <1>1, <1>2, <2>1 DEF Put
<1>6. \A m, t : Put(m, t) => Put(MessagesOf(m), t)
  BY <1>3 DEF Put
<1>7. QED  BY <1>4, <1>5, <1>6

\* The operation goes on, and the store may have got something.
LEMMA SetsWellOver ==
  ASSUME TypeOK, SoundInv, run.at \notin Entrances \cup {"opened"}, UNCHANGED <<disk, kernel>>,
         \A t \in Threads : Put(mem'[t], t), ~run.started,
         NEW events, NEW then, NEW onFail, then \notin Entrances \cup {"opened"},
         run' = Script(run, events, then, onFail), SetsWell(run, events, then, onFail, kernel)
  PROVE  SoundInv'
<1> DEFINE s == run'
<1>1. run \in Runs /\ s = Script(run, events, then, onFail) /\ then # "script"
  BY HereWell DEF Entrances
<1> HIDE DEF s
<1>2. /\ Twins(s, run) /\ PlaceSound(s, kernel)
      /\ IF events = <<>> THEN s.at = then ELSE s.at = "script" /\ s.onFail = onFail /\ s.then = then
  BY <1>1, ScriptedWell
<1>3. ~s.started /\ s.at \notin {"down", "import", "opened"}
  BY <1>2 DEF Twins, Entrances
<1>4. kernel.tools # <<>> => kernel.turn # None
  BY HereWell, SoundParts
<1>5. Stuck \/ kernel.tools # <<>> => Stuck'
  BY <1>3, <1>4 DEF Stuck, s
<1>6. MemSound'
  BY <1>5, StorePuts
<1>7. QED  BY <1>2, <1>3, <1>6, StepsOut DEF Entrances, s

\* A single event.
LEMMA SetsOneWell ==
  ASSUME NEW r, NEW e, NEW then, NEW onFail, NEW J, MeansWell(r, <<e>>, then, J), Lands(then, onFail)
  PROVE  SetsWell(r, <<e>>, then, onFail, J) /\ <<e>> # <<>>
<1>1. <<e>> # <<>>
  OBVIOUS
<1>2. QED  BY <1>1 DEF SetsWell

\* A thread is switched to.
LEMMA SwitchThreadWell ==
  ASSUME TypeOK, SoundInv, SwitchThread
  PROVE  SoundInv'
<1>1. run.at = "switch" /\ UNCHANGED <<disk, kernel>> /\ run.to \in Threads /\ run.at \notin Entrances \cup {"opened"}
  BY DEF TypeOK, SwitchThread, Addressed, Entrances
<1>2. kernel \in Journals /\ ~run.started /\ ~run.recovering /\ run.checkpoint = None /\ ~Opening(run)
  BY <1>1, HereWell DEF StandsWell, Aside
<1>3. CASE Goto("budget") /\ UNCHANGED <<mem, known>>
  <2>1. StandsWell(run, "budget", kernel)
    BY <1>2 DEF StandsWell, Aside
  <2>2. QED  BY <1>1, <1>3, <2>1, GoesWellOut DEF Entrances
<1>4. CASE Goto("ended") /\ UNCHANGED <<mem, known>>
  BY <1>1, <1>4, Quits, GoesWellOut DEF Entrances
<1> DEFINE kept == IF kernel.hist = <<>> THEN mem
                   ELSE [mem EXCEPT ![kernel.thread] = Projection(@, known[kernel.thread], kernel.hist)]
           e == Switched(run.to, MessagesOf(mem[run.to]))
<1>5. CASE mem' = [kept EXCEPT ![run.to] = MessagesOf(@)] /\ Do(<<e>>, "budget", "ended")
  <2>1. mem \in [Threads -> Histories \cup {None}] /\ kernel.thread \in Threads
    BY <1>2, JournalFields DEF TypeOK
  <2>2. kept \in [Threads -> {kept[t] : t \in Threads}] /\ \A t \in Threads : Put(kept[t], t)
    BY <2>1, Puts
  <2> HIDE DEF kept
  <2>3. \A t \in Threads : mem'[t] = IF t = run.to THEN MessagesOf(kept[t]) ELSE kept[t]
    BY <1>1, <1>5, <2>2
  <2>4. \A t \in Threads : Put(mem'[t], t)
    BY <2>2, <2>3, Puts
  <2>5. e.type = "history/replaced" /\ e.clear /\ ~e.recovered /\ e.history = MessagesOf(mem[run.to])
    BY DEF Switched, Replaced
  <2> HIDE DEF e
  <2>6. kernel.turn = None => Replied(e.history)
    BY <1>1, <1>2, <2>5, MemWell DEF Stuck
  <2>7. MeansWell(run, <<e>>, "budget", kernel)
    BY <1>2, <2>5, <2>6, Short DEF MeansWell, Makes
  <2>8. SetsWell(run, <<e>>, "budget", "ended", kernel)
    BY <2>7, SetsOneWell DEF Lands
  <2>9. QED  BY <1>1, <1>2, <1>5, <2>4, <2>8, SetsWellOver DEF Do, Entrances
<1>6. QED  BY <1>3, <1>4, <1>5 DEF SwitchThread

\* The budget keeps a whole part of a whole history.
LEMMA PartIsWhole ==
  ASSUME NEW h \in Histories, Replied(h)
  PROVE  Replied(Retained(h))
<1> DEFINE fits == {i \in TurnStarts(h) : Len(h) - i + 2 <= MaxMessages}
           i == CHOOSE k \in fits : \A j \in fits : k <= j
<1>1. Len(h) \in Nat /\ DOMAIN h = 1..Len(h)
  BY DEF Histories
<1>2. CASE fits = {}
  <2>1. Retained(h) = <<>>
    BY <1>2 DEF Retained
  <2>2. QED  BY <2>1, NothingAsked DEF Replied, Whole
<1>3. CASE fits # {}
  <2>1. fits \in SUBSET Nat
    BY <1>1 DEF TurnStarts
  <2>2. i \in fits
    <3> HIDE DEF fits
    <3> QED  BY <1>3, <2>1, Least
  <2>3. i \in DOMAIN h
    BY <2>2 DEF TurnStarts
  <2>4. Retained(h) = SubSeq(h, i, Len(h))
    BY <1>3 DEF Retained
  <2> HIDE DEF i, fits
  <2>5. QED  BY <2>3, <2>4, EndIsWhole
<1>4. QED  BY <1>2, <1>3

\* The history is shortened to its budget.
LEMMA ApplyBudgetWell ==
  ASSUME TypeOK, SoundInv, ApplyBudget
  PROVE  SoundInv'
<1>1. run.at = "budget" /\ UNCHANGED <<disk, kernel, mem>> /\ run.at \notin Entrances
  BY DEF ApplyBudget, Others, Entrances
<1>2. /\ run \in Runs /\ kernel \in Journals /\ Sound(kernel)
      /\ ~run.started /\ ~run.recovering /\ run.checkpoint = None
  BY <1>1, HereWell DEF StandsWell, Aside
<1>3. CASE Goto("open")
  <2>1. StandsWell(run, "open", kernel)
    BY <1>2 DEF StandsWell, Aside
  <2>2. QED  BY <1>1, <1>3, <2>1, GoesWellOut DEF Entrances
<1>4. CASE Do(<<Compacted(Retained(kernel.hist))>>, "open", "ended")
  <2> DEFINE e == Compacted(Retained(kernel.hist))
  <2>1. e.type = "history/replaced" /\ e.clear /\ ~e.recovered /\ e.history = Retained(kernel.hist)
    BY DEF Compacted, Replaced
  <2> HIDE DEF e
  <2>2. kernel.turn = None => Replied(e.history)
    <3>1. kernel.turn = None => Replied(kernel.hist) /\ kernel.hist \in Histories
      BY <1>2, SoundParts
    <3>2. QED  BY <2>1, <3>1, PartIsWhole
  <2>3. MeansWell(run, <<e>>, "open", kernel)
    BY <1>2, <2>1, <2>2, Short DEF MeansWell, Makes
  <2>4. SetsWell(run, <<e>>, "open", "ended", kernel)
    BY <2>3, SetsOneWell DEF Lands
  <2>5. run' = Script(run, <<e>>, "open", "ended")
    BY <1>4 DEF Do, e
  <2>6. QED  BY <1>1, <1>2, <2>4, <2>5, SetsWellOut DEF Entrances
<1>5. QED  BY <1>3, <1>4 DEF ApplyBudget

\* A turn is begun.
LEMMA OpenTheTurnWell ==
  ASSUME TypeOK, SoundInv, OpenTheTurn
  PROVE  SoundInv'
<1> DEFINE r == [run EXCEPT !.before = kernel.hist, !.adapterBefore = kernel.adapter]
<1>1. run.at = "open" /\ UNCHANGED <<disk, kernel, mem>> /\ run.at \notin Entrances
  BY DEF OpenTheTurn, Others, Entrances
<1>2. /\ run \in Runs /\ kernel \in Journals
      /\ ~run.started /\ ~run.recovering /\ run.checkpoint = None
  BY <1>1, HereWell DEF StandsWell, Aside
<1>3. kernel.hist \in Histories /\ kernel.adapter \in Histories
  BY <1>2, JournalHistories
<1>4. /\ r \in Runs /\ r.before = kernel.hist
      /\ r.started = run.started /\ r.recovering = run.recovering /\ r.checkpoint = run.checkpoint
  BY Zenon, <1>2, <1>3 DEF Runs
<1>5. run' = Script(r, <<TurnStarted>>, "opened", "catch")
  BY DEF OpenTheTurn
<1> HIDE DEF r
<1>6. MeansWell(r, <<TurnStarted>>, "opened", kernel)
  BY <1>2, <1>4 DEF MeansWell
<1>7. SetsWell(r, <<TurnStarted>>, "opened", "catch", kernel) /\ <<TurnStarted>> # <<>>
  BY <1>6, SetsOneWell DEF Lands, InTurn
<1>8. QED  BY <1>1, <1>2, <1>4, <1>5, <1>7, SetsWellOut DEF Entrances

\* The user's message is the first of the turn.
LEMMA TheUserSaysWell ==
  ASSUME TypeOK, SoundInv, TheUserSays
  PROVE  SoundInv'
<1> DEFINE r == [run EXCEPT !.started = TRUE]
           e == Message(User(left.ops + 1))
<1>1. run.at = "opened" /\ UNCHANGED <<disk, kernel, mem>> /\ run.at \notin Entrances
  BY DEF TheUserSays, Others, Entrances
<1>2. /\ run \in Runs /\ run.checkpoint = None /\ Replied(run.before) /\ Rested(kernel)
  BY <1>1, HereWell DEF StandsWell, Aside
<1>3. r \in Runs /\ r.started /\ r.before = run.before /\ r.checkpoint = None
  BY Zenon, <1>2 DEF Runs
<1>4. run' = Script(r, <<e>>, "round", "catch")
  BY DEF TheUserSays
<1>5. e.type = "message/appended" /\ e.message.role = "user"
  BY DEF Message, User
<1> HIDE DEF r, e
<1>6. MeansWell(r, <<e>>, "round", kernel)
  <2>1. Going(r, kernel)
    BY <1>2, <1>3 DEF Going, Rested
  <2>2. Outside(e) /\ Alone(<<e>>) /\ <<e>>[1] = e
    BY <1>5, Short DEF Outside
  <2>3. QED  BY <1>2, <1>5, <2>1, <2>2 DEF MeansWell
<1>7. SetsWell(r, <<e>>, "round", "catch", kernel) /\ <<e>> # <<>>
  BY <1>6, SetsOneWell DEF Lands, InTurn
<1>8. QED  BY <1>1, <1>3, <1>4, <1>7, SetsWellOut DEF Entrances

\* A turn between its steps can be caught or closed, and so can one whose calls are answered.
LEMMA Interrupted ==
  ASSUME TypeOK, SoundInv, run.at \notin Entrances, UNCHANGED <<disk, kernel, mem>>,
         Going(run, kernel), kernel.tools = <<>>, Aborted \/ Closed \/ Goto("catch")
  PROVE  SoundInv'
<1>1. StandsWell(run, "catch", kernel) /\ StandsWell(run, "close", kernel)
  BY DEF StandsWell, Stops, Going, Aside
<1>2. QED  BY <1>1, GoesWellOut DEF Aborted, Closed, Entrances

\* A step is opened.
LEMMA NextRoundWell ==
  ASSUME TypeOK, SoundInv, NextRound
  PROVE  SoundInv'
<1>1. run.at = "round" /\ UNCHANGED <<disk, kernel, mem>> /\ run.at \notin Entrances
  BY DEF NextRound, Others, Entrances
<1>2. run \in Runs /\ Going(run, kernel) /\ Rested(kernel) /\ kernel.tools = <<>>
  BY <1>1, HereWell, SoundParts DEF StandsWell, Rested
<1>3. CASE Aborted
  BY <1>1, <1>2, <1>3, Interrupted
<1>4. CASE Goto("after")
  <2>1. StandsWell(run, "after", kernel)
    BY <1>2 DEF StandsWell, Rested, Aside
  <2>2. QED  BY <1>1, <1>4, <2>1, GoesWellOut DEF Entrances
<1>5. CASE run' = Script([run EXCEPT !.rounds = @ + 1], <<StepStarted>>, "request", "catch")
  <2> DEFINE r == [run EXCEPT !.rounds = @ + 1]
  <2>0. run.rounds + 1 \in Int
    BY <1>2, RunFields
  <2>1. r \in Runs /\ Twins(r, run)
    BY Zenon, <1>2, <2>0 DEF Runs, Twins
  <2>2. run' = Script(r, <<StepStarted>>, "request", "catch")
    BY <1>5
  <2> HIDE DEF r
  <2>3. MeansWell(run, <<StepStarted>>, "request", kernel)
    BY <1>2 DEF MeansWell
  <2>4. MeansWell(r, <<StepStarted>>, "request", kernel) /\ r.started = run.started
    BY <2>1, <2>3, TwinsFit DEF Twins
  <2>5. SetsWell(r, <<StepStarted>>, "request", "catch", kernel) /\ <<StepStarted>> # <<>>
    BY <2>4, SetsOneWell DEF Lands, InTurn
  <2>6. QED  BY <1>1, <2>1, <2>2, <2>4, <2>5, SetsWellOut DEF Entrances
<1>6. QED  BY <1>3, <1>4, <1>5 DEF NextRound

\* The history is prepared for the model.
LEMMA PrepareRequestWell ==
  ASSUME TypeOK, SoundInv, PrepareRequest
  PROVE  SoundInv'
<1>1. run.at = "request" /\ UNCHANGED <<disk, kernel, mem>> /\ run.at \notin Entrances
  BY DEF PrepareRequest, Others, Entrances
<1>2. run \in Runs /\ Going(run, kernel) /\ Stepping(kernel, "nothing") /\ ~kernel.step.asked
  BY <1>1, HereWell DEF StandsWell
<1>3. CASE Goto("catch")
  BY <1>1, <1>2, <1>3, Interrupted DEF Stepping
<1>4. CASE Do(<<Request(kernel.hist)>>, "model", "catch")
  <2>1. MeansWell(run, <<Request(kernel.hist)>>, "model", kernel)
    BY <1>2 DEF MeansWell
  <2>2. SetsWell(run, <<Request(kernel.hist)>>, "model", "catch", kernel) /\ <<Request(kernel.hist)>> # <<>>
    BY <2>1, SetsOneWell DEF Lands, InTurn
  <2>3. QED  BY <1>1, <1>2, <1>4, <2>2, SetsWellOut DEF Do, Entrances
<1>5. QED  BY <1>3, <1>4 DEF PrepareRequest

\* The model has answered.
LEMMA RespondWell ==
  ASSUME TypeOK, SoundInv, run.at = "model", UNCHANGED <<disk, kernel, mem>>,
         NEW m \in Messages \cup {None}, Respond(m), NEW b \in Seq(Calls), IsInjective(b),
         (m = None /\ b = <<>>) \/ m = Asks(b)
  PROVE  SoundInv'
<1>1. run.at \notin Entrances
  BY DEF Entrances
<1>2. run \in Runs /\ Going(run, kernel) /\ Stepping(kernel, "request")
  BY <1>1, HereWell DEF StandsWell
<1> DEFINE r == [run EXCEPT !.batch = IF m = None THEN <<>> ELSE m.calls, !.answered = (m = Answer)]
<1>3. PICK state \in {kernel.adapter, kernel.hist \o (IF m = None THEN <<>> ELSE <<m>>)} :
        run' = Script(r, <<Response(m)>> \o (IF state = kernel.adapter THEN <<>> ELSE <<Adapter(state)>>),
                      "response", "catch")
  BY Zenon DEF Respond
<1> DEFINE update == IF state = kernel.adapter THEN <<>> ELSE <<Adapter(state)>>
           events == <<Response(m)>> \o update
<1>4. (IF m = None THEN <<>> ELSE m.calls) = b
  <2>1. CASE m = None
    <3>1. m \notin Messages
      BY <2>1, NoneAssumption
    <3>2. Asks(b) \in Messages
      BY DEF Asks, Messages
    <3>3. m # Asks(b)
      BY <3>1, <3>2
    <3>4. QED  BY <2>1, <3>3
  <2>2. CASE m # None
    <3>1. m = Asks(b)
      BY <2>2
    <3>2. QED  BY <2>2, <3>1 DEF Asks
  <2>3. QED  BY <2>1, <2>2
<1>5. /\ r \in Runs /\ r.batch = b /\ (r.answered <=> m = Answer)
      /\ r.started = run.started /\ r.before = run.before /\ r.checkpoint = run.checkpoint
  <2>1. (m = Answer) \in BOOLEAN
    OBVIOUS
  <2>2. QED  BY Zenon, <1>2, <1>4, <2>1 DEF Runs
<1>6. run' = Script(r, events, "response", "catch")
  BY <1>3
<1> HIDE DEF r
<1>7. Going(r, kernel)
  BY <1>2, <1>5 DEF Going
<1>8. Reads(r, m)
  <2>1. CASE m = None
    <3>1. Answer \in Messages
      BY DEF Answer, Asks, Messages
    <3>2. m # Answer /\ b = <<>>
      <4>1. Asks(b) \in Messages
        BY DEF Asks, Messages
      <4>2. QED  BY <2>1, <3>1, <4>1, NoneAssumption
    <3>3. QED  BY <1>5, <2>1, <3>2 DEF Reads
  <2>2. CASE m = Asks(b)
    <3>1. m = Answer <=> b = <<>>
      <4>1. m.calls = b /\ Answer.calls = <<>>
        BY <2>2 DEF Asks, Answer
      <4>2. QED  BY <2>2, <4>1 DEF Answer
    <3>2. QED  BY <1>5, <2>2, <3>1 DEF Reads
  <2>3. QED  BY <2>1, <2>2
<1>9. MeansWell(r, events, "response", kernel) /\ events # <<>>
  <2>1. Response(m).type = "model/response-received" /\ Response(m).message = m
    BY DEF Response
  <2>2. CASE state = kernel.adapter
    <3>1. events = <<Response(m)>>
      BY <2>2
    <3> HIDE DEF events, update
    <3>2. events[1] = Response(m) /\ Alone(events) /\ events # <<>>
      BY <3>1, Short
    <3>3. QED  BY <1>2, <1>7, <1>8, <2>1, <3>2 DEF MeansWell
  <2>3. CASE state # kernel.adapter
    <3>a. ASSUME NEW x, NEW y
          PROVE  <<x>> \o <<y>> = <<x, y>> /\ <<x, y>>[1] = x /\ <<x, y>>[2] = y
      <4>1. <<x>> \in Seq({x, y}) /\ y \in {x, y} /\ <<x, y>>[1] = x /\ <<x, y>>[2] = y
        OBVIOUS
      <4>2. <<x>> \o <<y>> = Append(<<x>>, y)
        BY <4>1, AppendIsConcat
      <4>3. QED  BY Zenon, <4>1, <4>2, Paired
    <3>1. events = <<Response(m)>> \o <<Adapter(state)>>
      BY <2>3
    <3> HIDE DEF events, update
    <3>2. events = <<Response(m), Adapter(state)>>
      BY <3>1, <3>a
    <3>3. events[1] = Response(m) /\ events[2] = Adapter(state)
      BY <3>2, <3>a
    <3>4. events[2].state = state
      BY <3>3 DEF Adapter
    <3>5. events = <<events[1], Adapter(events[2].state)>> /\ events # <<>>
      BY <3>2, <3>3, <3>4
    <3>6. QED  BY <1>2, <1>7, <1>8, <2>1, <3>3, <3>5 DEF MeansWell
  <2>4. QED  BY <2>2, <2>3
<1>10. SetsWell(r, events, "response", "catch", kernel)
  BY <1>9 DEF SetsWell, Lands, InTurn
<1> HIDE DEF events, update
<1>11. QED  BY <1>1, <1>5, <1>6, <1>9, <1>10, SetsWellOut DEF Entrances

\* The model answers, throws or is aborted.
LEMMA ModelAnswersWell ==
  ASSUME TypeOK, SoundInv, ModelAnswers
  PROVE  SoundInv'
<1>1. run.at = "model" /\ UNCHANGED <<disk, kernel, mem>> /\ run.at \notin Entrances
  BY DEF ModelAnswers, Entrances
<1>2. Going(run, kernel) /\ Stepping(kernel, "request")
  BY <1>1, HereWell DEF StandsWell
<1>3. CASE Goto("catch")
  BY <1>1, <1>2, <1>3, Interrupted DEF Stepping
<1>4. CASE \E m \in {Answer, None} : Respond(m)
  <2>1. Answer \in Messages /\ Answer = Asks(<<>>) /\ <<>> \in Seq(Calls)
    BY DEF Answer, Asks, Messages
  <2>2. IsInjective(<<>>)
    BY DEF IsInjective
  <2>3. PICK m \in {Answer, None} : Respond(m)
    BY <1>4
  <2>4. QED  BY <1>1, <2>1, <2>2, <2>3, RespondWell
<1>5. CASE \E b \in Batches : Respond(Asks(b))
  <2>1. PICK b \in Batches : Respond(Asks(b))
    BY <1>5
  <2>2. left.calls \in Seq(Calls) /\ IsInjective(left.calls)
    BY DEF TypeOK, Lefts
  <2>3. PICK n \in 1..Len(left.calls) : b = SubSeq(left.calls, 1, n)
    BY <2>1 DEF Batches
  <2>4. b \in Seq(Calls) /\ IsInjective(b)
    <3> DEFINE s == left.calls
    <3>1. Len(s) \in Nat /\ n \in Nat /\ n <= Len(s) /\ \A i, j \in 1..Len(s) : s[i] = s[j] => i = j
      BY <2>2 DEF IsInjective
    <3>2. b \in Seq(Calls) /\ DOMAIN b = 1..n /\ \A i \in 1..n : b[i] = s[i] /\ i \in 1..Len(s)
      BY <2>2, <2>3, <3>1, SubSeqProperties
    <3> HIDE DEF s
    <3>3. QED  BY <3>1, <3>2 DEF IsInjective
  <2>5. Asks(b) \in Messages
    BY <2>4 DEF Asks, Messages
  <2>6. QED  BY <1>1, <2>1, <2>4, <2>5, RespondWell
<1>6. QED  BY <1>3, <1>4, <1>5 DEF ModelAnswers

\* The answer is read and said, or the round that has none is closed.
LEMMA ReadResponseWell ==
  ASSUME TypeOK, SoundInv, ReadResponse
  PROVE  SoundInv'
<1>1. run.at = "response" /\ UNCHANGED <<disk, kernel, mem>> /\ run.at \notin Entrances
  BY DEF ReadResponse, Others, Entrances
<1>2. run \in Runs /\ Going(run, kernel) /\ Stepping(kernel, "response") /\ Reads(run, kernel.step.expected)
  BY <1>1, HereWell DEF StandsWell
<1>3. CASE Aborted \/ Closed
  BY <1>1, <1>2, <1>3, Interrupted DEF Stepping
<1>4. CASE run.batch # <<>> /\ Do(<<Message(Asks(run.batch))>>, "dispatch", "catch")
  <2>1. MeansWell(run, <<Message(Asks(run.batch))>>, "dispatch", kernel)
    BY <1>2, <1>4 DEF MeansWell, Reads
  <2>2. SetsWell(run, <<Message(Asks(run.batch))>>, "dispatch", "catch", kernel) /\ <<Message(Asks(run.batch))>> # <<>>
    BY <2>1, SetsOneWell DEF Lands, InTurn
  <2>3. QED  BY <1>1, <1>2, <1>4, <2>2, SetsWellOut DEF Do, Entrances
<1>5. CASE run.answered /\ Do(<<Message(Answer)>>, "spoken", "catch")
  <2>1. MeansWell(run, <<Message(Answer)>>, "spoken", kernel)
    BY <1>2, <1>5 DEF MeansWell, Reads
  <2>2. SetsWell(run, <<Message(Answer)>>, "spoken", "catch", kernel) /\ <<Message(Answer)>> # <<>>
    BY <2>1, SetsOneWell DEF Lands, InTurn
  <2>3. QED  BY <1>1, <1>2, <1>5, <2>2, SetsWellOut DEF Do, Entrances
<1>6. CASE /\ run.batch = <<>> /\ ~run.answered
           /\ Do(<<Adapter(kernel.step.adapterBefore), StepCompleted("completed")>>, "after", "catch")
  <2> DEFINE a == Adapter(kernel.step.adapterBefore)
             s == StepCompleted("completed")
  <2>1. Mute(kernel)
    BY <1>2, <1>6 DEF Reads, Mute
  <2>2. <<a, s>> # <<>> /\ <<a, s>>[1] = a /\ a = Adapter(a.state)
    <3>1. a = Adapter(a.state)
      BY DEF Adapter
    <3> HIDE DEF a, s
    <3>2. QED  BY <3>1
  <2>3. run' = Script(run, <<a, s>>, "after", "catch")
    BY <1>6 DEF Do
  <2> DEFINE events == <<a, s>>
  <2>4. events = <<Adapter(events[1].state), StepCompleted("completed")>> /\ events # <<>>
    <3>1. events[1] = a /\ events # <<>>
      BY <2>2
    <3>2. QED  BY <2>2, <3>1
  <2> HIDE DEF a, s, events
  <2>5. MeansWell(run, events, "after", kernel)
    BY <1>2, <2>1, <2>4 DEF MeansWell
  <2>6. SetsWell(run, events, "after", "catch", kernel)
    BY <2>4, <2>5 DEF SetsWell, Lands, InTurn
  <2>7. run' = Script(run, events, "after", "catch")
    BY <2>3 DEF events
  <2>8. QED  BY <1>1, <1>2, <2>4, <2>6, <2>7, SetsWellOut DEF Entrances
<1>7. QED
  <2>1. CASE run.batch # <<>> /\ (Closed \/ Do(<<Message(Asks(run.batch))>>, "dispatch", "catch"))
    BY <1>3, <1>4, <2>1
  <2>2. QED  BY <1>3, <1>5, <1>6, <2>1 DEF ReadResponse

\* A step that is over is closed.
LEMMA StepClosedWell ==
  ASSUME TypeOK, SoundInv, run.at \notin Entrances, UNCHANGED <<disk, kernel, mem>>,
         Going(run, kernel), Worked(kernel), NEW then \in {"round", "after"},
         Do(<<StepCompleted("completed")>>, then, "catch")
  PROVE  SoundInv'
<1>1. Passes(<<StepCompleted("completed")>>)
  BY DEF Passes
<1>2. MeansWell(run, <<StepCompleted("completed")>>, then, kernel)
  BY <1>1 DEF MeansWell
<1>3. SetsWell(run, <<StepCompleted("completed")>>, then, "catch", kernel) /\ <<StepCompleted("completed")>> # <<>>
  BY Zenon, <1>2, SetsOneWell DEF Lands, InTurn
<1>4. run \in Runs /\ then \notin Entrances
  BY HereWell DEF Entrances
<1>5. QED  BY <1>3, <1>4, SetsWellOut DEF Do

\* The answer has been said.
LEMMA SpokenWell ==
  ASSUME TypeOK, SoundInv, Spoken
  PROVE  SoundInv'
<1>1. run.at = "spoken" /\ UNCHANGED <<disk, kernel, mem>> /\ run.at \notin Entrances
  BY DEF Spoken, Others, Entrances
<1>2. Going(run, kernel) /\ Worked(kernel) /\ kernel.tools = <<>>
  BY <1>1, HereWell DEF StandsWell, Worked, Stepping
<1>3. CASE Aborted \/ Closed
  BY <1>1, <1>2, <1>3, Interrupted
<1>4. CASE Do(<<StepCompleted("completed")>>, "after", "catch")
  BY <1>1, <1>2, <1>4, StepClosedWell
<1>5. QED  BY <1>3, <1>4 DEF Spoken

\* The calls of a round are dispatched.
LEMMA DispatchWell ==
  ASSUME TypeOK, SoundInv, Dispatch
  PROVE  SoundInv'
<1>1. run.at = "dispatch" /\ UNCHANGED <<disk, kernel, mem>> /\ run.at \notin Entrances
  BY DEF Dispatch, Others, Entrances
<1>2. run \in Runs /\ Serves(run, kernel)
  BY <1>1, HereWell DEF StandsWell
<1> DEFINE call == [c \in Calls |-> IF c \in Range(run.batch) THEN "asked" ELSE run.call[c]]
           s == run'
<1>3. s = [run EXCEPT !.at = "batch", !.recovering = TRUE, !.call = call]
  BY DEF Dispatch
<1>4. /\ s.at = "batch" /\ s.recovering /\ s.started = run.started /\ s.before = run.before
      /\ s.checkpoint = run.checkpoint /\ s.batch = run.batch /\ s.call = call
  BY <1>2, <1>3 DEF Runs
<1> HIDE DEF s
<1>5. Serves(s, kernel)
  BY <1>2, <1>4 DEF Serves, Going
<1>6. \A i \in DOMAIN s.batch : s.call[s.batch[i]] = "asked"
  <2>1. s.batch \in Seq(Calls)
    BY <1>2, <1>4, RunFields
  <2>2. ASSUME NEW i \in DOMAIN s.batch PROVE s.batch[i] \in Calls /\ s.batch[i] \in Range(run.batch)
    <3>1. s.batch[i] \in Range(run.batch)
      BY <1>4 DEF Range
    <3>2. QED  BY <2>1, <3>1
  <2>3. QED  BY <1>4, <2>2
<1> HIDE DEF call
<1>7. StandsWell(s, "batch", kernel)
  BY <1>4, <1>5, <1>6 DEF StandsWell, Aside
<1>8. QED  BY <1>1, <1>4, <1>7, StandsOutWell DEF s, Entrances

\* What is told of the calls of a round are the receipts that it owes.
LEMMA ToldAreReceipts ==
  ASSUME NEW r \in Runs, NEW J \in Journals, Sound(J), Serves(r, J)
  PROVE  [i \in DOMAIN r.batch |-> Message(Receipt(r.batch[i], Says(J, r.batch[i])))] = Receipts(J)
<1>1. J.tools \in Seq(Tools) /\ r.batch \in Seq(Calls) /\ Len(J.tools) = Len(r.batch)
  BY SoundParts, RunFields DEF Serves
<1>2. DOMAIN J.tools = DOMAIN r.batch
  BY <1>1
<1>3. ASSUME NEW i \in DOMAIN r.batch
      PROVE  r.batch[i] = J.tools[i].call /\ Says(J, r.batch[i]) = J.tools[i].says
  <2>1. J.tools[i].call = r.batch[i] /\ i \in DOMAIN J.tools
    BY <1>2 DEF Serves
  <2>2. IsOpen(J, r.batch[i])
    BY <2>1 DEF IsOpen
  <2>3. /\ Place(J, r.batch[i]) \in DOMAIN J.tools /\ J.tools[Place(J, r.batch[i])].call = r.batch[i]
        /\ Says(J, r.batch[i]) = J.tools[Place(J, r.batch[i])].says
    BY <2>2, Placed
  <2>4. Place(J, r.batch[i]) = i
    BY <2>1, <2>3 DEF Sound
  <2>5. QED  BY <2>1, <2>3, <2>4
<1>4. QED  BY Zenon, <1>2, <1>3 DEF Receipts

\* Every call of the round has ended, and the model is told of each.
LEMMA BatchSettledWell ==
  ASSUME TypeOK, SoundInv, BatchSettled
  PROVE  SoundInv'
<1>1. run.at = "batch" /\ UNCHANGED <<disk, kernel, mem>> /\ run.at \notin Entrances
  BY DEF BatchSettled, Others, Entrances
<1>2. /\ run \in Runs /\ kernel \in Journals /\ Sound(kernel) /\ Serves(run, kernel) /\ run.recovering
      /\ \A i \in DOMAIN run.batch : run.call[run.batch[i]] = "recorded" => kernel.tools[i].at = "result"
  BY <1>1, HereWell DEF StandsWell
<1>3. CASE Goto("catch")
  <2>1. StandsWell(run, "catch", kernel)
    BY <1>2 DEF StandsWell, Serves, Going, Aside
  <2>2. QED  BY <1>1, <1>3, <2>1, GoesWellOut DEF Entrances
<1> DEFINE events == [i \in DOMAIN run.batch |->
                        Message(Receipt(run.batch[i], Says(kernel, run.batch[i])))]
<1>4. CASE ~(\E c \in Range(run.batch) : run.call[c] = "thrown") /\ Do(events, "answer", "catch")
  <2>1. events = Receipts(kernel)
    BY <1>2, ToldAreReceipts
  <2>2. run' = Script(run, events, "answer", "catch")
    BY <1>4 DEF Do
  <2>3. run.batch \in Seq(Calls) /\ kernel.tools \in Seq(Tools) /\ Len(kernel.tools) = Len(run.batch)
    BY <1>2, RunFields, SoundParts DEF Serves
  <2>4. \A i \in DOMAIN kernel.tools : kernel.tools[i].at = "result"
    <3> SUFFICES ASSUME NEW i \in DOMAIN kernel.tools PROVE kernel.tools[i].at = "result"
      OBVIOUS
    <3>1. i \in DOMAIN run.batch
      BY <2>3
    <3>2. run.batch[i] \in Range(run.batch)
      BY <3>1 DEF Range
    <3>3. run.call[run.batch[i]] = "recorded"
      BY <1>4, <3>2 DEF BatchSettled, Ended
    <3>4. QED  BY <1>2, <3>1, <3>3
  <2>5. events = <<>> => kernel.tools = <<>>
    <3>1. DOMAIN events = 1..Len(kernel.tools) /\ Len(kernel.tools) \in Nat
      BY <2>3
    <3>2. events = <<>> => DOMAIN events = {}
      OBVIOUS
    <3> HIDE DEF events
    <3>3. events = <<>> => Len(kernel.tools) = 0
      BY <3>1, <3>2
    <3>4. QED  BY <2>3, <3>3
  <2> HIDE DEF events
  <2>6. Going(run, kernel) /\ kernel.step # None /\ kernel.step.pending = "nothing" /\ kernel.turn.nonUser
    BY <1>2 DEF Serves
  <2>7. MeansWell(run, events, "answer", kernel)
    BY <1>2, <2>1, <2>4, <2>6 DEF MeansWell
  <2>8. events = <<>> => StandsWell(run, "answer", kernel)
    BY <2>5, <2>6 DEF StandsWell, Worked, Stepping, Aside
  <2>9. SetsWell(run, events, "answer", "catch", kernel)
    BY <2>7, <2>8 DEF SetsWell, Lands, InTurn
  <2>10. QED  BY <1>1, <1>2, <2>2, <2>9, SetsWellOut DEF Entrances
<1>5. QED  BY <1>3, <1>4 DEF BatchSettled

\* A round whose calls are all answered is kept whatever comes.
LEMMA CheckpointWell ==
  ASSUME TypeOK, SoundInv, Checkpoint
  PROVE  SoundInv'
<1>1. run.at = "answer" /\ UNCHANGED <<disk, kernel, mem>> /\ run.at \notin Entrances
  BY DEF Checkpoint, Others, Entrances
<1>2. run \in Runs /\ kernel \in Journals /\ Sound(kernel) /\ Going(run, kernel) /\ Worked(kernel)
  BY <1>1, HereWell DEF StandsWell
<1> DEFINE s == run'
<1>3. /\ s.at = "answered" /\ s.started = run.started /\ s.before = run.before
      /\ s.checkpoint.hist = kernel.hist
  BY <1>2 DEF Checkpoint, Runs
<1> HIDE DEF s
<1>4. Replied(kernel.hist)
  BY <1>2, SoundParts DEF Worked, Stepping
<1>5. Going(s, kernel)
  BY <1>2, <1>3, <1>4 DEF Going
<1>6. StandsWell(s, "answered", kernel)
  BY <1>2, <1>5 DEF StandsWell, Aside
<1>7. QED  BY <1>1, <1>3, <1>6, StandsOutWell DEF s, Entrances

\* The round is over, or its consumer has left.
LEMMA RoundDoneWell ==
  ASSUME TypeOK, SoundInv, RoundDone
  PROVE  SoundInv'
<1>1. run.at = "answered" /\ UNCHANGED <<disk, kernel, mem>> /\ run.at \notin Entrances
  BY DEF RoundDone, Others, Entrances
<1>2. Going(run, kernel) /\ Worked(kernel) /\ kernel.tools = <<>>
  BY <1>1, HereWell DEF StandsWell, Worked, Stepping
<1>3. CASE Aborted \/ Closed
  BY <1>1, <1>2, <1>3, Interrupted
<1>4. CASE Do(<<StepCompleted("completed")>>, "round", "catch")
  BY <1>1, <1>2, <1>4, StepClosedWell
<1>5. QED  BY <1>3, <1>4 DEF RoundDone

-----------------------------------------------------------------------------
(* After the last round.                                                     *)

\* A turn without an answer is rolled back.
LEMMA ConcludeWell ==
  ASSUME TypeOK, SoundInv, Conclude
  PROVE  SoundInv'
<1>1. run.at = "after" /\ UNCHANGED <<disk, kernel, mem>> /\ run.at \notin Entrances
  BY DEF Conclude, Others, Entrances
<1>2. /\ run \in Runs /\ Going(run, kernel) /\ kernel.step = None /\ kernel.tools = <<>>
      /\ run.before \in Histories /\ run.adapterBefore \in Histories
  BY <1>1, HereWell, SoundParts, RunFields DEF StandsWell
<1>3. CASE Aborted \/ Closed
  BY <1>1, <1>2, <1>3, Interrupted
<1>4. CASE Goto("complete")
  <2>1. StandsWell(run, "complete", kernel)
    BY <1>2 DEF StandsWell, Aside
  <2>2. QED  BY <1>1, <1>4, <2>1, GoesWellOut DEF Entrances
<1> DEFINE events == <<Replaced(run.before, "turn_without_assistant_rolled_back"),
                       Adapter(run.adapterBefore)>>
<1>5. CASE Do(events, "complete", "catch")
  <2>1. Replied(run.before) /\ "turn_without_assistant_rolled_back" \in InternalRollbacks
    BY <1>2 DEF Going, InternalRollbacks
  <2>2. Restores(events)
    BY <1>2, <2>1 DEF Restores
  <2>3. events # <<>> /\ run' = Script(run, events, "complete", "catch")
    BY <1>5 DEF Do
  <2> HIDE DEF events
  <2>4. MeansWell(run, events, "complete", kernel)
    BY <1>2, <2>2 DEF MeansWell
  <2>5. SetsWell(run, events, "complete", "catch", kernel)
    BY <2>3, <2>4 DEF SetsWell, Lands, InTurn
  <2>6. QED  BY <1>1, <1>2, <2>3, <2>5, SetsWellOut DEF Entrances
<1>6. QED  BY <1>3, <1>4, <1>5 DEF Conclude

\* The turn is ended.
LEMMA CompleteWell ==
  ASSUME TypeOK, SoundInv, Complete
  PROVE  SoundInv'
<1>1. run.at = "complete" /\ UNCHANGED <<disk, kernel, mem>> /\ run.at \notin Entrances
  BY DEF Complete, Others, Entrances
<1>2. run \in Runs /\ Going(run, kernel) /\ kernel.step = None /\ kernel.tools = <<>>
  BY <1>1, HereWell, SoundParts DEF StandsWell
<1>3. CASE Aborted
  BY <1>1, <1>2, <1>3, Interrupted
<1>4. CASE Do(<<TurnEnded("completed")>>, "committed", "catch")
  <2> DEFINE e == TurnEnded("completed")
  <2>1. e.type = "turn/ended"
    BY DEF TurnEnded
  <2>2. run' = Script(run, <<e>>, "committed", "catch")
    BY <1>4 DEF Do
  <2> HIDE DEF e
  <2>3. MeansWell(run, <<e>>, "committed", kernel)
    BY <1>2, <2>1, Short DEF MeansWell, Makes
  <2>4. SetsWell(run, <<e>>, "committed", "catch", kernel) /\ <<e>> # <<>>
    BY Zenon, <2>3, SetsOneWell DEF Lands, InTurn
  <2>5. QED  BY <1>1, <1>2, <2>2, <2>4, SetsWellOut DEF Entrances
<1>5. QED  BY <1>3, <1>4 DEF Complete

\* What a projection puts into the store.
LEMMA ProjectPuts ==
  ASSUME TypeOK, kernel \in Journals,
         TryProject \/ Project(kernel.thread, kernel.hist) \/ UNCHANGED mem
  PROVE  \A t \in Threads : Put(mem'[t], t)
<1>1. mem \in [Threads -> Histories \cup {None}] /\ kernel.thread \in Threads
  BY JournalFields DEF TypeOK
<1>2. CASE UNCHANGED mem
  BY <1>2, Puts
<1>3. CASE Project(kernel.thread, kernel.hist)
  <2>1. mem' = [mem EXCEPT ![kernel.thread] =
                  Projection(mem[kernel.thread], known[kernel.thread], kernel.hist)]
    BY <1>3 DEF Project
  <2>2. \A t \in Threads :
          mem'[t] = IF t = kernel.thread
                    THEN Projection(mem[kernel.thread], known[kernel.thread], kernel.hist) ELSE mem[t]
    BY <1>1, <2>1
  <2>3. /\ Put(Projection(mem[kernel.thread], known[kernel.thread], kernel.hist), kernel.thread)
        /\ \A t \in Threads : Put(mem[t], t)
    BY Puts
  <2>4. QED  BY Zenon, <2>2, <2>3
<1>4. QED  BY <1>2, <1>3 DEF TryProject

\* The operation stands elsewhere once the turn is over, and the store may have got something.
LEMMA OverWell ==
  ASSUME TypeOK, SoundInv, run.at \notin Entrances, UNCHANGED <<disk, kernel>>,
         kernel.turn = None, \A t \in Threads : Put(mem'[t], t),
         run'.at \notin Entrances \cup {"opened"}, StandsWell(run', run'.at, kernel)
  PROVE  SoundInv'
<1>1. kernel.tools = <<>>
  BY HereWell, SoundParts
<1>2. ~Stuck
  BY DEF Stuck
<1>3. MemSound'
  BY <1>1, <1>2, StorePuts
<1>4. PlaceSound(run', kernel) /\ run.at # "down" /\ run'.at \notin {"down", "import"}
  BY DEF PlaceSound, Entrances
<1>5. QED  BY <1>3, <1>4, StepsOut

\* The turn is over: its history goes to the conversation store.
LEMMA SettlesWell ==
  ASSUME TypeOK, SoundInv, Committed \/ Mended \/ Terminated
  PROVE  SoundInv'
<1>1. /\ UNCHANGED <<disk, kernel>> /\ run.at \in {"committed", "mended", "terminated"}
      /\ TryProject \/ UNCHANGED mem
  BY DEF Committed, Mended, Terminated
<1>2. run.at \notin Entrances
  BY <1>1 DEF Entrances
<1>3. run \in Runs /\ kernel \in Journals /\ kernel.turn = None
  BY <1>1, <1>2, HereWell DEF StandsWell
<1>4. run'.at \in {"done", "told"}
  BY <1>3 DEF Committed, Mended, Terminated, Runs
<1>5. StandsWell(run', run'.at, kernel) /\ run'.at \notin Entrances \cup {"opened"}
  BY <1>4, Quits DEF Entrances
<1>6. \A t \in Threads : Put(mem'[t], t)
  BY <1>1, <1>3, ProjectPuts
<1>7. QED  BY <1>1, <1>2, <1>3, <1>5, <1>6, OverWell

\* The turn is released.
LEMMA ReturnWell ==
  ASSUME TypeOK, SoundInv, Return
  PROVE  SoundInv'
<1>1. run.at \notin Entrances /\ UNCHANGED <<disk, kernel, mem>>
  BY DEF Return, Others, Entrances
<1>2. run'.at = "idle" /\ ~run'.started /\ ~run'.recovering /\ run'.checkpoint = None
  BY DEF Return, Idle
<1>3. StandsWell(run', run'.at, kernel) /\ run'.at \notin Entrances \cup {"opened"}
  BY <1>2 DEF StandsWell, Aside, Entrances
<1>4. QED  BY <1>1, <1>2, <1>3, StandsOutWell

-----------------------------------------------------------------------------
(* What is terminated or mended.                                             *)

\* What terminateTurn appends can be appended.
LEMMA TerminatesWell ==
  ASSUME run \in Runs, Stops(run, kernel), NEW o \in {"failed", "interrupted"}
  PROVE  Unwinds(Terminate(o), kernel) /\ Terminate(o) # <<>>
<1> DEFINE kept == IF run.checkpoint = None
                   THEN [hist |-> run.before, adapter |-> run.adapterBefore] ELSE run.checkpoint
           reason == IF run.checkpoint = None THEN "turn_failed" ELSE "turn_failed_partial_effects"
           h == kept.hist
           g == kept.adapter
           a == Replaced(h, reason)
           b == Adapter(g)
           c == TurnEnded(o)
           s == StepCompleted(o)
<1>1. Terminate(o) = (IF kernel.step = None THEN <<>> ELSE <<s>>) \o <<a, b, c>>
  BY DEF Terminate
<1>2. h \in Histories /\ g \in Histories /\ Replied(h) /\ reason \in InternalRollbacks
  BY RunFields DEF Stops, Going, InternalRollbacks
<1>3. <<>> \o <<a, b, c>> = <<a, b, c>> /\ <<s>> \o <<a, b, c>> = <<s, a, b, c>>
  <2> HIDE DEF a, b, c, s
  <2>1. <<a, b, c>> \in Seq({a, b, c})
    OBVIOUS
  <2>2. <<>> \o <<a, b, c>> = <<a, b, c>>
    BY <2>1, ConcatEmptySeq
  <2>3. QED  BY Zenon, <2>2, Before
<1>4. <<a, b, c>> # <<>> /\ <<s, a, b, c>> # <<>>
  <2> HIDE DEF a, b, c, s
  <2> QED  OBVIOUS
<1> HIDE DEF kept, reason, h, g
<1>5. CASE kernel.step = None
  <2>1. Terminate(o) = <<a, b, c>>
    BY <1>1, <1>3, <1>5
  <2>2. QED  BY <1>2, <1>4, <1>5, <2>1 DEF Unwinds
<1>6. CASE kernel.step # None
  <2>1. Terminate(o) = <<s, a, b, c>>
    BY <1>1, <1>3, <1>6
  <2>2. QED  BY <1>2, <1>4, <1>6, <2>1 DEF Unwinds
<1>7. QED  BY <1>5, <1>6

\* A turn that is terminated.
LEMMA SetsTerminateWell ==
  ASSUME TypeOK, SoundInv, run.at \notin Entrances, UNCHANGED <<disk, kernel, mem>>, Stops(run, kernel),
         NEW o \in {"failed", "interrupted"}, NEW onFail \in {"finally", "told", "ended"},
         Do(Terminate(o), "terminated", onFail)
  PROVE  SoundInv'
<1> DEFINE events == Terminate(o)
<1>1. run \in Runs
  BY HereWell
<1>2. Unwinds(events, kernel) /\ events # <<>>
  BY <1>1, TerminatesWell
<1>3. run' = Script(run, events, "terminated", onFail)
  BY DEF Do
<1> HIDE DEF events
<1>4. MeansWell(run, events, "terminated", kernel)
  BY <1>2 DEF MeansWell
<1>5. SetsWell(run, events, "terminated", onFail, kernel)
  BY <1>2, <1>4 DEF SetsWell, Lands
<1>6. QED  BY <1>1, <1>2, <1>3, <1>5, SetsWellOut DEF Entrances

\* What is caught is mended, terminated or passed on.
LEMMA CatchWell ==
  ASSUME TypeOK, SoundInv, Catch
  PROVE  SoundInv'
<1>1. run.at = "catch" /\ UNCHANGED <<disk, kernel, mem>> /\ run.at \notin Entrances
  BY DEF Catch, Others, Entrances
<1>2. /\ run \in Runs /\ kernel \in Journals /\ Sound(kernel)
      /\ IF run.recovering THEN run.started ELSE run.started => Stops(run, kernel)
  BY <1>1, HereWell DEF StandsWell
<1>3. CASE run.recovering
  <2> DEFINE told == [c \in Calls |-> IF run.told[c] = "none" \/ run.call[c] = "recorded"
                                      THEN run.told[c] ELSE "unknown"]
             r == [run EXCEPT !.told = told]
             plan == RecoveryPlan(kernel)
  <2>1. run' = Script(r, plan, "mended", "told")
    BY <1>3 DEF Catch
  <2>2. told \in [Calls -> Words \cup {"none"}]
    BY Zenon, <1>2, RunFields DEF Words
  <2> HIDE DEF told
  <2>3. r \in Runs /\ r.started = run.started
    BY Zenon, <1>2, <2>2 DEF Runs
  <2> HIDE DEF r
  <2>4. Mending(plan, kernel)
    BY <1>2, MendingFromPlan
  <2>5. plan = <<>> => kernel.turn = None
    BY <1>2, <2>4, MendingEnds
  <2> HIDE DEF plan
  <2>6. MeansWell(r, plan, "mended", kernel)
    BY <1>2, <1>3, <2>3, <2>4 DEF MeansWell
  <2>7. plan = <<>> => StandsWell(r, "mended", kernel)
    BY <1>2, <1>3, <2>3, <2>5 DEF StandsWell, Aside
  <2>8. SetsWell(r, plan, "mended", "told", kernel)
    BY <2>6, <2>7 DEF SetsWell, Lands
  <2>9. QED  BY <1>1, <2>1, <2>3, <2>8, SetsWellOut DEF Entrances
<1>4. CASE ~run.recovering /\ Unfinished /\ Do(Terminate("failed"), "terminated", "finally")
  <2>1. Stops(run, kernel)
    BY <1>2, <1>4 DEF Unfinished
  <2>2. QED  BY <1>1, <1>4, <2>1, SetsTerminateWell
<1>5. CASE Goto("told")
  BY Zenon, <1>1, <1>5, Quits, GoesWellOut DEF Entrances
<1>6. QED  BY <1>3, <1>4, <1>5 DEF Catch

\* The turn is terminated once more, or because its consumer has left.
LEMMA TerminatesAgainWell ==
  ASSUME TypeOK, SoundInv, Finally \/ Close
  PROVE  SoundInv'
<1>1. run.at \in {"finally", "close"} /\ UNCHANGED <<disk, kernel, mem>> /\ run.at \notin Entrances
  BY DEF Finally, Close, Others, Entrances
<1>2. Stops(run, kernel)
  BY <1>1, HereWell DEF StandsWell
<1>3. QED  BY <1>1, <1>2, SetsTerminateWell DEF Finally, Close

-----------------------------------------------------------------------------
(* The operations outside a turn.                                            *)

\* An operation begins.
LEMMA BeginWell ==
  ASSUME TypeOK, SoundInv, NEW at \in {"switch", "keep", "delete", "ingest", "destroy"}, NEW to, Begin(at, to)
  PROVE  SoundInv'
<1>1. UNCHANGED <<disk, kernel, mem>> /\ run.at \notin Entrances /\ run' = [Idle EXCEPT !.at = at, !.to = to]
  BY DEF Begin, Entrances
<1>2. run'.at = at /\ ~run'.started /\ ~run'.recovering /\ run'.checkpoint = None
  BY <1>1 DEF Idle
<1>3. StandsWell(run', run'.at, kernel) /\ run'.at \notin Entrances \cup {"opened"}
  BY <1>2 DEF StandsWell, Aside, Entrances
<1>4. QED  BY <1>1, <1>2, <1>3, StandsOutWell

\* The operation goes to a place, and the store may have got something.
LEMMA GoesOverWell ==
  ASSUME TypeOK, SoundInv, run.at \notin Entrances \cup {"opened"}, UNCHANGED <<disk, kernel>>,
         \A t \in Threads : Put(mem'[t], t), ~run.started,
         NEW at, at \notin Entrances \cup {"opened"}, Goto(at), StandsWell(run, at, kernel)
  PROVE  SoundInv'
<1>1. run' = Script(run, <<>>, at, "idle")
  BY DEF Script, Goto
<1>2. SetsWell(run, <<>>, at, "idle", kernel)
  BY DEF SetsWell
<1>3. QED  BY <1>1, <1>2, SetsWellOver

\* An event that comes from outside a turn is the last of its operation.
LEMMA EndsOutsideWell ==
  ASSUME TypeOK, SoundInv, run.at \notin Entrances \cup {"opened"}, UNCHANGED <<disk, kernel>>,
         \A t \in Threads : Put(mem'[t], t),
         ~run.started, ~run.recovering, run.checkpoint = None,
         NEW e, Outside(e), Do(<<e>>, "ended", "ended")
  PROVE  SoundInv'
<1>1. MeansWell(run, <<e>>, "ended", kernel)
  BY Short DEF MeansWell, Alone
<1>2. SetsWell(run, <<e>>, "ended", "ended", kernel)
  BY <1>1, SetsOneWell DEF Lands
<1>3. QED  BY <1>2, SetsWellOver DEF Do, Entrances

\* Resets, deletions, messages from outside and the end of the session.
LEMMA OutsideWell ==
  ASSUME TypeOK, SoundInv, KeepThread \/ ClearThread \/ DeleteThread \/ IngestMessage \/ DestroySession
  PROVE  SoundInv'
<1>1. /\ UNCHANGED <<disk, kernel>> /\ run.at \in {"keep", "clear", "delete", "ingest", "destroy"}
      /\ run.at \notin Entrances \cup {"opened"}
  BY DEF KeepThread, ClearThread, DeleteThread, IngestMessage, DestroySession, Others, Entrances
<1>2. kernel \in Journals /\ ~run.started /\ ~run.recovering /\ run.checkpoint = None
  BY <1>1, HereWell DEF StandsWell, Aside
<1>3. StandsWell(run, "clear", kernel) /\ StandsWell(run, "ended", kernel)
  BY <1>2 DEF StandsWell, Aside
<1>4. UNCHANGED mem => \A t \in Threads : Put(mem'[t], t)
  BY Puts
<1>5. ASSUME NEW t, NEW m, mem' = [mem EXCEPT ![t] = m], Put(m, t) PROVE \A u \in Threads : Put(mem'[u], u)
  <2>1. mem \in [Threads -> Histories \cup {None}]
    BY DEF TypeOK
  <2>2. \A u \in Threads : mem'[u] = IF u = t THEN m ELSE mem[u]
    BY <1>5, <2>1
  <2>3. QED  BY <1>5, <2>2, Puts
<1>6. \A t : Outside(Reset(t))
  BY DEF Outside, Reset
<1>7. Outside(External(User(ExternalText))) /\ Outside(Destroyed)
  BY DEF Outside, External, User, Destroyed
<1>8. CASE Goto("clear") \/ Goto("ended")
  <2>1. ASSUME \A t \in Threads : Put(mem'[t], t) PROVE SoundInv'
    BY <1>1, <1>2, <1>3, <1>8, <2>1, GoesOverWell DEF Entrances
  <2>2. UNCHANGED mem => SoundInv'
    BY <1>4, <2>1
  <2>3. Project(kernel.thread, kernel.hist) => SoundInv'
    BY <1>2, <2>1, ProjectPuts
  <2>4. DeleteThread => SoundInv'
    <3>1. DeleteThread => mem' = [mem EXCEPT ![run.to] = None]
      BY DEF DeleteThread
    <3>2. QED  BY <1>5, <2>1, <3>1, Puts
  <2>5. ClearThread => SoundInv'
    <3>1. Project(run.to, <<>>) => mem' = [mem EXCEPT ![run.to] = Projection(mem[run.to], known[run.to], <<>>)]
      BY DEF Project
    <3>2. ASSUME Project(run.to, <<>>) PROVE SoundInv'
      <4>1. Put(Projection(mem[run.to], known[run.to], <<>>), run.to)
        BY Puts
      <4>2. \A u \in Threads : Put(mem'[u], u)
        BY <1>5, <3>1, <3>2, <4>1
      <4>3. QED  BY <2>1, <4>2
    <3>3. QED  BY <2>2, <3>2 DEF ClearThread
  <2>6. QED  BY <2>2, <2>3, <2>4, <2>5 DEF KeepThread, IngestMessage, DestroySession, Others
<1>9. CASE ClearThread /\ Project(run.to, <<>>) /\ Do(<<Reset(run.to)>>, "ended", "ended")
  <2>1. mem' = [mem EXCEPT ![run.to] = Projection(mem[run.to], known[run.to], <<>>)]
    BY <1>9 DEF Project
  <2>2. \A u \in Threads : Put(mem'[u], u)
    BY <1>5, <2>1, Puts
  <2>3. QED  BY <1>1, <1>2, <1>6, <1>9, <2>2, EndsOutsideWell
<1>10. CASE DeleteThread /\ \E t \in left.threads : Do(<<Reset(t)>>, "ended", "ended")
  <2>1. mem' = [mem EXCEPT ![run.to] = None]
    BY <1>10 DEF DeleteThread
  <2>2. \A u \in Threads : Put(mem'[u], u)
    BY <1>5, <2>1, Puts
  <2>3. QED  BY <1>1, <1>2, <1>6, <1>10, <2>2, EndsOutsideWell
<1>11. CASE UNCHANGED mem /\ (\/ Do(<<External(User(ExternalText))>>, "ended", "ended")
                              \/ Do(<<Destroyed>>, "ended", "ended"))
  BY <1>1, <1>2, <1>4, <1>7, <1>11, EndsOutsideWell
<1>12. CASE KeepThread
  BY <1>8, <1>12 DEF KeepThread
<1>13. CASE ClearThread
  BY <1>8, <1>9, <1>13 DEF ClearThread
<1>14. CASE DeleteThread
  BY Zenon, <1>8, <1>10, <1>14 DEF DeleteThread
<1>15. CASE IngestMessage \/ DestroySession
  BY <1>8, <1>11, <1>15 DEF IngestMessage, DestroySession, Others
<1>16. QED  BY <1>12, <1>13, <1>14, <1>15

-----------------------------------------------------------------------------
(* The calls of a round.                                                     *)

\* A call moves on and nothing else of the operation does.
LEMMA BecomesWell ==
  ASSUME NEW c \in Calls, NEW state, NEW told, run \in Runs, run.at = "batch", Becomes(c, state, told)
  PROVE  /\ run'.at = "batch" /\ run'.started = run.started /\ run'.before = run.before
         /\ run'.checkpoint = run.checkpoint /\ run'.recovering = run.recovering /\ run'.batch = run.batch
         /\ \A d \in Calls : run'.call[d] = IF d = c THEN state ELSE run.call[d]
<1>1. run.call \in [Calls -> Phases]
  BY RunFields
<1>2. /\ run'.at = "batch" /\ run'.started = run.started /\ run'.before = run.before
      /\ run'.checkpoint = run.checkpoint /\ run'.recovering = run.recovering /\ run'.batch = run.batch
      /\ run'.call = [run.call EXCEPT ![c] = state]
  BY Zenon DEF Becomes, Runs
<1>3. QED  BY <1>1, <1>2

\* The round is served as before, by a journal that owes the same calls.
LEMMA StillServes ==
  ASSUME NEW c \in Calls, NEW state, NEW told, run \in Runs, run.at = "batch", Becomes(c, state, told),
         NEW J \in Journals, StandsWell(run, "batch", J), NEW K \in Journals,
         K.turn = J.turn, K.step = J.step, DOMAIN K.tools = DOMAIN J.tools,
         \A i \in DOMAIN J.tools :
           /\ K.tools[i].call = J.tools[i].call
           /\ J.tools[i].call # c => K.tools[i] = J.tools[i]
           /\ J.tools[i].call = c /\ state = "recorded" => K.tools[i].at = "result"
  PROVE  StandsWell(run', "batch", K)
<1> DEFINE s == run'
<1>1. /\ s.at = "batch" /\ s.started = run.started /\ s.before = run.before
      /\ s.checkpoint = run.checkpoint /\ s.recovering = run.recovering /\ s.batch = run.batch
      /\ \A d \in Calls : s.call[d] = IF d = c THEN state ELSE run.call[d]
  BY BecomesWell
<1> HIDE DEF s
<1>2. /\ Serves(run, J) /\ run.recovering
      /\ \A i \in DOMAIN run.batch : run.call[run.batch[i]] = "recorded" => J.tools[i].at = "result"
  BY DEF StandsWell
<1>3. J.tools \in Seq(Tools) /\ K.tools \in Seq(Tools) /\ run.batch \in Seq(Calls)
  BY JournalFields, RunFields
<1>4. Len(K.tools) = Len(J.tools) /\ Len(J.tools) = Len(run.batch) /\ DOMAIN J.tools = DOMAIN run.batch
  BY <1>2, <1>3 DEF Serves
<1>5. Serves(s, K)
  BY <1>1, <1>2, <1>4 DEF Serves, Going
<1>6. ASSUME NEW i \in DOMAIN s.batch, s.call[s.batch[i]] = "recorded" PROVE K.tools[i].at = "result"
  <2>1. i \in DOMAIN J.tools /\ s.batch[i] = run.batch[i] /\ run.batch[i] \in Calls
    BY <1>1, <1>3, <1>4
  <2>2. J.tools[i].call = run.batch[i]
    BY <1>1, <1>2 DEF Serves
  <2>3. CASE run.batch[i] = c
    BY <1>1, <1>6, <2>1, <2>2, <2>3
  <2>4. CASE run.batch[i] # c
    <3>1. run.call[run.batch[i]] = "recorded" /\ K.tools[i] = J.tools[i]
      BY <1>1, <1>6, <2>1, <2>2, <2>4
    <3>2. QED  BY <1>1, <1>2, <3>1
  <2>5. QED  BY <2>3, <2>4
<1>7. QED  BY <1>1, <1>2, <1>5, <1>6 DEF StandsWell, Aside, s

\* The parts of the invariant where the calls of a round run.
LEMMA InBatch ==
  ASSUME TypeOK, SoundInv, run.at = "batch"
  PROVE  /\ run \in Runs /\ disk \in Journals /\ kernel \in Journals /\ Sound(disk) /\ Sound(kernel)
         /\ StandsWell(run, "batch", kernel) /\ Abreast /\ run.started
         /\ \A t \in Threads : Replied(MessagesOf(mem[t]))
<1>1. run.at \notin Entrances
  BY DEF Entrances
<1>2. /\ run \in Runs /\ disk \in Journals /\ kernel \in Journals /\ Sound(kernel)
      /\ StandsWell(run, "batch", kernel) /\ Abreast /\ ~Opening(run)
  BY <1>1, HereWell
<1>3. run.started
  BY <1>2 DEF StandsWell, Serves, Going
<1>4. ~Stuck
  BY <1>3 DEF Stuck
<1>5. QED  BY <1>2, <1>3, <1>4, MemWell DEF SoundInv

\* The round goes on.
LEMMA BatchGoesOn ==
  ASSUME TypeOK, SoundInv, run.at = "batch", mem' = mem, run'.at = "batch",
         Sound(disk'), Sound(kernel'), StandsWell(run', "batch", kernel'), Abreast'
  PROVE  SoundInv'
<1>1. MemSound'
  BY InBatch DEF MemSound
<1>2. PlaceSound(run', kernel')
  BY DEF PlaceSound
<1>3. QED  BY <1>1, <1>2 DEF SoundInv

\* A step of a call that appends an event.
LEMMA CallWell ==
  ASSUME TypeOK, SoundInv, run.at = "batch", NEW c \in Calls, NEW e \in Events,
         e.type \in {"tool/call", "tool/execution-started", "tool/result"}, e.call = c,
         NEW ok, NEW told, NEW bad, ok = "recorded" => e.type = "tool/result", bad # "recorded",
         CallAppend(c, e, ok, told, bad)
  PROVE  SoundInv'
<1> DEFINE K == Advance(disk, e)
<1>1. /\ run \in Runs /\ disk \in Journals /\ kernel \in Journals /\ Sound(disk) /\ Sound(kernel)
      /\ StandsWell(run, "batch", kernel) /\ Abreast
  BY InBatch
<1>2. ASSUME Accepts(disk, e)
      PROVE  /\ K \in Journals /\ Sound(K) /\ K.turn = disk.turn /\ K.step = disk.step
             /\ DOMAIN K.tools = DOMAIN disk.tools
             /\ \A i \in DOMAIN disk.tools :
                  /\ K.tools[i].call = disk.tools[i].call
                  /\ disk.tools[i].call # c => K.tools[i] = disk.tools[i]
                  /\ disk.tools[i].call = c /\ e.type = "tool/result" => K.tools[i].at = "result"
             /\ disk.tools # <<>> => AddsTo(disk, K)
  <2>1. K \in Journals
    BY <1>1, <1>2, Advances DEF After
  <2>2. disk.tools # <<>> => AddsTo(disk, K)
    BY <1>1, <1>2, ToolsOpen
  <2>3. /\ Sound(K) /\ K.hist = disk.hist /\ K.turn = disk.turn /\ K.step = disk.step
        /\ DOMAIN K.tools = DOMAIN disk.tools
        /\ \A i \in DOMAIN disk.tools :
             /\ K.tools[i].call = disk.tools[i].call
             /\ disk.tools[i].call # e.call => K.tools[i] = disk.tools[i]
             /\ disk.tools[i].call = e.call /\ e.type = "tool/result" =>
                  K.tools[i] = [call |-> e.call, at |-> "result", says |-> e.says]
    BY <1>1, <1>2, SoundCall
  <2> HIDE DEF K
  <2>4. QED  BY <2>1, <2>2, <2>3
<1>3. mem' = mem
  BY DEF CallAppend
<1>4. CASE Appended(e) /\ Becomes(c, ok, told)
  <2>1. kernel = disk /\ Accepts(disk, e) /\ disk' = K /\ kernel' = K
    BY <1>4 DEF Appended
  <2>2. /\ K \in Journals /\ Sound(K) /\ K.turn = disk.turn /\ K.step = disk.step
        /\ DOMAIN K.tools = DOMAIN disk.tools
        /\ \A i \in DOMAIN disk.tools :
             /\ K.tools[i].call = disk.tools[i].call
             /\ disk.tools[i].call # c => K.tools[i] = disk.tools[i]
             /\ disk.tools[i].call = c /\ ok = "recorded" => K.tools[i].at = "result"
    BY <1>2, <2>1
  <2> HIDE DEF K
  <2>3. StandsWell(run', "batch", K)
    BY <1>1, <1>4, <2>1, <2>2, StillServes
  <2>4. Abreast'
    <3>1. K.tools # <<>> => Laden(K) /\ Len(K.hist) \in Nat
      BY <2>2, SoundParts DEF Histories
    <3>2. K.tools # <<>> => Len(K.hist) <= Len(K.hist)
      BY <3>1
    <3>3. QED  BY <2>1, <3>1, <3>2 DEF Abreast
  <2>5. run'.at = "batch"
    BY <1>1, <1>4, BecomesWell
  <2>6. QED  BY <1>3, <2>1, <2>2, <2>3, <2>4, <2>5, BatchGoesOn
<1>5. CASE AppendFails(e) /\ Becomes(c, bad, run.told[c])
  <2>1. kernel' = kernel /\ (disk' = disk \/ (kernel = disk /\ Accepts(disk, e) /\ disk' = K))
    BY <1>5 DEF AppendFails
  <2>2. StandsWell(run', "batch", kernel)
    BY <1>1, <1>5, StillServes
  <2>3. Sound(disk')
    BY <1>1, <1>2, <2>1
  <2>4. Abreast'
    <3>1. CASE disk' = disk
      BY <1>1, <2>1, <3>1 DEF Abreast
    <3>2. CASE kernel = disk /\ Accepts(disk, e) /\ disk' = K
      <4>1. disk.tools # <<>> => AddsTo(disk, K)
        BY <1>2, <3>2
      <4> HIDE DEF K
      <4>2. QED  BY <2>1, <3>2, <4>1 DEF Abreast, AddsTo
    <3>3. QED  BY <2>1, <3>1, <3>2
  <2> HIDE DEF K
  <2>5. run'.at = "batch"
    BY <1>1, <1>5, BecomesWell
  <2>6. QED  BY <1>1, <1>3, <2>1, <2>2, <2>3, <2>4, <2>5, BatchGoesOn
<1>6. QED  BY <1>4, <1>5 DEF CallAppend

\* A step of a call that appends nothing.
LEMMA CallStandsWell ==
  ASSUME TypeOK, SoundInv, run.at = "batch", UNCHANGED <<disk, kernel, mem>>,
         NEW c \in Calls, NEW state, state # "recorded", NEW told, Becomes(c, state, told)
  PROVE  SoundInv'
<1>1. /\ run \in Runs /\ kernel \in Journals /\ Sound(disk) /\ Sound(kernel)
      /\ StandsWell(run, "batch", kernel) /\ Abreast
  BY InBatch
<1>2. StandsWell(run', "batch", kernel) /\ run'.at = "batch"
  BY <1>1, StillServes, BecomesWell
<1>3. Abreast'
  BY <1>1 DEF Abreast
<1>4. QED  BY <1>1, <1>2, <1>3, BatchGoesOn

\* The steps of the calls of a round.
LEMMA BatchWell ==
  ASSUME IInv, SoundInv, Batch
  PROVE  SoundInv'
<1>0. TypeOK
  BY DEF IInv
<1>1. PICK c \in Calls :
        \/ Ask(c) \/ Intend(c) \/ Refuse(c) \/ Break(c) \/ RecordRefusal(c) \/ Enter(c)
        \/ (\E o \in {"done", "failed", "unknown"} : Settle(c, o)) \/ RecordResult(c)
  BY DEF Batch
<1>2. run.at = "batch"
  BY <1>1 DEF Ask, Intend, Refuse, Break, RecordRefusal, Enter, Settle, RecordResult, Call
<1>3. CASE Ask(c)
  <2>0. "unknown" \in Words /\ ToolCall(c).type = "tool/call" /\ ToolCall(c).call = c
    BY DEF Words, ToolCall
  <2>1. ToolCall(c) \in Events
    BY Zenon, <2>0, ToolEvents
  <2>2. QED  BY <1>0, <1>2, <1>3, <2>0, <2>1, CallWell DEF Ask
<1>4. CASE Intend(c)
  <2>0. "unknown" \in Words /\ ToolStarted(c).type = "tool/execution-started" /\ ToolStarted(c).call = c
    BY DEF Words, ToolStarted
  <2>1. ToolStarted(c) \in Events
    BY Zenon, <2>0, ToolEvents
  <2>2. QED  BY <1>0, <1>2, <1>4, <2>0, <2>1, CallWell DEF Intend
<1>5. CASE Refuse(c) \/ Break(c) \/ Enter(c) \/ \E o \in {"done", "failed", "unknown"} : Settle(c, o)
  BY <1>0, <1>2, <1>5, CallStandsWell DEF Refuse, Break, Enter, Settle, Others
<1>6. ASSUME NEW w \in Words
      PROVE  ToolResult(c, w) \in Events /\ ToolResult(c, w).type = "tool/result" /\ ToolResult(c, w).call = c
  BY Zenon, ToolEvents DEF ToolResult
<1>7. CASE RecordRefusal(c)
  <2>1. "rejected" \in Words
    BY DEF Words
  <2>2. QED  BY <1>0, <1>2, <1>6, <1>7, <2>1, CallWell DEF RecordRefusal
<1>8. CASE RecordResult(c)
  <2>1. PICK says \in {effect[c], "unknown"} : CallAppend(c, ToolResult(c, says), "recorded", says, "thrown")
    BY <1>8 DEF RecordResult
  <2>2. effect[c] \in {"done", "failed", "unknown"}
    BY <1>8 DEF IInv, Accounted, RecordResult, Call
  <2>3. says \in Words
    BY Zenon, <2>2 DEF Words
  <2>4. QED  BY <1>0, <1>2, <1>6, <2>1, <2>3, CallWell
<1>9. QED  BY <1>1, <1>3, <1>4, <1>5, <1>7, <1>8

-----------------------------------------------------------------------------
(* The process opens, and ends.                                              *)

\* A process and its store that agree are abreast.
LEMMA OneJournal ==
  ASSUME NEW J \in Journals, Sound(J)
  PROVE  J.tools # <<>> => J.thread = J.thread /\ Laden(J) /\ Len(J.hist) <= Len(J.hist)
<1>1. Len(J.hist) \in Nat
  BY SoundParts DEF Histories
<1>2. QED  BY <1>1, SoundParts

\* A process opens the journal, to recover it.
LEMMA OpenWell ==
  ASSUME TypeOK, SoundInv, Open
  PROVE  SoundInv'
<1> DEFINE plan == RecoveryPlan(disk)
           s == run'
<1>1. /\ disk \in Journals /\ kernel' = disk /\ disk' = disk /\ mem' = mem /\ run.at = "down"
      /\ s = Script(Idle, plan, "import", "unopened") /\ Idle \in Runs /\ Sound(disk)
  BY ChatAssumption, Blank DEF TypeOK, Open, SoundInv
<1>2. Mending(plan, disk)
  BY <1>1, MendingFromPlan
<1>3. ~Idle.started /\ ~Idle.recovering /\ Idle.checkpoint = None
  BY DEF Idle
<1>4. plan = <<>> => disk.turn = None
  BY <1>1, <1>2, MendingEnds
<1> HIDE DEF plan, s
<1>5. SetsWell(Idle, plan, "import", "unopened", disk)
  <2>1. MeansWell(Idle, plan, "import", disk)
    BY <1>2, <1>3 DEF MeansWell
  <2>2. plan = <<>> => StandsWell(Idle, "import", disk)
    BY <1>3, <1>4 DEF StandsWell, Aside
  <2>3. QED  BY <2>1, <2>2 DEF SetsWell, Lands
<1>6. /\ PlaceSound(s, disk)
      /\ IF plan = <<>> THEN s.at = "import" ELSE s.at = "script" /\ s.onFail = "unopened"
  BY <1>1, <1>5, ScriptedWell
<1>7. Opening(s)
  BY <1>6 DEF Opening
<1>8. MemSound'
  BY <1>1, <1>7, StoreStays DEF s
<1>9. Abreast'
  BY <1>1, OneJournal DEF Abreast
<1>10. QED  BY <1>1, <1>6, <1>8, <1>9 DEF SoundInv, s

\* The parts of the invariant where a process brings its journal and the store together.
LEMMA AtImport ==
  ASSUME TypeOK, SoundInv, run.at = "import"
  PROVE  /\ run \in Runs /\ kernel = disk /\ disk \in Journals /\ Sound(disk) /\ disk.turn = None
         /\ ~run.started /\ ~run.recovering /\ run.checkpoint = None
         /\ Replied(disk.hist) /\ disk.hist \in Histories /\ disk.thread \in Threads
         /\ mem \in [Threads -> Histories \cup {None}]
         /\ \A t \in Threads :
              Replied(MessagesOf(mem[t])) \/ (t = disk.thread /\ Laden(disk)
                                              /\ WholeFrom(MessagesOf(mem[t]), <<>>, Len(disk.hist)))
<1>1. run \in Runs /\ kernel = disk /\ disk \in Journals /\ Sound(disk) /\ StandsWell(run, "import", kernel)
  BY DEF TypeOK, SoundInv, PlaceSound
<1>2. disk.turn = None /\ ~run.started /\ ~run.recovering /\ run.checkpoint = None
  BY <1>1 DEF StandsWell, Aside
<1>3. disk.tools = <<>> /\ Replied(disk.hist) /\ disk.hist \in Histories /\ disk.thread \in Threads
  BY <1>1, <1>2, SoundParts, JournalFields
<1>4. QED  BY <1>1, <1>2, <1>3 DEF TypeOK, SoundInv, MemSound

\* It has opened.
LEMMA Imported ==
  ASSUME TypeOK, SoundInv, run.at = "import", UNCHANGED <<disk, kernel>>, Goto("idle"),
         \A t \in Threads : Replied(MessagesOf(mem'[t]))
  PROVE  SoundInv'
<1>1. run \in Runs /\ ~run.started /\ ~run.recovering /\ run.checkpoint = None
  BY AtImport
<1>2. run'.at = "idle" /\ ~run'.started /\ ~run'.recovering /\ run'.checkpoint = None
  BY <1>1 DEF Goto, Runs
<1>3. PlaceSound(run', kernel)
  BY <1>2 DEF PlaceSound, StandsWell, Aside
<1>4. MemSound'
  BY DEF MemSound
<1>5. QED  BY <1>2, <1>3, <1>4, StepsOut

\* What the conversation store holds is taken into a new journal, or follows an old one.
LEMMA ImportWell ==
  ASSUME TypeOK, SoundInv, Import
  PROVE  SoundInv'
<1>1. run.at = "import" /\ UNCHANGED <<disk, kernel>>
  BY DEF Import
<1>2. /\ run \in Runs /\ kernel = disk /\ disk \in Journals /\ Sound(disk) /\ disk.turn = None
      /\ ~run.started /\ ~run.recovering /\ run.checkpoint = None
      /\ Replied(disk.hist) /\ disk.hist \in Histories /\ disk.thread \in Threads
      /\ mem \in [Threads -> Histories \cup {None}]
      /\ \A t \in Threads :
           Replied(MessagesOf(mem[t])) \/ (t = disk.thread /\ Laden(disk)
                                           /\ WholeFrom(MessagesOf(mem[t]), <<>>, Len(disk.hist)))
  BY <1>1, AtImport
<1> DEFINE prior == mem[kernel.thread]
           e == Replaced(prior, "conversation_memory_imported")
           s == run'
<1>3. disk.hist = <<>> => \A t \in Threads : Replied(MessagesOf(mem[t]))
  BY <1>2 DEF Laden
<1>4. kernel.count = 1 => disk.hist = <<>>
  BY <1>2 DEF Sound
<1>5. CASE Goto("idle") /\ UNCHANGED mem /\ disk.hist = <<>>
  BY <1>1, <1>3, <1>5, Imported
<1>6. CASE UNCHANGED mem /\ disk.hist = <<>> /\ MessagesOf(prior) # <<>> /\ Do(<<e>>, "idle", "unopened")
  <2>1. prior = MessagesOf(prior) /\ Replied(prior)
    <3>1. prior = MessagesOf(prior)
      BY <1>6 DEF MessagesOf
    <3>2. Replied(MessagesOf(prior))
      BY <1>2, <1>3, <1>6
    <3>3. QED  BY <3>1, <3>2
  <2>2. e.type = "history/replaced" /\ ~e.recovered /\ e.history = prior
    BY DEF Replaced
  <2>3. s = Script(run, <<e>>, "idle", "unopened")
    BY <1>6 DEF Do
  <2> HIDE DEF e, s, prior
  <2>4. MeansWell(run, <<e>>, "idle", disk)
    BY <1>2, <1>6, <2>1, <2>2, Short DEF MeansWell, Makes
  <2>5. SetsWell(run, <<e>>, "idle", "unopened", disk) /\ <<e>> # <<>>
    BY <2>4, SetsOneWell DEF Lands
  <2>6. PlaceSound(s, disk) /\ s.at = "script" /\ s.onFail = "unopened"
    BY <1>2, <2>3, <2>5, ScriptedWell
  <2>7. MemSound'
    BY <1>2, <1>3, <1>6 DEF MemSound
  <2>8. QED  BY <1>1, <1>2, <2>6, <2>7, StepsOut DEF s
<1>7. CASE disk.hist # <<>> /\ Project(kernel.thread, kernel.hist) /\ Goto("idle")
  <2> DEFINE h == disk.hist
             cur == MessagesOf(prior)
             got == Projection(prior, known[kernel.thread], h)
  <2>1. \A t \in Threads : mem'[t] = IF t = disk.thread THEN got ELSE mem[t]
    BY <1>2, <1>7 DEF Project
  <2>2. Replied(MessagesOf(got))
    <3>1. CASE got = h
      <4>1. MessagesOf(h) \in {<<>>, h}
        BY DEF MessagesOf
      <4>2. Replied(<<>>)
        BY NothingAsked DEF Replied, Whole
      <4>3. QED  BY <1>2, <3>1, <4>1, <4>2
    <3>2. CASE got # h
      <4>1. got = prior /\ IsPrefix(h, cur)
        BY <3>2 DEF Projection, IsStrictPrefix
      <4>2. cur \in Histories
        <5>1. <<>> \in Histories
          BY DEF Histories
        <5>2. prior \in Histories \cup {None}
          BY <1>2
        <5>3. QED  BY <5>1, <5>2 DEF MessagesOf
      <4>3. Replied(cur) \/ WholeFrom(cur, <<>>, Len(h))
        BY <1>2
      <4> HIDE DEF h, cur, got, prior
      <4>4. Replied(cur)
        BY <1>2, <4>1, <4>2, <4>3, BothAreWhole DEF h
      <4>5. QED  BY <4>1, <4>4 DEF cur
    <3>3. QED  BY <3>1, <3>2
  <2> HIDE DEF got
  <2>3. ASSUME NEW t \in Threads PROVE Replied(MessagesOf(mem'[t]))
    BY <1>2, <2>1, <2>2
  <2>4. QED  BY <1>1, <1>7, <2>3, Imported
<1>8. CASE Goto("diverged") /\ UNCHANGED mem
  <2>1. run'.at = "diverged"
    BY <1>2, <1>8 DEF Goto, Runs
  <2>2. PlaceSound(run', kernel)
    BY <2>1 DEF PlaceSound, StandsWell, Aside
  <2>3. MemSound'
    BY <1>1, <1>8, <2>1, StoreStays DEF Opening
  <2>4. QED  BY <1>1, <2>1, <2>2, <2>3, StepsOut
<1> HIDE DEF e, prior
<1>9. CASE kernel.count = 1
  BY <1>4, <1>5, <1>6, <1>9 DEF Import, e, prior
<1>10. CASE kernel.count # 1
  BY <1>2, <1>5, <1>7, <1>8, <1>10 DEF Import
<1>11. QED  BY <1>9, <1>10

\* The process is gone.
LEMMA GoneWell ==
  ASSUME SoundInv, Unopened \/ Crash
  PROVE  SoundInv'
<1>1. run' = Down /\ UNCHANGED <<disk, mem>>
  BY DEF Unopened, Crash
<1>2. run'.at = "down"
  BY <1>1 DEF Down, Idle
<1>3. Opening(run')
  BY <1>2 DEF Opening
<1>4. MemSound'
  BY <1>1, <1>3, StoreStays
<1>5. QED  BY <1>1, <1>2, <1>4 DEF SoundInv

\* A question and an answer leave a history as whole as it was.
LEMMA TalkIsWhole ==
  ASSUME NEW h \in Histories, NEW n \in Int
  PROVE  LET g == h \o <<User(n), Answer>> IN
         g \in Histories /\ \A k \in Nat : WholeFrom(h, <<>>, k) => WholeFrom(g, <<>>, k)
<1> DEFINE a == User(n)
           b == Answer
           f == Append(h, a)
           g == Append(f, b)
<1>1. a \in Messages /\ b \in Messages
  BY MessageEvents
<1>2. a.role # "assistant" /\ b.calls = <<>>
  BY DEF User, Answer, Asks
<1> HIDE DEF a, b
<1>3. h \in Seq(Messages)
  BY DEF Histories
<1>4. h \o <<a, b>> = g
  BY <1>1, <1>3
<1>5. f \in Histories
  BY <1>1, AppendedTo
<1> HIDE DEF f
<1>6. g \in Histories
  BY <1>1, <1>5, AppendedTo
<1>7. ASSUME NEW k \in Nat, WholeFrom(h, <<>>, k) PROVE WholeFrom(g, <<>>, k)
  <2>1. WholeFrom(f, <<>>, k)
    BY <1>1, <1>2, <1>7, AddsNoCall DEF f
  <2>2. QED  BY <1>1, <1>2, <1>5, <2>1, AddsNoCall
<1> HIDE DEF g
<1>8. QED  BY <1>4, <1>6, <1>7 DEF a, b

\* Another process talks on a thread.
LEMMA OtherWriterWell ==
  ASSUME TypeOK, SoundInv, NEW t \in Threads, OtherWriter(t)
  PROVE  SoundInv'
<1> DEFINE h == MessagesOf(mem[t])
           g == h \o <<User(OtherText), Answer>>
<1>1. UNCHANGED <<disk, kernel, run>> /\ mem' = [mem EXCEPT ![t] = g]
  BY DEF OtherWriter
<1>2. mem \in [Threads -> Histories \cup {None}] /\ disk \in Journals
  BY DEF TypeOK
<1>3. \A u \in Threads : mem'[u] = IF u = t THEN g ELSE mem[u]
  BY <1>1, <1>2
<1>4. h \in Histories
  <2>1. <<>> \in Histories /\ mem[t] \in Histories \cup {None}
    BY <1>2 DEF Histories
  <2>2. QED  BY <2>1 DEF MessagesOf
<1>5. g \in Histories /\ \A k \in Nat : WholeFrom(h, <<>>, k) => WholeFrom(g, <<>>, k)
  <2>1. OtherText \in Int
    BY DEF OtherText
  <2> HIDE DEF h
  <2>2. QED  BY <1>4, <2>1, TalkIsWhole
<1>6. MessagesOf(g) \in {<<>>, g} /\ Replied(<<>>)
  BY NothingAsked DEF MessagesOf, Replied, Whole
<1>7. Len(disk.hist) \in Nat
  <2>1. disk.hist \in Histories
    BY <1>2, JournalHistories
  <2>2. QED  BY <2>1 DEF Histories
<1>8. MemSound'
  <2> SUFFICES ASSUME NEW u \in Threads, ~Replied(MessagesOf(mem'[u]))
               PROVE  /\ u = disk.thread /\ (Opening(run) \/ Stuck) /\ Laden(disk)
                      /\ WholeFrom(MessagesOf(mem'[u]), <<>>, Len(disk.hist))
    BY <1>1 DEF MemSound, Stuck
  <2>1. \/ Replied(MessagesOf(mem[u]))
        \/ /\ u = disk.thread /\ (Opening(run) \/ Stuck)
           /\ Laden(disk) /\ WholeFrom(MessagesOf(mem[u]), <<>>, Len(disk.hist))
    BY DEF SoundInv, MemSound
  <2>2. CASE u # t
    BY <1>3, <2>1, <2>2
  <2>3. CASE u = t
    <3>1. mem'[u] = g /\ MessagesOf(mem[u]) = h
      BY <1>3, <2>3
    <3> HIDE DEF g, h
    <3>2. MessagesOf(g) = g
      BY <1>6, <3>1
    <3>3. ~Replied(h)
      BY <1>5, <3>1, <3>2 DEF Replied, Whole
    <3>4. QED  BY <1>5, <1>7, <2>1, <3>1, <3>2, <3>3
  <2>4. QED  BY <2>2, <2>3
<1>9. QED  BY <1>1, <1>8 DEF SoundInv, Abreast

-----------------------------------------------------------------------------
(* The theorem.                                                              *)

\* Every step keeps the journal and what is to be done with it sound.
LEMMA NextIsSound == IInv /\ SoundInv /\ [Next]_vars => SoundInv'
<1> SUFFICES ASSUME IInv, SoundInv, [Next]_vars PROVE SoundInv'
  OBVIOUS
<1>0. TypeOK
  BY DEF IInv
<1>1. CASE ScriptStep
  BY <1>0, <1>1, ScriptWell
<1>2. CASE Turn
  <2>1. CASE SwitchThread \/ ApplyBudget \/ OpenTheTurn \/ TheUserSays \/ NextRound \/ PrepareRequest
    BY <1>0, <2>1, SwitchThreadWell, ApplyBudgetWell, OpenTheTurnWell, TheUserSaysWell,
       NextRoundWell, PrepareRequestWell
  <2>2. CASE ModelAnswers \/ ReadResponse \/ Spoken \/ Dispatch \/ BatchSettled \/ Checkpoint \/ RoundDone
    BY <1>0, <2>2, ModelAnswersWell, ReadResponseWell, SpokenWell, DispatchWell,
       BatchSettledWell, CheckpointWell, RoundDoneWell
  <2>3. CASE Conclude \/ Complete \/ Catch
    BY <1>0, <2>3, ConcludeWell, CompleteWell, CatchWell
  <2>4. CASE Committed \/ Mended \/ Terminated \/ Return \/ Finally \/ Close
    BY <1>0, <2>4, SettlesWell, ReturnWell, TerminatesAgainWell
  <2>5. QED  BY <1>2, <2>1, <2>2, <2>3, <2>4 DEF Turn
<1>3. CASE Batch
  BY <1>3, BatchWell
<1>4. CASE (\E t \in left.threads : Chat(t) \/ ResetTo(t) \/ Delete(t)) \/ Ingest \/ Destroy
  BY <1>0, <1>4, BeginWell DEF Chat, ResetTo, Delete, Ingest, Destroy
<1>5. CASE \E t \in left.threads : OtherWriter(t)
  <2>1. left.threads \subseteq Threads
    BY <1>0 DEF TypeOK, Lefts
  <2>2. QED  BY <1>0, <1>5, <2>1, OtherWriterWell
<1>6. CASE KeepThread \/ ClearThread \/ DeleteThread \/ IngestMessage \/ DestroySession
  BY <1>0, <1>6, OutsideWell
<1>7. CASE Open \/ Import
  BY <1>0, <1>7, OpenWell, ImportWell
<1>8. CASE Unopened \/ Crash
  BY <1>8, GoneWell
<1>9. CASE UNCHANGED vars
  <2>1. disk' = disk /\ kernel' = kernel /\ run' = run /\ mem' = mem
    BY <1>9 DEF vars
  <2>2. QED  BY <2>1 DEF SoundInv, MemSound, Abreast, Stuck
<1>10. QED  BY <1>1, <1>2, <1>3, <1>4, <1>5, <1>6, <1>7, <1>8, <1>9 DEF Next, Step

\* A new session is sound.
LEMMA BeginsSound == Init => SoundInv
<1> SUFFICES ASSUME Init PROVE SoundInv
  OBVIOUS
<1>1. Replied(<<>>)
  BY NothingAsked DEF Replied, Whole
<1>2. Sound(disk)
  <2>1. /\ disk.hist = <<>> /\ disk.tools = <<>> /\ disk.turn = None /\ disk.step = None
    BY DEF Init, Fresh
  <2>2. QED  BY <1>1, <2>1 DEF Sound, Replied, RollsBack
<1>3. run.at = "down"
  BY DEF Init, Down, Idle
<1>4. MemSound
  <2> SUFFICES ASSUME NEW t \in Threads PROVE Replied(MessagesOf(mem[t]))
    BY DEF MemSound
  <2> DEFINE old == <<User(OldText), Answer>>
  <2>1. mem[t] \in {None, old}
    BY DEF Init
  <2>2. Replied(old)
    <3>1. <<>> \in Histories /\ OldText \in Int /\ <<>> \in Seq(Messages)
      BY DEF Histories, OldText
    <3>2. old \in Seq({User(OldText), Answer})
      OBVIOUS
    <3>3. <<>> \o old = old
      BY <3>2, ConcatEmptySeq
    <3>4. QED  BY <1>1, <3>1, <3>3, TalkIsWhole DEF Replied, Whole
  <2> HIDE DEF old
  <2>3. MessagesOf(mem[t]) \in {<<>>, old}
    BY <2>1 DEF MessagesOf
  <2>4. QED  BY <1>1, <2>2, <2>3
<1>5. QED  BY <1>2, <1>3, <1>4 DEF SoundInv

\* Every call asked for in a whole history that owes nothing is answered behind it.
LEMMA RepliedAnswers ==
  ASSUME NEW h \in Histories, Replied(h), NEW i \in DOMAIN h, h[i].role = "assistant"
  PROVE  Answers(h, i)
<1> DEFINE calls == h[i].calls
<1>1. /\ i \in Nat /\ i >= 1 /\ i <= Len(h) /\ Len(h) \in Nat
      /\ DOMAIN calls = 1..Len(calls) /\ Len(calls) \in Nat
  BY CallsOf
<1>2. ASSUME NEW k \in DOMAIN calls
      PROVE  i + k \in DOMAIN h /\ h[i + k].role = "tool" /\ h[i + k].call = calls[k]
  <2>1. Reply(h, <<>>, i + k, h[i].calls[k])
    BY <1>1 DEF Replied, Whole, WholeFrom
  <2>2. QED  BY <2>1 DEF Reply
<1>3. i + Len(calls) <= Len(h)
  <2>1. DOMAIN h = 1..Len(h)
    BY DEF Histories
  <2> HIDE DEF calls
  <2>2. CASE Len(calls) = 0
    BY <1>1, <2>2
  <2>3. CASE Len(calls) # 0
    <3>1. Len(calls) \in DOMAIN calls
      BY <1>1, <2>3
    <3>2. i + Len(calls) \in DOMAIN h
      BY <1>2, <3>1
    <3>3. QED  BY <1>1, <2>1, <3>2
  <2>4. QED  BY <2>2, <2>3
<1>4. QED  BY <1>2, <1>3 DEF Answers

(* The agent never asks the journal for an event that its validator refuses, *)
(* whatever append fails and wherever the process dies, and between steps    *)
(* every call in the history is answered right behind it (the validator,     *)
(* session.ts 1601 and 1929).                                                *)
THEOREM JournalStaysWhole == Spec => []WellFormed
<1>1. IInv /\ SoundInv => WellFormed
  <2> SUFFICES ASSUME IInv, SoundInv PROVE WellFormed
    OBVIOUS
  <2>0. TypeOK
    BY DEF IInv
  <2>1. NoRefusal
    <3> SUFFICES ASSUME run.at = "script", run.started \/ kernel.turn = None \/ run.then = "import"
                 PROVE  Accepts(kernel, Head(run.todo)) \/ kernel.dead
      BY DEF NoRefusal
    <3>1. /\ kernel \in Journals /\ Sound(kernel) /\ run.todo # <<>> /\ Head(run.todo) \in Events
          /\ run.then \in Targets /\ MeansWell(run, run.todo, run.then, kernel)
      BY <2>0, ScriptHere
    <3>2. GoesWell(run, run.todo, run.then, kernel, Head(run.todo))
      BY <3>1, Admits
    <3>3. QED  BY <3>2 DEF GoesWell
  <2>2. Balanced
    <3>1. run.at = "import" => kernel.turn = None
      BY <2>0, AtImport
    <3>2. disk \in Journals /\ Sound(disk)
      BY <2>0 DEF TypeOK, SoundInv
    <3>3. disk.step = None => Replied(disk.hist) /\ disk.hist \in Histories
      BY <3>2, SoundParts
    <3>4. QED  BY <3>1, <3>3, RepliedAnswers DEF Balanced
  <2>3. QED  BY <2>1, <2>2 DEF WellFormed
<1>2. QED  BY <1>1, Begins, NextKeeps, BeginsSound, NextIsSound, PTL DEF Spec
=============================================================================
