--------------------------- MODULE SessionJournal ---------------------------
(***************************************************************************)
(* The event journal of one chat session, src/src/framework/session.ts, as *)
(* pure operators.  A journal is represented by the fold of its events: the *)
(* projections the kernel keeps (model history, adapter continuation,       *)
(* thread), what the validator knows of the open turn, step and tools, and  *)
(* what the recovery of an interrupted process would read out of the same   *)
(* events.  The code rebuilds the three from the whole stream on every open; *)
(* Advance is that fold, one event at a time.                               *)
(*   Accepts(J, e)    may e be appended to J (SessionKernel.append)         *)
(*   Advance(J, e)    J with e appended                                     *)
(*   RecoveryPlan(J)  the events recoverInterrupted() appends to J          *)
(* One turn and one step are open at a time, so their ids are left out: an  *)
(* event "of the turn" is accepted when a turn is open.                     *)
(***************************************************************************)
EXTENDS Integers, Sequences, SequencesExt

CONSTANT None  \* no turn, no step, no message: the code's undefined

-----------------------------------------------------------------------------
(* Messages of the model history.  A text answer asks for no call; a tool   *)
(* message carries what the durable result of its call says of the effect:  *)
(*   done, failed   the handler answered                                    *)
(*   unknown        it may have acted, the answer is missing                *)
(*   rejected       the executor's receipt says it was not started          *)
(*   not executed   recovery's receipt: no dispatch intent was recorded     *)

User(text) == [role |-> "user", text |-> text]
Asks(calls) == [role |-> "assistant", calls |-> calls]
Answer == Asks(<<>>)
Receipt(call, says) == [role |-> "tool", call |-> call, says |-> says]

(* Events.  An adapter event sets the continuation, or clears it to <<>>.   *)
TurnStarted == [type |-> "turn/started"]
TurnEnded(outcome) == [type |-> "turn/ended", outcome |-> outcome]
StepStarted == [type |-> "step/started"]
StepCompleted(outcome) ==
  [type |-> "step/completed", outcome |-> outcome, recovered |-> FALSE, rollbackTurn |-> FALSE]
Request(history) == [type |-> "model/request-prepared", history |-> history]
Response(message) == [type |-> "model/response-received", message |-> message]
Message(message) == [type |-> "message/appended", message |-> message, external |-> FALSE]
External(message) == [type |-> "message/appended", message |-> message, external |-> TRUE]
ToolCall(call) == [type |-> "tool/call", call |-> call]
ToolStarted(call) == [type |-> "tool/execution-started", call |-> call]
ToolResult(call, says) ==
  [type |-> "tool/result", call |-> call, says |-> says, recovered |-> FALSE]
Adapter(state) == [type |-> "adapter/state", state |-> state]
Replaced(history, reason) ==
  [type |-> "history/replaced", history |-> history, reason |-> reason, recovered |-> FALSE,
   clear |-> FALSE, thread |-> None]
Compacted(history) == [Replaced(history, "model_history_budget") EXCEPT !.clear = TRUE]
Switched(thread, history) ==
  [Replaced(history, "thread_switched") EXCEPT !.clear = TRUE, !.thread = thread]
Reset(thread) == [type |-> "session/reset", thread |-> thread]
Destroyed == [type |-> "session/destroyed"]

-----------------------------------------------------------------------------
(* The fold.  turn is None or the open turn: the history and continuation   *)
(* it began with (inspectOpenWork), whether its projection holds more than  *)
(* user messages, whether a failed step obliges recovery to roll it back,   *)
(* and the validator's three marks about history replacement.  step is None *)
(* or the open step; tools are the calls declared and not yet answered in   *)
(* the history, in declaration order.                                       *)

Fresh(thread) ==
  [hist |-> <<>>, adapter |-> <<>>, thread |-> thread, dead |-> FALSE, count |-> 1,
   external |-> {}, turn |-> None, step |-> None, tools |-> <<>>]

OpenTurn(J) ==
  [before |-> J.hist, adapterBefore |-> J.adapter, nonUser |-> FALSE, mustRoll |-> FALSE,
   stepped |-> FALSE, mayRoll |-> FALSE, rolled |-> FALSE]

OpenStep(J) ==
  [pending |-> "nothing", expected |-> None, asked |-> FALSE,
   adapterBefore |-> J.adapter, unprojected |-> TRUE]

IsOpen(J, call) == \E i \in DOMAIN J.tools : J.tools[i].call = call
Place(J, call) == CHOOSE i \in DOMAIN J.tools : J.tools[i].call = call
At(J, call) == J.tools[Place(J, call)].at
Says(J, call) == J.tools[Place(J, call)].says

SetTool(J, call, at, says) ==
  [J EXCEPT !.tools = [i \in DOMAIN @ |->
     IF @[i].call = call THEN [call |-> call, at |-> at, says |-> says] ELSE @[i]]]

InternalRollbacks ==
  {"turn_failed", "turn_interrupted", "turn_failed_partial_effects",
   "turn_interrupted_partial_effects", "turn_without_assistant_rolled_back"}

-----------------------------------------------------------------------------
(* validateCorrelationTransition: requests and responses alternate, an      *)
(* assistant message is the response it projects, and every tool goes       *)
(* declared -> called -> started -> result -> answered.                     *)

AdapterEvent(e) == e.type = "adapter/state"
Fails(e) == e.type = "step/completed" /\ e.outcome # "completed"

Projects(e, expected) ==
  \/ e.type = "message/appended" /\ expected # None /\ e.message = expected
  \/ e.type = "step/completed" /\ (e.outcome = "completed" => expected = None)

Pending(J) == IF J.step = None THEN "nothing" ELSE J.step.pending

(* A request waits for its response, a response for its projection, and     *)
(* nothing but adapter state comes in between.                              *)
AwaitsResponse(J, e) ==
  Pending(J) = "request" =>
    e.type = "model/response-received" \/ Fails(e) \/ AdapterEvent(e)

AwaitsProjection(J, e) ==
  Pending(J) = "response" => Projects(e, J.step.expected) \/ AdapterEvent(e)

Alternates(J, e) ==
  /\ e.type = "model/request-prepared" =>
       Pending(J) = "nothing" /\ J.tools = <<>> /\ J.step # None /\ ~J.step.asked
  /\ e.type = "model/response-received" => Pending(J) = "request"

(* declared, called, started: each once, in this order.                     *)
Dispatches(J, e) ==
  /\ e.type = "tool/call" => IsOpen(J, e.call) /\ At(J, e.call) = "declared"
  /\ e.type = "tool/execution-started" => IsOpen(J, e.call) /\ At(J, e.call) = "called"

Concludes(J, e) ==
  e.type = "tool/result" =>
    /\ IsOpen(J, e.call)
    /\ At(J, e.call) # "result"
    /\ IF e.recovered
       THEN e.says = IF At(J, e.call) = "started" THEN "unknown" ELSE "not executed"
       ELSE \/ At(J, e.call) = "started"
            \/ At(J, e.call) = "called" /\ e.says = "rejected"

(* The model is told what the journal holds, and only that.                 *)
Repeats(J, e) ==
  e.type = "message/appended" =>
    /\ e.message.role = "assistant" => Pending(J) = "response"
    /\ e.message.role = "tool" =>
         /\ IsOpen(J, e.message.call)
         /\ At(J, e.message.call) = "result"
         /\ Says(J, e.message.call) = e.message.says

Correlates(J, e) ==
  /\ AwaitsResponse(J, e) /\ AwaitsProjection(J, e) /\ Alternates(J, e)
  /\ Dispatches(J, e) /\ Concludes(J, e) /\ Repeats(J, e)

(* validateLifecycleTransition: what may happen in and out of an open turn. *)
NeedsStep(e) ==
  \/ e.type \in {"model/request-prepared", "model/response-received", "tool/call",
                 "tool/execution-started", "tool/result"}
  \/ e.type = "message/appended" /\ e.message.role # "user"

MayReplace(J, e) ==
  IF J.turn = None THEN ~e.recovered
  ELSE /\ e.thread = None /\ ~e.clear
       /\ \/ J.turn.mayRoll
          \/ e.reason \in InternalRollbacks
          \/ e.recovered /\ (~J.turn.stepped \/ J.turn.rolled)

Replaces(J, e) ==
  e.type = "history/replaced" => J.step = None /\ J.tools = <<>> /\ MayReplace(J, e)

Starts(J, e) ==
  /\ e.type = "turn/started" => J.turn = None
  /\ e.type = "step/started" => J.turn # None /\ J.step = None

Ends(J, e) ==
  /\ e.type = "step/completed" => J.step # None /\ J.tools = <<>>
  /\ e.type = "turn/ended" => J.turn # None /\ J.step = None /\ J.tools = <<>>

Closes(J, e) ==
  e.type \in {"session/reset", "session/destroyed"} =>
    J.turn = None /\ J.step = None /\ J.tools = <<>>

Lives(J, e) ==
  /\ NeedsStep(e) => J.turn # None /\ J.step # None
  /\ (e.type = "message/appended" /\ e.message.role = "user") => J.step = None /\ J.tools = <<>>
  /\ e.type = "adapter/state" => J.turn # None
  /\ Replaces(J, e) /\ Starts(J, e) /\ Ends(J, e) /\ Closes(J, e)

(* model/request-prepared must name the history it is asked with.           *)
Accepts(J, e) ==
  /\ ~J.dead
  /\ e.type = "model/request-prepared" => e.history = J.hist
  /\ Correlates(J, e)
  /\ Lives(J, e)

-----------------------------------------------------------------------------
(* Advance: projectEvent, projectAdapterSessionStates, projectThreadId,      *)
(* advanceSessionValidationState and the pass of inspectOpenWork.            *)

NonUser(messages) == \E i \in DOMAIN messages : messages[i].role # "user"

(* historyHasRetainedNonUserMessage. *)
RetainsWork(current, before) ==
  IF IsPrefix(before, current)
  THEN NonUser(SubSeq(current, Len(before) + 1, Len(current)))
  ELSE NonUser(current)

AfterMessage(J, m) ==
  LET K == [J EXCEPT !.hist = Append(@, m)] IN
  IF m.role = "user" THEN K
  ELSE IF m.role = "tool"
  THEN [K EXCEPT !.turn.nonUser = TRUE, !.tools = RemoveAt(@, Place(J, m.call))]
  ELSE [K EXCEPT !.turn.nonUser = TRUE,
                 !.step.pending = "nothing", !.step.expected = None, !.step.unprojected = FALSE,
                 !.tools = [i \in DOMAIN m.calls |->
                              [call |-> m.calls[i], at |-> "declared", says |-> "unknown"]]]

AfterStep(J, e) ==
  LET silent == e.outcome = "completed" /\ J.step.pending = "response" /\ J.step.expected = None
      failed == e.outcome # "completed" /\ (e.recovered => e.rollbackTurn)
  IN [J EXCEPT !.step = None,
               !.turn.mayRoll = silent \/ failed,
               !.turn.mustRoll = @ \/ failed]

AfterReplacement(J, e) ==
  LET K == [J EXCEPT !.hist = e.history,
                     !.adapter = IF e.clear THEN <<>> ELSE @,
                     !.thread = IF e.thread = None THEN @ ELSE e.thread]
  IN IF J.turn = None THEN K
     ELSE [K EXCEPT !.turn.nonUser = RetainsWork(e.history, J.turn.before),
                    !.turn.mayRoll = FALSE, !.turn.rolled = TRUE]

Effect(J, e) ==
  CASE e.type = "turn/started" -> [J EXCEPT !.turn = OpenTurn(J)]
    [] e.type = "turn/ended" -> [J EXCEPT !.turn = None]
    [] e.type = "step/started" ->
         [J EXCEPT !.step = OpenStep(J),
                   !.turn.stepped = TRUE, !.turn.mayRoll = FALSE, !.turn.rolled = FALSE]
    [] e.type = "step/completed" -> AfterStep(J, e)
    [] e.type = "model/request-prepared" ->
         [J EXCEPT !.step.pending = "request", !.step.asked = TRUE,
                   !.step.adapterBefore = J.adapter, !.step.unprojected = TRUE]
    [] e.type = "model/response-received" ->
         [J EXCEPT !.step.pending = "response", !.step.expected = e.message]
    [] e.type = "message/appended" ->
         [AfterMessage(J, e.message) EXCEPT
            !.external = IF e.external THEN @ \union {e.message.text} ELSE @]
    [] e.type = "tool/call" -> SetTool(J, e.call, "called", "unknown")
    [] e.type = "tool/execution-started" -> SetTool(J, e.call, "started", "unknown")
    [] e.type = "tool/result" -> SetTool(J, e.call, "result", e.says)
    [] e.type = "adapter/state" -> [J EXCEPT !.adapter = e.state]
    [] e.type = "history/replaced" -> AfterReplacement(J, e)
    [] e.type = "session/reset" -> [J EXCEPT !.hist = <<>>, !.adapter = <<>>, !.thread = e.thread]
    [] e.type = "session/destroyed" -> [J EXCEPT !.dead = TRUE]

(* The constructor asks only whether session/started is the single event. *)
Advance(J, e) == [Effect(J, e) EXCEPT !.count = 2]

-----------------------------------------------------------------------------
(* recoverInterrupted: answer the open tools, close the step, then the turn. *)

Recovered(t) ==
  LET says == IF t.at = "started" THEN "unknown" ELSE "not executed" IN
  IF t.at = "result" THEN <<Message(Receipt(t.call, t.says))>>
  ELSE <<[ToolResult(t.call, says) EXCEPT !.recovered = TRUE], Message(Receipt(t.call, says))>>

Restore(from, to) == IF from = to THEN <<>> ELSE <<Adapter(to)>>

RollsBack(J) == J.turn # None /\ (~J.turn.nonUser \/ J.turn.mustRoll)

ContinuationAtTurn(J) ==
  IF J.step # None /\ J.step.unprojected THEN J.step.adapterBefore ELSE J.adapter

CloseTools(J) == FlattenSeq([i \in DOMAIN J.tools |-> Recovered(J.tools[i])])

CloseStep(J) ==
  IF J.step = None THEN <<>>
  ELSE Append(Restore(J.adapter, ContinuationAtTurn(J)),
              [StepCompleted("interrupted") EXCEPT !.recovered = TRUE,
                                                    !.rollbackTurn = RollsBack(J)])

RollBackTurn(J) ==
  IF ~RollsBack(J) THEN <<>>
  ELSE <<[Replaced(J.turn.before, "interrupted_turn_rolled_back") EXCEPT !.recovered = TRUE]>>
       \o Restore(ContinuationAtTurn(J), J.turn.adapterBefore)

CloseTurn(J) == IF J.turn = None THEN <<>> ELSE <<TurnEnded("interrupted")>>

(* Seeded fault: the turn is not closed.                                    *)
RecoveryPlanOpen(J) == CloseTools(J) \o CloseStep(J)

RecoveryPlan(J) ==
  IF J.dead THEN <<>> ELSE CloseTools(J) \o CloseStep(J) \o RollBackTurn(J) \o CloseTurn(J)
=============================================================================
